-------------------------- MODULE DatastoreProofs --------------------------
(***************************************************************************)
(* What the calls of the slave contexts leave of a store; what a           *)
(* simulator's validation says of the cells it passes, and of those it     *)
(* never gets past; and what the setup makes of a simulator's              *)
(* configuration, which is what the module ModbusDevice assumes of its     *)
(* stores: for every store the constructors make, every layout, address,   *)
(* count and width of a word.                                              *)
(***************************************************************************)
EXTENDS ModbusDevice, NaturalFacts

LEMMA MinOfTwo ==
  ASSUME NEW a \in Nat, NEW b \in Nat
  PROVE  Min({a, b}) = IF a <= b THEN a ELSE b
BY DEF Min

-----------------------------------------------------------------------------
(* What the context's calls leave.                                         *)

LEMMA ValidateLeaves ==
  ASSUME NEW s, NEW fc, NEW a, NEW n
  PROVE  /\ Validate(s, fc, a, n).code # 0 => Validate(s, fc, a, n).store = s
         /\ fc \notin {5, 6} \/ s.kind # "remote" => Validate(s, fc, a, n).store = s
BY DEF Validate, RemoteValidate, Result, SlaveFailure, IllegalAddress

LEMMA GetLeaves ==
  ASSUME NEW s, s.kind # "simulator", NEW fc, NEW a, NEW n
  PROVE  /\ GetValues(s, fc, a, n).store = s
         /\ s.kind # "remote" \/ fc \in {5, 6} => GetValues(s, fc, a, n).code = 0
BY DEF GetValues, BlockGet, RemoteGet, RemoteValidate, Result

LEMMA SetLeaves ==
  ASSUME NEW s, s.kind # "simulator", NEW fc, NEW a, NEW vals
  PROVE  /\ SetValues(s, fc, a, vals).code = 0
         /\ s.kind = "remote" => SetValues(s, fc, a, vals).store = s
         /\ "kind" \in DOMAIN s => SetValues(s, fc, a, vals).store.kind = s.kind
BY DEF SetValues, BlockSet, Result

LEMMA BlockSetKeeps ==
  ASSUME NEW s, IsStore(s), s.kind \in {"sequential", "sparse"}, NEW fc, NEW a, NEW vals
  PROVE  LET set == BlockSet(s, fc, a, vals).store
         IN  /\ IsStore(set) /\ set.kind = s.kind /\ set.zero = s.zero
             /\ \A t \in {"c", "d", "h", "i"} : DOMAIN set.mem[t] = DOMAIN s.mem[t]
<1> DEFINE set == BlockSet(s, fc, a, vals).store
           table == TableOf(fc)
           block == [k \in DOMAIN s.mem[table] |->
                       IF k - BlockAddress(s, a) + 1 \in DOMAIN vals
                         THEN vals[k - BlockAddress(s, a) + 1] ELSE s.mem[table][k]]
           mem == [s.mem EXCEPT ![table] = block]
<1>1. set = [s EXCEPT !.mem = mem]
  BY DEF BlockSet, Result
<1>2. DOMAIN block = DOMAIN s.mem[table] /\ table \in {"c", "d", "h", "i"}
  BY DEF TableOf
<1> HIDE DEF set, block, table
<1>3. /\ DOMAIN mem = DOMAIN s.mem
      /\ \A t \in {"c", "d", "h", "i"} : DOMAIN mem[t] = DOMAIN s.mem[t]
  BY <1>2 DEF IsStore, IsContext
<1> HIDE DEF mem
<1>4. /\ {"kind", "zero", "mem"} \subseteq DOMAIN set
      /\ set.kind = s.kind /\ set.zero = s.zero /\ set.mem = mem
  BY <1>1 DEF IsStore, IsContext
<1>5. \A t \in {"c", "d", "h", "i"} : IsBlock(s.kind, s.mem[t]) /\ DOMAIN s.mem = {"c", "d", "h", "i"}
  BY DEF IsStore, IsContext
<1>6. \A t \in {"c", "d", "h", "i"} : IsBlock(set.kind, set.mem[t])
  <2> SUFFICES ASSUME NEW t \in {"c", "d", "h", "i"} PROVE IsBlock(set.kind, set.mem[t])
    OBVIOUS
  <2>1. PICK old, new : old = s.mem[t] /\ new = mem[t]
    OBVIOUS
  <2>2. DOMAIN new = DOMAIN old /\ IsBlock(s.kind, old)
    BY <1>3, <1>5, <2>1
  <2>3. IsBlock(s.kind, new)
    BY <2>2 DEF IsBlock
  <2> QED BY <1>4, <2>1, <2>3
<1>7. IsStore(set)
  <2>1. IsContext(set)
    BY <1>3, <1>4, <1>5, <1>6 DEF IsContext
  <2> QED BY <1>4, <2>1 DEF IsStore
<1> QED BY <1>3, <1>4, <1>7 DEF set


LEMMA ContextKeeps ==
  ASSUME NEW s, IsStore(s), s.kind # "simulator", NEW fc, NEW a, NEW n, NEW vals
  PROVE  /\ IsStore(Validate(s, fc, a, n).store) /\ Validate(s, fc, a, n).store.kind = s.kind
         /\ IsStore(GetValues(s, fc, a, n).store) /\ GetValues(s, fc, a, n).store.kind = s.kind
         /\ IsStore(SetValues(s, fc, a, vals).store) /\ SetValues(s, fc, a, vals).store.kind = s.kind
<1>1. CASE s.kind = "remote"
  <2>1. GetValues(s, fc, a, n).store = s /\ SetValues(s, fc, a, vals).store = s
    BY <1>1, GetLeaves, SetLeaves
  <2>2. ASSUME NEW mem
        PROVE  IsStore([s EXCEPT !.mem = mem]) /\ [s EXCEPT !.mem = mem].kind = s.kind
    <3>1. [s EXCEPT !.mem = mem].kind = s.kind /\ "kind" \in DOMAIN [s EXCEPT !.mem = mem]
      BY DEF IsStore
    <3> QED BY <1>1, <3>1 DEF IsStore
  <2>3. \/ Validate(s, fc, a, n).store = s
        \/ \E mem : Validate(s, fc, a, n).store = [s EXCEPT !.mem = mem]
    BY <1>1 DEF Validate, RemoteValidate, Result
  <2> QED BY <2>1, <2>2, <2>3
<1>2. CASE s.kind # "remote"
  <2>1. Validate(s, fc, a, n).store = s /\ GetValues(s, fc, a, n).store = s
    BY <1>2, ValidateLeaves, GetLeaves
  <2>2. SetValues(s, fc, a, vals) = BlockSet(s, fc, a, vals)
    BY <1>2 DEF SetValues
  <2>3. CASE s.kind \in {"sequential", "sparse"}
    BY <2>1, <2>2, <2>3, BlockSetKeeps
  <2>4. CASE s.kind \notin {"sequential", "sparse"}
    <3>1. PICK mem : BlockSet(s, fc, a, vals).store = [s EXCEPT !.mem = mem]
      BY DEF BlockSet, Result
    <3>2. [s EXCEPT !.mem = mem].kind = s.kind /\ "kind" \in DOMAIN [s EXCEPT !.mem = mem]
      BY DEF IsStore
    <3> QED BY <2>1, <2>2, <2>4, <3>1, <3>2 DEF IsStore
  <2> QED BY <2>3, <2>4
<1> QED BY <1>1, <1>2

-----------------------------------------------------------------------------
(* What blocks hold and hand out.                                          *)

LEMMA IntervalEnds ==
  ASSUME NEW first \in Nat, NEW last \in Nat, first <= last
  PROVE  Min(first .. last) = first /\ Max(first .. last) = last
BY DEF Min, Max

LEMMA HeldOneByOne ==
  ASSUME NEW s, IsStore(s), s.kind \in {"sequential", "sparse"},
         NEW fc, NEW a \in Nat, NEW n \in Nat, 1 <= n, BlockValidate(s, fc, a, n) = 0,
         NEW b \in a .. a + n - 1
  PROVE  /\ BlockAddress(s, b) \in DOMAIN s.mem[TableOf(fc)]
         /\ BlockValidate(s, fc, b, 1) = 0
<1> DEFINE block == s.mem[TableOf(fc)]
           first == BlockAddress(s, a)
           at == BlockAddress(s, b)
<1>1. IsBlock(s.kind, block)
  BY DEF IsStore, IsContext, TableOf
<1>2. at \in first .. first + n - 1 /\ first \in Nat
  BY DEF BlockAddress
<1>3. /\ s.kind = "sequential" => SequentialHolds(block, first, n)
      /\ s.kind = "sparse" => SparseHolds(block, first, n)
  BY DEF BlockValidate, IllegalAddress
<1>4. /\ BlockValidate(s, fc, b, 1) = 0
           <=> IF s.kind = "sequential" THEN SequentialHolds(block, at, 1)
               ELSE SparseHolds(block, at, 1)
  BY DEF BlockValidate, IllegalAddress
<1> HIDE DEF block, first, at
<1>5. CASE s.kind = "sequential"
  <2>1. PICK lo \in DOMAIN block, hi \in DOMAIN block : DOMAIN block = lo .. hi
    BY <1>1, <1>5 DEF IsBlock
  <2>2. lo \in Nat /\ hi \in Nat /\ lo <= hi
    BY <1>1, <2>1 DEF IsBlock
  <2>3. Min(DOMAIN block) = lo /\ Max(DOMAIN block) = hi
    BY <2>1, <2>2, IntervalEnds
  <2>4. lo <= first /\ first + n <= hi + 1
    BY <1>3, <1>5, <2>3 DEF SequentialHolds
  <2>5. at \in lo .. hi
    BY <1>2, <2>2, <2>4
  <2>6. SequentialHolds(block, at, 1)
    BY <2>2, <2>3, <2>5 DEF SequentialHolds
  <2> QED BY <1>4, <1>5, <2>1, <2>5, <2>6 DEF block, at
<1>6. CASE s.kind = "sparse"
  <2>1. at \in DOMAIN block
    BY <1>2, <1>3, <1>6 DEF SparseHolds
  <2>2. SparseHolds(block, at, 1)
    BY <1>2, <2>1 DEF SparseHolds
  <2> QED BY <1>4, <1>6, <2>1, <2>2 DEF block, at
<1> QED BY <1>5, <1>6

-----------------------------------------------------------------------------
(* What loop_validate() of a simulator has looked at when it passes.       *)

\* What it does at cell i, if f is what it does from later cells on.
LoopBody(s, fc, end, f, i) ==
  IF i >= end THEN 0
  ELSE IF i >= Size(s) THEN SlaveFailure
  ELSE LET cell == s.cells[i]
       IN IF ~CellAllows(cell, fc) THEN IllegalAddress
          ELSE IF ~s.strict THEN f[i + 1]
          ELSE IF cell.type = "next" THEN IllegalAddress
          ELSE IF cell.type \in {"bits", "uint16"} THEN f[i + 1]
          ELSE IF Wide(cell.type)
            THEN IF PairFits(i, end) THEN f[i + 2] ELSE IllegalAddress
          ELSE LET rest == {j \in i + 1 .. end - 1 :
                              j >= Size(s) \/ s.cells[j].type # "next"}
               IN IF rest = {} THEN 0
                  ELSE IF Min(rest) >= Size(s) THEN SlaveFailure ELSE Hangs

LEMMA LoopExists ==
  ASSUME NEW s, NEW fc, NEW end \in Nat
  PROVE  \E f : f = [i \in Nat |-> LoopBody(s, fc, end, f, i)]
<1> DEFINE From(f, d) == \A i \in Nat : i >= end - d => f[i] = LoopBody(s, fc, end, f, i)
           N == {d \in Nat : \E f : f = [i \in Nat |-> f[i]] /\ From(f, d)}
<1>1. 0 \in N
  <2> DEFINE f == [i \in Nat |-> 0]
  <2>1. f = [i \in Nat |-> f[i]] /\ From(f, 0)
    BY DEF LoopBody
  <2> HIDE DEF f, From
  <2> QED BY <2>1
<1>2. ASSUME NEW d \in N PROVE d + 1 \in N
  <2>1. PICK f : f = [i \in Nat |-> f[i]] /\ From(f, d)
    OBVIOUS
  <2> DEFINE g == [i \in Nat |-> IF i = end - d - 1 THEN LoopBody(s, fc, end, f, i) ELSE f[i]]
  <2>2. ASSUME NEW i \in Nat, i >= end - (d + 1)
        PROVE  g[i] = LoopBody(s, fc, end, g, i)
    <3>1. g[i + 1] = f[i + 1] /\ g[i + 2] = f[i + 2]
      BY <2>2
    <3>2. g[i] = LoopBody(s, fc, end, f, i)
      <4>1. CASE i = end - d - 1
        BY <4>1
      <4>2. CASE i # end - d - 1
        <5>1. i >= end - d
          BY <2>2, <4>2
        <5>2. g[i] = f[i]
          BY <4>2
        <5> HIDE DEF g
        <5> QED BY <2>1, <5>1, <5>2
      <4> QED BY <4>1, <4>2
    <3> HIDE DEF g
    <3> QED BY <3>1, <3>2 DEF LoopBody
  <2>3. g = [i \in Nat |-> g[i]]
    OBVIOUS
  <2> HIDE DEF g
  <2>4. From(g, d + 1)
    BY <2>2
  <2> HIDE DEF From
  <2> QED BY <2>3, <2>4
<1>3. N \in SUBSET Nat
  OBVIOUS
<1>4. end \in N
  <2> HIDE DEF N
  <2> QED BY <1>1, <1>2, <1>3, SetInduction
<1>5. PICK f : f = [i \in Nat |-> f[i]] /\ From(f, end)
  BY <1>4
<1>6. \A i \in Nat : f[i] = LoopBody(s, fc, end, f, i)
  BY <1>5
<1>7. f = [i \in Nat |-> LoopBody(s, fc, end, f, i)]
  <2> HIDE DEF From
  <2> QED BY <1>5, <1>6
<1> QED BY <1>7

\* A cell that was looked at itself, or is of a value whose first cell was.
Allowed(s, fc, m) ==
  \E j \in 0 .. m : /\ CellAllows(s.cells[j], fc)
                    /\ j = m \/ (s.strict /\ Takes(s.cells, j, m))

\* What is asked of cell m, in a request that ends before cell end.
CellPasses(s, fc, end, m) ==
  /\ Allowed(s, fc, m)
  /\ s.strict /\ Uncut(s.cells) /\ Wide(s.cells[m].type) => m + 1 < end

LEMMA LoopPasses ==
  ASSUME NEW s, IsSimulator(s), NEW fc, NEW first \in Nat, NEW end \in Nat,
         LoopValidate(s, fc, first, end) = 0
  PROVE  /\ \A m \in first .. end - 1 : CellPasses(s, fc, end, m)
         /\ s.strict /\ first < end => s.cells[first].type # "next"
<1> DEFINE F == CHOOSE f : f = [i \in Nat |-> LoopBody(s, fc, end, f, i)]
           Passes(i) == F[i] = 0 => \A m \in i .. end - 1 : CellPasses(s, fc, end, m)
           N == {d \in Nat : \A i \in Nat : end - i <= d => Passes(i)}
<1>1. \A i \in Nat : F[i] = LoopBody(s, fc, end, F, i)
  <2>1. F = [i \in Nat |-> LoopBody(s, fc, end, F, i)]
    BY LoopExists
  <2> HIDE DEF F
  <2> QED BY <2>1
<1>2. F[first] = 0
  BY DEF LoopValidate, LoopBody
<1> HIDE DEF F
<1>3. Size(s) \in Nat /\ DOMAIN s.cells = 0 .. Size(s) - 1
  BY FS_CardinalityType DEF IsSimulator, Size
<1>4. ASSUME NEW i \in Nat, Passes(i + 1), Passes(i + 2) PROVE Passes(i)
  <2> SUFFICES ASSUME F[i] = 0, NEW m \in i .. end - 1 PROVE CellPasses(s, fc, end, m)
    OBVIOUS
  <2>1. i < end /\ F[i] = LoopBody(s, fc, end, F, i)
    BY <1>1
  <2>2. i < Size(s) /\ CellAllows(s.cells[i], fc)
    BY <2>1, <1>3 DEF LoopBody, SlaveFailure, IllegalAddress
  <2> DEFINE cell == s.cells[i]
  <2>3. Allowed(s, fc, i)
    BY <2>2 DEF Allowed
  <2>4. CASE ~s.strict \/ cell.type \in {"bits", "uint16"}
    <3>1. F[i + 1] = 0
      BY <2>1, <2>2, <2>4, <1>3 DEF LoopBody
    <3>2. m = i \/ m \in i + 1 .. end - 1
      OBVIOUS
    <3>3. CASE m = i
      <4>1. ~s.strict \/ ~Wide(s.cells[m].type)
        BY <2>4, <3>3 DEF Wide
      <4> QED BY <2>2, <2>3, <3>3, <4>1 DEF CellPasses
    <3> QED BY <1>4, <3>1, <3>2, <3>3
  <2>5. CASE s.strict /\ Wide(cell.type)
    <3>1. cell.type \notin {"bits", "uint16", "next"}
      BY <2>5 DEF Wide
    <3>2. i + 1 < end /\ F[i + 2] = 0
      BY <2>1, <2>2, <2>5, <3>1, <1>3 DEF LoopBody, IllegalAddress, PairFits
    <3>3. CASE m = i
      BY <2>2, <2>3, <3>2, <3>3 DEF CellPasses
    <3>4. CASE m = i + 1
      <4>1. Allowed(s, fc, m)
        BY <2>2, <2>5, <3>4 DEF Allowed, Takes
      <4>2. Uncut(s.cells) => ~Wide(s.cells[m].type)
        <5>1. i \in DOMAIN s.cells /\ Wide(s.cells[i].type)
          BY <2>2, <2>5, <1>3
        <5>2. Uncut(s.cells) => s.cells[m].type = "next"
          BY <3>4, <5>1 DEF Uncut
        <5> QED BY <5>2 DEF Wide
      <4> QED BY <4>1, <4>2 DEF CellPasses
    <3>5. m = i \/ m = i + 1 \/ m \in i + 2 .. end - 1
      OBVIOUS
    <3> QED BY <1>4, <3>2, <3>3, <3>4, <3>5
  <2>6. CASE s.strict /\ ~Wide(cell.type) /\ cell.type \notin {"bits", "uint16"}
    <3>1. cell.type # "next"
      BY <2>1, <2>2, <2>6, <1>3 DEF LoopBody, IllegalAddress
    <3> DEFINE rest == {j \in i + 1 .. end - 1 : j >= Size(s) \/ s.cells[j].type # "next"}
    <3>2. rest = {}
      BY <2>1, <2>2, <2>6, <3>1, <1>3 DEF LoopBody, SlaveFailure, Hangs
    <3>3. \A j \in i + 1 .. end - 1 : s.cells[j].type = "next"
      BY <3>2
    <3>4. CASE m = i
      BY <2>3, <2>6, <3>4 DEF CellPasses
    <3>5. CASE m # i
      <4>1. m \in i + 1 .. end - 1 /\ \A k \in i + 1 .. m : s.cells[k].type = "next"
        BY <3>3, <3>5
      <4>2. Allowed(s, fc, m)
        BY <2>2, <2>6, <4>1 DEF Allowed, Takes
      <4>3. ~Wide(s.cells[m].type)
        BY <4>1 DEF Wide
      <4> QED BY <4>2, <4>3 DEF CellPasses
    <3> QED BY <3>4, <3>5
  <2> QED BY <2>4, <2>5, <2>6
<1>5. 0 \in N
  OBVIOUS
<1>6. ASSUME NEW d \in N PROVE d + 1 \in N
  <2> SUFFICES ASSUME NEW i \in Nat, end - i <= d + 1 PROVE Passes(i)
    OBVIOUS
  <2>1. i + 1 \in Nat /\ i + 2 \in Nat /\ end - (i + 1) <= d /\ end - (i + 2) <= d
    OBVIOUS
  <2>2. Passes(i + 1) /\ Passes(i + 2)
    <3> HIDE DEF Passes
    <3> QED BY <2>1
  <2> HIDE DEF Passes
  <2> QED BY <1>4, <2>2
<1>7. end \in N
  <2>1. N \in SUBSET Nat
    OBVIOUS
  <2> HIDE DEF N
  <2> QED BY <1>5, <1>6, <2>1, SetInduction
<1>8. \A m \in first .. end - 1 : CellPasses(s, fc, end, m)
  <2>1. Passes(first)
    <3>1. end - first <= end
      OBVIOUS
    <3> HIDE DEF Passes
    <3> QED BY <1>7, <3>1
  <2> QED BY <1>2, <2>1
<1>9. s.strict /\ first < end => s.cells[first].type # "next"
  <2>1. F[first] = LoopBody(s, fc, end, F, first)
    BY <1>1
  <2> QED BY <1>2, <1>3, <2>1 DEF LoopBody, SlaveFailure, IllegalAddress
<1> QED BY <1>8, <1>9

\* Among the cells up to end, from i on, is a string, and after it another value.
PastString(s, i, end) ==
  \E j, k \in (i .. end - 1) \cap DOMAIN s.cells :
    j < k /\ s.cells[j].type = "string" /\ s.cells[k].type # "next"

\* What has been looked at when it does not end.
LEMMA LoopHangs ==
  ASSUME NEW s, IsSimulator(s), NEW fc, NEW first \in Nat, NEW end \in Nat,
         LoopValidate(s, fc, first, end) = Hangs
  PROVE  s.strict /\ PastString(s, first, end)
<1> DEFINE F == CHOOSE f : f = [i \in Nat |-> LoopBody(s, fc, end, f, i)]
           Hung(i) == F[i] = Hangs => s.strict /\ PastString(s, i, end)
           N == {d \in Nat : \A i \in Nat : end - i <= d => Hung(i)}
<1>1. \A i \in Nat : F[i] = LoopBody(s, fc, end, F, i)
  <2>1. F = [i \in Nat |-> LoopBody(s, fc, end, F, i)]
    BY LoopExists
  <2> HIDE DEF F
  <2> QED BY <2>1
<1>2. F[first] = Hangs
  BY DEF LoopValidate, LoopBody
<1> HIDE DEF F
<1>3. Size(s) \in Nat /\ DOMAIN s.cells = 0 .. Size(s) - 1
  BY FS_CardinalityType DEF IsSimulator, Size
<1>4. ASSUME NEW i \in Nat, Hung(i + 1), Hung(i + 2) PROVE Hung(i)
  <2> SUFFICES ASSUME F[i] = Hangs PROVE s.strict /\ PastString(s, i, end)
    OBVIOUS
  <2> DEFINE cell == s.cells[i]
             rest == {j \in i + 1 .. end - 1 : j >= Size(s) \/ s.cells[j].type # "next"}
  <2>0. 0 # Hangs /\ SlaveFailure # Hangs /\ IllegalAddress # Hangs
    BY DEF SlaveFailure, IllegalAddress, Hangs
  <2>1. LoopBody(s, fc, end, F, i) = Hangs
    BY <1>1
  <2>2. i < end /\ i < Size(s) /\ CellAllows(cell, fc)
    BY <1>3, <2>0, <2>1 DEF LoopBody
  <2>3. \A d \in {1, 2} : PastString(s, i + d, end) => PastString(s, i, end)
    BY DEF PastString
  <2>4. \/ F[i + 1] = Hangs \/ F[i + 2] = Hangs
        \/ /\ s.strict /\ cell.type \notin {"next", "bits", "uint16"} /\ ~Wide(cell.type)
           /\ rest # {} /\ Min(rest) < Size(s)
    <3>1. \/ s.strict \/ F[i + 1] = Hangs
      BY <2>1, <2>2, <1>3 DEF LoopBody
    <3>2. s.strict /\ cell.type \in {"bits", "uint16"} => F[i + 1] = Hangs
      BY <2>1, <2>2, <1>3 DEF LoopBody
    <3>3. s.strict => cell.type # "next"
      BY <2>0, <2>1, <2>2, <1>3 DEF LoopBody
    <3>4. s.strict /\ cell.type \notin {"next", "bits", "uint16"} /\ Wide(cell.type) => F[i + 2] = Hangs
      BY <2>0, <2>1, <2>2, <1>3 DEF LoopBody
    <3>5. s.strict /\ cell.type \notin {"next", "bits", "uint16"} /\ ~Wide(cell.type)
            => rest # {} /\ Min(rest) < Size(s)
      <4> SUFFICES ASSUME s.strict, cell.type \notin {"next", "bits", "uint16"}, ~Wide(cell.type)
                   PROVE  rest # {} /\ Min(rest) < Size(s)
        OBVIOUS
      <4>1. LoopBody(s, fc, end, F, i) =
              IF rest = {} THEN 0 ELSE IF Min(rest) >= Size(s) THEN SlaveFailure ELSE Hangs
        BY <2>2, <1>3 DEF LoopBody
      <4>2. rest # {} /\ ~(Min(rest) >= Size(s))
        <5> HIDE DEF rest
        <5> QED BY <2>0, <2>1, <4>1
      <4>3. Min(rest) \in Nat
        <5>1. rest \in SUBSET Nat
          OBVIOUS
        <5> HIDE DEF rest
        <5> QED BY <4>2, <5>1, MinExists
      <4> HIDE DEF rest
      <4> QED BY <1>3, <4>2, <4>3
    <3> HIDE DEF rest
    <3> QED BY <3>1, <3>2, <3>3, <3>4, <3>5
  <2>5. CASE F[i + 1] = Hangs \/ F[i + 2] = Hangs
    BY <1>4, <2>3, <2>5
  <2>6. CASE /\ s.strict /\ cell.type \notin {"next", "bits", "uint16"} /\ ~Wide(cell.type)
             /\ rest # {} /\ Min(rest) < Size(s)
    <3>1. i \in DOMAIN s.cells /\ IsCell(cell)
      <4>1. i \in DOMAIN s.cells
        BY <1>3, <2>2
      <4>2. \A x \in DOMAIN s.cells : IsCell(s.cells[x])
        BY DEF IsSimulator
      <4> QED BY <4>1, <4>2
    <3>2. cell.type = "string"
      BY <2>2, <2>6, <3>1 DEF IsCell, CellTypes, Wide, CellAllows
    <3> DEFINE k == Min(rest)
    <3>3. k \in rest
      <4>1. rest \in SUBSET Nat
        OBVIOUS
      <4> HIDE DEF rest
      <4> QED BY <2>6, <4>1, MinExists
    <3>4. k \in i + 1 .. end - 1 /\ k < Size(s) /\ s.cells[k].type # "next"
      <4>1. \A j \in rest : j \in i + 1 .. end - 1 /\ (j < Size(s) => s.cells[j].type # "next")
        BY <1>3
      <4> HIDE DEF rest
      <4> QED BY <2>6, <3>3, <4>1
    <3> HIDE DEF k, rest
    <3>5. k \in DOMAIN s.cells /\ k \in i .. end - 1 /\ i \in i .. end - 1 /\ i < k
      BY <1>3, <2>2, <3>4
    <3> QED BY <2>6, <3>1, <3>2, <3>4, <3>5 DEF PastString
  <2> QED BY <2>4, <2>5, <2>6
<1>5. 0 \in N
  <2>1. ASSUME NEW i \in Nat, end - i <= 0 PROVE F[i] = 0
    <3>1. i >= end /\ F[i] = LoopBody(s, fc, end, F, i)
      BY <1>1, <2>1
    <3> QED BY <3>1 DEF LoopBody
  <2> QED BY <2>1 DEF Hangs
<1>6. ASSUME NEW d \in N PROVE d + 1 \in N
  <2> SUFFICES ASSUME NEW i \in Nat, end - i <= d + 1 PROVE Hung(i)
    OBVIOUS
  <2>1. i + 1 \in Nat /\ i + 2 \in Nat /\ end - (i + 1) <= d /\ end - (i + 2) <= d
    OBVIOUS
  <2>2. Hung(i + 1) /\ Hung(i + 2)
    <3> HIDE DEF Hung
    <3> QED BY <2>1
  <2> HIDE DEF Hung
  <2> QED BY <1>4, <2>2
<1>7. end \in N
  <2>1. N \in SUBSET Nat
    OBVIOUS
  <2> HIDE DEF N
  <2> QED BY <1>5, <1>6, <2>1, SetInduction
<1>8. Hung(first)
  <2>1. end - first <= end
    OBVIOUS
  <2> HIDE DEF Hung
  <2> QED BY <1>7, <2>1
<1> QED BY <1>2, <1>8

-----------------------------------------------------------------------------
(* What reading and writing the cells of a simulator leaves of them.       *)

\* The same cells, with other values.
SameMake(c, d) ==
  /\ DOMAIN d = DOMAIN c
  /\ \A i \in DOMAIN c :
       /\ IsCell(c[i]) /\ IsCell(d[i])
       /\ d[i].type = c[i].type /\ d[i].access = c[i].access /\ d[i].action = c[i].action

\* Cell x counts, or is the second word of a value that does.
Counting(c, x) ==
  \/ c[x].action = "increment"
  \/ x - 1 \in DOMAIN c /\ c[x - 1].action = "increment" /\ Wide(c[x - 1].type)

\* The same cells, of which only such have another value.
OnlyCounted(c, d) ==
  SameMake(c, d) /\ \A x \in DOMAIN c : d[x] # c[x] => Counting(c, x)

LEMMA NewValue ==
  ASSUME NEW cell, IsCell(cell), NEW v
  PROVE  LET new == [cell EXCEPT !.value = v]
         IN  /\ IsCell(new) /\ new.value = v
             /\ new.type = cell.type /\ new.access = cell.access /\ new.action = cell.action
             /\ v = cell.value => new = cell
<1> DEFINE r == [type |-> cell.type, access |-> cell.access, value |-> cell.value,
                 action |-> cell.action]
<1>1. cell = r
  BY DEF IsCell
<1>2. [r EXCEPT !.value = v] = [type |-> cell.type, access |-> cell.access, value |-> v,
                                action |-> cell.action]
  OBVIOUS
<1> HIDE DEF r
<1> QED BY <1>1, <1>2 DEF IsCell

LEMMA OneActs ==
  ASSUME NEW c, NEW d, OnlyCounted(c, d), NEW i \in DOMAIN c, i \in Nat
  PROVE  OnlyCounted(c, Acts(d, i))
<1> DEFINE e == Acts(d, i)
<1>0. /\ DOMAIN d = DOMAIN c /\ d[i].action = c[i].action /\ d[i].type = c[i].type
      /\ \A x \in DOMAIN c : IsCell(d[x])
  BY DEF OnlyCounted, SameMake
<1>1. /\ DOMAIN e = DOMAIN c
      /\ \A x \in DOMAIN c :
           \/ e[x] = d[x]
           \/ /\ \E v : e[x] = [d[x] EXCEPT !.value = v]
              /\ c[i].action = "increment"
              /\ x = i \/ (x = i + 1 /\ Wide(c[i].type))
  <2>1. CASE \/ d[i].action # "increment"
             \/ d[i].type \notin {"bits", "uint16", "uint32", "float32"}
    BY <1>0, <2>1 DEF Acts
  <2>2. CASE d[i].action = "increment" /\ d[i].type \in {"bits", "uint16"}
    <3>1. e = [d EXCEPT ![i] = [d[i] EXCEPT !.value = d[i].value + 1]]
      BY <2>2 DEF Acts
    <3> HIDE DEF e
    <3> QED BY <1>0, <2>2, <3>1
  <2>3. CASE d[i].action = "increment" /\ d[i].type = "uint32"
    <3> DEFINE v == d[i].value + Carries(d, i)
               w == (d[i + 1].value + 1) % (WordMax + 1)
    <3>1. e = [d EXCEPT ![i] = [d[i] EXCEPT !.value = v],
                        ![i + 1] = [d[i + 1] EXCEPT !.value = w]]
      BY <2>3 DEF Acts
    <3>2. Wide(c[i].type) /\ i + 1 # i
      BY <1>0, <2>3 DEF Wide
    <3> HIDE DEF e, v, w
    <3> QED BY <1>0, <2>3, <3>1, <3>2
  <2>4. CASE d[i].action = "increment" /\ d[i].type = "float32"
    <3> DEFINE words == PlusOne(d[i].value, d[i + 1].value)
    <3>1. e = [d EXCEPT ![i] = [d[i] EXCEPT !.value = words[1]],
                        ![i + 1] = [d[i + 1] EXCEPT !.value = words[2]]]
      BY <2>4 DEF Acts
    <3>2. Wide(c[i].type) /\ i + 1 # i
      BY <1>0, <2>4 DEF Wide
    <3> HIDE DEF e, words
    <3> QED BY <1>0, <2>4, <3>1, <3>2
  <2> QED BY <2>1, <2>2, <2>3, <2>4
<1>2. \A x \in DOMAIN c : c[i].action = "increment" /\ (x = i \/ (x = i + 1 /\ Wide(c[i].type)))
                            => Counting(c, x)
  BY DEF Counting
<1> HIDE DEF e
<1>3. SameMake(c, e)
  <2>1. ASSUME NEW x \in DOMAIN c
        PROVE  /\ IsCell(c[x]) /\ IsCell(e[x])
               /\ e[x].type = c[x].type /\ e[x].access = c[x].access /\ e[x].action = c[x].action
    <3>1. /\ IsCell(c[x]) /\ IsCell(d[x])
          /\ d[x].type = c[x].type /\ d[x].access = c[x].access /\ d[x].action = c[x].action
      BY DEF OnlyCounted, SameMake
    <3>2. CASE e[x] = d[x]
      BY <3>1, <3>2
    <3>3. CASE \E v : e[x] = [d[x] EXCEPT !.value = v]
      <4>1. PICK v : e[x] = [d[x] EXCEPT !.value = v]
        BY <3>3
      <4>2. /\ IsCell(e[x]) /\ e[x].type = d[x].type
            /\ e[x].access = d[x].access /\ e[x].action = d[x].action
        BY <3>1, <4>1, NewValue
      <4> QED BY <3>1, <4>2
    <3> QED BY <1>1, <3>2, <3>3
  <2> QED BY <1>1, <2>1 DEF SameMake
<1>4. \A x \in DOMAIN c : e[x] # c[x] => Counting(c, x)
  BY <1>1, <1>2 DEF OnlyCounted
<1> QED BY <1>3, <1>4 DEF OnlyCounted, e

\* What the loop over the cells read has after k of them, if f is that for fewer.
ReadBody(s, first, f, k) ==
  IF k = 0 THEN [cells |-> s.cells, code |-> 0]
  ELSE LET before == f[k - 1]
           i == first + k - 1
       IN IF before.code # 0 THEN before
          ELSE IF i >= Size(s) THEN [before EXCEPT !.code = SlaveFailure]
          ELSE IF Fails(before.cells, i) THEN [before EXCEPT !.code = SlaveFailure]
          ELSE [before EXCEPT !.cells = Acts(before.cells, i)]

LEMMA ReadExists ==
  ASSUME NEW s, NEW first, NEW count \in Nat
  PROVE  \E f : f = [k \in 0 .. count |-> ReadBody(s, first, f, k)]
<1> DEFINE Upto(f, n) == \A k \in 0 .. n : f[k] = ReadBody(s, first, f, k)
           N == {n \in Nat : n <= count =>
                   \E f : f = [k \in 0 .. count |-> f[k]] /\ Upto(f, n)}
<1>1. 0 \in N
  <2> DEFINE f == [k \in 0 .. count |-> [cells |-> s.cells, code |-> 0]]
  <2>1. f = [k \in 0 .. count |-> f[k]] /\ Upto(f, 0)
    BY DEF ReadBody
  <2> HIDE DEF f, Upto
  <2> QED BY <2>1
<1>2. ASSUME NEW n \in N PROVE n + 1 \in N
  <2> SUFFICES ASSUME n + 1 <= count
               PROVE  \E f : f = [k \in 0 .. count |-> f[k]] /\ Upto(f, n + 1)
    OBVIOUS
  <2>1. PICK f : f = [k \in 0 .. count |-> f[k]] /\ Upto(f, n)
    <3> HIDE DEF Upto
    <3> QED OBVIOUS
  <2> DEFINE g == [k \in 0 .. count |-> IF k = n + 1 THEN ReadBody(s, first, f, k) ELSE f[k]]
  <2>2. ASSUME NEW k \in 0 .. n + 1 PROVE g[k] = ReadBody(s, first, g, k)
    <3>1. k # 0 => g[k - 1] = f[k - 1]
      OBVIOUS
    <3>2. g[k] = ReadBody(s, first, f, k)
      <4>1. CASE k = n + 1
        BY <4>1
      <4>2. CASE k # n + 1
        <5>1. k \in 0 .. n /\ g[k] = f[k]
          BY <4>2
        <5> HIDE DEF g
        <5> QED BY <2>1, <5>1
      <4> QED BY <4>1, <4>2
    <3> HIDE DEF g
    <3> QED BY <3>1, <3>2 DEF ReadBody
  <2>3. g = [k \in 0 .. count |-> g[k]]
    OBVIOUS
  <2> HIDE DEF g
  <2>4. Upto(g, n + 1)
    BY <2>2
  <2> HIDE DEF Upto
  <2> QED BY <2>3, <2>4
<1>3. N \in SUBSET Nat
  OBVIOUS
<1>4. count \in N
  <2> HIDE DEF N
  <2> QED BY <1>1, <1>2, <1>3, SetInduction
<1>5. PICK f : f = [k \in 0 .. count |-> f[k]] /\ Upto(f, count)
  <2> HIDE DEF Upto
  <2> QED BY <1>4
<1>6. f = [k \in 0 .. count |-> ReadBody(s, first, f, k)]
  <2>1. \A k \in 0 .. count : f[k] = ReadBody(s, first, f, k)
    BY <1>5
  <2> HIDE DEF Upto
  <2> QED BY <1>5, <2>1
<1> QED BY <1>6

LEMMA ReadFacts ==
  ASSUME NEW s, IsSimulator(s), NEW first \in Nat, NEW count \in Nat
  PROVE  /\ OnlyCounted(s.cells, ReadCells(s, first, count).cells)
         /\ ReadCells(s, first, count).code \in {0, SlaveFailure}
<1> DEFINE F == CHOOSE f : f = [k \in 0 .. count |-> ReadBody(s, first, f, k)]
           Good(k) == /\ OnlyCounted(s.cells, F[k].cells)
                      /\ {"cells", "code"} \subseteq DOMAIN F[k]
                      /\ F[k].code \in {0, SlaveFailure}
           N == {k \in Nat : k <= count => Good(k)}
<1>1. \A k \in 0 .. count : F[k] = ReadBody(s, first, F, k)
  <2>1. F = [k \in 0 .. count |-> ReadBody(s, first, F, k)]
    BY ReadExists
  <2> HIDE DEF F
  <2> QED BY <2>1
<1>2. ReadCells(s, first, count) = F[count]
  BY DEF ReadCells, ReadBody
<1> HIDE DEF F
<1>3. Size(s) \in Nat /\ DOMAIN s.cells = 0 .. Size(s) - 1
  BY FS_CardinalityType DEF IsSimulator, Size
<1>4. 0 \in N
  <2>1. F[0].cells = s.cells /\ F[0].code = 0 /\ {"cells", "code"} \subseteq DOMAIN F[0]
    <3>1. F[0] = ReadBody(s, first, F, 0)
      <4>1. 0 \in 0 .. count
        OBVIOUS
      <4> QED BY <1>1, <4>1
    <3>2. F[0] = [cells |-> s.cells, code |-> 0]
      BY <3>1 DEF ReadBody
    <3> QED BY <3>2
  <2>2. OnlyCounted(s.cells, s.cells)
    BY DEF IsSimulator, OnlyCounted, SameMake
  <2> QED BY <2>1, <2>2
<1>5. ASSUME NEW k \in N PROVE k + 1 \in N
  <2> SUFFICES ASSUME k + 1 <= count PROVE Good(k + 1)
    OBVIOUS
  <2> DEFINE before == F[k]
             i == first + k
  <2>1. Good(k)
    OBVIOUS
  <2>2. \/ F[k + 1] = before
        \/ F[k + 1] = [before EXCEPT !.code = SlaveFailure]
        \/ i < Size(s) /\ F[k + 1] = [before EXCEPT !.cells = Acts(before.cells, i)]
    <3>1. F[k + 1] = ReadBody(s, first, F, k + 1)
      BY <1>1
    <3>2. k + 1 # 0 /\ (k + 1) - 1 = k /\ first + (k + 1) - 1 = i
      OBVIOUS
    <3> QED BY <1>3, <3>1, <3>2 DEF ReadBody
  <2>3. i < Size(s) => OnlyCounted(s.cells, Acts(before.cells, i))
    <3>1. i < Size(s) => i \in DOMAIN s.cells /\ i \in Nat
      BY <1>3
    <3> QED BY <2>1, <3>1, OneActs
  <2> DEFINE acted == Acts(before.cells, i)
  <2> HIDE DEF before, acted
  <2> QED BY <2>1, <2>2, <2>3 DEF before, acted
<1>6. Good(count)
  <2>1. N \in SUBSET Nat
    OBVIOUS
  <2>2. count \in N
    <3> HIDE DEF N
    <3> QED BY <1>4, <1>5, <2>1, SetInduction
  <2> QED BY <2>2
<1> QED BY <1>2, <1>6

-----------------------------------------------------------------------------
(* The calls of a simulator.                                               *)

\* t is the simulator s with other values in its cells.
Stays(s, t) == SameMake(s.cells, t.cells) /\ t = [s EXCEPT !.cells = t.cells]

\* A request for words may change cell i: see OnlyWritableChange.
Due(s, i) ==
  \E j \in 0 .. i :
    /\ Changeable(s.cells[j]) /\ Takes(s.cells, j, i)
    /\ i = j \/ s.strict \/ s.cells[j].action = "increment"

Changed(s, t) ==
  Stays(s, t) /\ \A i \in DOMAIN s.cells : t.cells[i] # s.cells[i] => Due(s, i)

LEMMA CellNumbers ==
  ASSUME NEW s, IsSimulator(s)
  PROVE  Size(s) \in Nat /\ DOMAIN s.cells = 0 .. Size(s) - 1
BY FS_CardinalityType DEF IsSimulator, Size

LEMMA NewCells ==
  ASSUME NEW s, IsSimulator(s), NEW cells
  PROVE  LET t == [s EXCEPT !.cells = cells]
         IN  /\ t = [kind |-> "simulator", strict |-> s.strict, cells |-> cells, offset |-> s.offset]
             /\ cells = s.cells => t = s
<1> DEFINE r == [kind |-> "simulator", strict |-> s.strict, cells |-> s.cells, offset |-> s.offset]
<1>1. s = r
  BY DEF IsSimulator
<1>2. [r EXCEPT !.cells = cells] =
        [kind |-> "simulator", strict |-> s.strict, cells |-> cells, offset |-> s.offset]
  OBVIOUS
<1> HIDE DEF r
<1>3. [s EXCEPT !.cells = cells] =
        [kind |-> "simulator", strict |-> s.strict, cells |-> cells, offset |-> s.offset]
  BY <1>1, <1>2
<1> QED BY <1>1, <1>3 DEF r

LEMMA SameSimulator ==
  ASSUME NEW s, IsStore(s), s.kind = "simulator", NEW t, Stays(s, t)
  PROVE  /\ IsStore(t) /\ t.kind = "simulator"
         /\ t.strict = s.strict /\ t.offset = s.offset /\ DOMAIN t.cells = DOMAIN s.cells
         /\ \A i \in DOMAIN s.cells : Due(t, i) => Due(s, i)
<1>1. IsSimulator(s) /\ "kind" \in DOMAIN s
  BY DEF IsStore
<1>2. /\ t.kind = "simulator" /\ t.strict = s.strict /\ t.offset = s.offset
      /\ t = [kind |-> "simulator", strict |-> t.strict, cells |-> t.cells, offset |-> t.offset]
  <2> DEFINE cells == t.cells
  <2>1. t = [s EXCEPT !.cells = cells]
    BY DEF Stays
  <2> HIDE DEF cells
  <2>2. t = [kind |-> "simulator", strict |-> s.strict, cells |-> cells, offset |-> s.offset]
    BY <1>1, <2>1, NewCells
  <2> QED BY <2>2 DEF cells
<1>3. DOMAIN t.cells = DOMAIN s.cells /\ \A i \in DOMAIN s.cells : IsCell(t.cells[i])
  BY DEF Stays, SameMake
<1>4. IsSimulator(t)
  BY <1>1, <1>2, <1>3 DEF IsSimulator, Size
<1>5. ASSUME NEW i \in DOMAIN s.cells, Due(t, i) PROVE Due(s, i)
  <2>1. DOMAIN s.cells = 0 .. Size(s) - 1 /\ Size(s) \in Nat
    BY <1>1, CellNumbers
  <2>2. \A j \in 0 .. i : /\ t.cells[j].type = s.cells[j].type
                          /\ t.cells[j].access = s.cells[j].access
                          /\ t.cells[j].action = s.cells[j].action
    BY <2>1 DEF Stays, SameMake
  <2>3. PICK j \in 0 .. i : /\ Changeable(t.cells[j]) /\ Takes(t.cells, j, i)
                            /\ i = j \/ t.strict \/ t.cells[j].action = "increment"
    BY <1>5 DEF Due
  <2>4. i \in Nat /\ j \in Nat
    BY <2>1
  <2>5. Changeable(s.cells[j]) /\ (i = j \/ s.strict \/ s.cells[j].action = "increment")
    BY <1>2, <2>2, <2>3 DEF Changeable
  <2>6. Takes(s.cells, j, i)
    <3>1. \A k \in j + 1 .. i : k \in 0 .. i
      BY <2>4
    <3> QED BY <2>2, <2>3, <3>1 DEF Takes
  <2> QED BY <2>5, <2>6 DEF Due
<1>6. "kind" \in DOMAIN t
  BY <1>2
<1> QED BY <1>2, <1>3, <1>4, <1>5, <1>6 DEF IsStore

LEMMA Unchanged ==
  ASSUME NEW s, IsSimulator(s)
  PROVE  Changed(s, s)
<1>1. s = [s EXCEPT !.cells = s.cells]
  BY NewCells
<1>2. SameMake(s.cells, s.cells)
  BY DEF SameMake, IsSimulator
<1> QED BY <1>1, <1>2 DEF Changed, Stays

LEMMA ChangedTwice ==
  ASSUME NEW s, IsStore(s), s.kind = "simulator", NEW t, Changed(s, t), NEW u, Changed(t, u)
  PROVE  Changed(s, u)
<1>1. /\ DOMAIN t.cells = DOMAIN s.cells
      /\ \A i \in DOMAIN s.cells : Due(t, i) => Due(s, i)
  BY SameSimulator DEF Changed
<1>2. SameMake(s.cells, u.cells)
  BY <1>1 DEF Changed, Stays, SameMake
<1>3. u = [s EXCEPT !.cells = u.cells]
  <2> DEFINE c == t.cells
             d == u.cells
  <2>1. t = [s EXCEPT !.cells = c] /\ u = [t EXCEPT !.cells = d]
    BY DEF Changed, Stays
  <2> HIDE DEF c, d
  <2>2. u = [s EXCEPT !.cells = d]
    BY <2>1
  <2> QED BY <2>2 DEF d
<1> QED BY <1>1, <1>2, <1>3 DEF Changed, Stays

LEMMA CountingIsDue ==
  ASSUME NEW s, IsSimulator(s), NEW i \in DOMAIN s.cells, Counting(s.cells, i)
  PROVE  Due(s, i)
<1>1. DOMAIN s.cells = 0 .. Size(s) - 1 /\ Size(s) \in Nat
  BY CellNumbers
<1>2. CASE s.cells[i].action = "increment"
  BY <1>1, <1>2 DEF Due, Takes, Changeable
<1>3. CASE i - 1 \in DOMAIN s.cells /\ s.cells[i - 1].action = "increment"
             /\ Wide(s.cells[i - 1].type)
  BY <1>1, <1>3 DEF Due, Takes, Changeable
<1> QED BY <1>2, <1>3 DEF Counting

LEMMA AllowedIsDue ==
  ASSUME NEW s, NEW fc \in WriteFunctions, NEW i \in Nat, Allowed(s, fc, i)
  PROVE  Due(s, i)
<1>1. PICK j \in 0 .. i : /\ CellAllows(s.cells[j], fc)
                          /\ j = i \/ (s.strict /\ Takes(s.cells, j, i))
  BY DEF Allowed
<1>2. Changeable(s.cells[j])
  BY <1>1 DEF Changeable, CellAllows
<1>3. Takes(s.cells, i, i)
  BY DEF Takes
<1> QED BY <1>1, <1>2, <1>3 DEF Due

LEMMA FirstCell ==
  ASSUME NEW s, IsSimulator(s), NEW fc \in 0 .. 24, NEW a \in Nat
  PROVE  CellOf(s, fc, a) \in Nat
<1>1. s.offset[fc] \in Nat
  BY DEF IsSimulator
<1>2. a \div WordBits \in Nat
  BY WidthAssumption
<1> QED BY <1>1, <1>2 DEF CellOf

\* A request for words that a strict simulator lets pass takes whole values.
LEMMA ValidatedIsWhole ==
  ASSUME NEW s, IsStore(s), s.kind = "simulator", s.strict, Uncut(s.cells),
         NEW fc \in (0 .. 24) \ BitFunctions, NEW a \in Nat, NEW n \in Nat,
         Validate(s, fc, a, n).code = 0,
         NEW i \in DOMAIN s.cells, Wide(s.cells[i].type)
  PROVE  LET first == CellOf(s, fc, a)
             last == first + n - 1
         IN  i \in first .. last <=> i + 1 \in first .. last
<1> DEFINE first == CellOf(s, fc, a)
<1>1. IsSimulator(s) /\ first \in Nat
  BY FirstCell DEF IsStore
<1>2. SimulatorValidate(s, fc, a, n) = 0
  BY DEF Validate, Result
<1>3. LoopValidate(s, fc, first, first + n) = 0
  BY <1>2 DEF SimulatorValidate, CellsOf, IllegalAddress
<1>4. i \in Nat /\ s.cells[i + 1].type = "next"
  BY <1>1, CellNumbers DEF Uncut
<1> HIDE DEF first
<1>5. /\ \A m \in first .. first + n - 1 : CellPasses(s, fc, first + n, m)
      /\ first < first + n => s.cells[first].type # "next"
  BY <1>1, <1>3, LoopPasses
<1>6. i \in first .. first + n - 1 => i + 1 < first + n
  BY <1>5 DEF CellPasses
<1>7. i + 1 \in first .. first + n - 1 => first # i + 1
  BY <1>1, <1>4, <1>5
<1>8. i \in first .. first + n - 1 <=> i + 1 \in first .. first + n - 1
  BY <1>1, <1>4, <1>6, <1>7
<1> QED BY <1>8 DEF first

\* What a request for words may write, once it is validated.
LEMMA ValidatedIsDue ==
  ASSUME NEW s, IsStore(s), s.kind = "simulator",
         NEW fc \in WriteFunctions \ BitFunctions, NEW a \in Nat, NEW n \in Nat,
         Validate(s, fc, a, n).code = 0
  PROVE  \A i \in CellOf(s, fc, a) .. CellOf(s, fc, a) + n - 1 : Due(s, i)
<1> DEFINE first == CellOf(s, fc, a)
<1>1. IsSimulator(s) /\ first \in Nat
  <2>1. IsSimulator(s) /\ fc \in 0 .. 24
    BY DEF IsStore, WriteFunctions
  <2> QED BY <2>1, FirstCell
<1>2. SimulatorValidate(s, fc, a, n) = 0
  BY DEF Validate, Result
<1>3. LoopValidate(s, fc, first, first + n) = 0
  BY <1>2 DEF SimulatorValidate, CellsOf, IllegalAddress
<1> HIDE DEF first
<1>4. \A m \in first .. first + n - 1 : CellPasses(s, fc, first + n, m)
  BY <1>1, <1>3, LoopPasses
<1>5. \A m \in first .. first + n - 1 : Allowed(s, fc, m) /\ m \in Nat
  BY <1>1, <1>4 DEF CellPasses
<1> QED BY <1>5, AllowedIsDue DEF first

LEMMA GetChanged ==
  ASSUME NEW s, IsStore(s), s.kind = "simulator", NEW fc \in 0 .. 24, NEW a \in Nat, NEW n \in Nat
  PROVE  Changed(s, GetValues(s, fc, a, n).store)
<1> DEFINE first == CellOf(s, fc, a)
           count == IF fc \in BitFunctions
                      THEN (n + (a % WordBits) + WordBits - 1) \div WordBits ELSE n
           cells == ReadCells(s, first, count).cells
           t == GetValues(s, fc, a, n).store
<1>1. IsSimulator(s) /\ first \in Nat
  BY FirstCell DEF IsStore
<1>2. count \in Nat
  BY WidthAssumption
<1>3. t = [s EXCEPT !.cells = cells]
  BY DEF GetValues, SimulatorGet, Result
<1> HIDE DEF first, count
<1>4. OnlyCounted(s.cells, cells)
  BY <1>1, <1>2, ReadFacts
<1> HIDE DEF t, cells
<1>5. t.cells = cells
  BY <1>1, <1>3 DEF IsSimulator
<1> QED BY <1>1, <1>3, <1>4, <1>5, CountingIsDue DEF OnlyCounted, Changed, Stays, t

\* Only its validation may not return.
LEMMA SimulatorReturns ==
  ASSUME NEW s, IsStore(s), s.kind = "simulator", NEW fc \in 0 .. 24, NEW a \in Nat, NEW n \in Nat
  PROVE  /\ Validate(s, fc, a, n).store = s
         /\ Validate(s, fc, a, n).code = Hangs =>
              s.strict /\ PastString(s, CellOf(s, fc, a), CellOf(s, fc, a) + CellsOf(fc, n))
         /\ GetValues(s, fc, a, n).code # Hangs
<1> DEFINE first == CellOf(s, fc, a)
           count == IF fc \in BitFunctions
                      THEN (n + (a % WordBits) + WordBits - 1) \div WordBits ELSE n
<1>1. IsSimulator(s) /\ first \in Nat
  BY FirstCell DEF IsStore
<1>2. count \in Nat /\ CellsOf(fc, n) \in Nat
  BY WidthAssumption DEF CellsOf
<1>3. GetValues(s, fc, a, n).code = ReadCells(s, first, count).code
  BY DEF GetValues, SimulatorGet, Result
<1>5. /\ Validate(s, fc, a, n).store = s
      /\ \/ Validate(s, fc, a, n).code = IllegalAddress
         \/ Validate(s, fc, a, n).code = LoopValidate(s, fc, first, first + CellsOf(fc, n))
  BY DEF Validate, SimulatorValidate, Result
<1> HIDE DEF first, count
<1>6. ReadCells(s, first, count).code \in {0, SlaveFailure}
  BY <1>1, <1>2, ReadFacts
<1>7. LoopValidate(s, fc, first, first + CellsOf(fc, n)) = Hangs =>
        s.strict /\ PastString(s, first, first + CellsOf(fc, n))
  <2>1. first + CellsOf(fc, n) \in Nat
    BY <1>1, <1>2
  <2> QED BY <1>1, <2>1, LoopHangs
<1>8. IllegalAddress # Hangs /\ 0 # Hangs /\ SlaveFailure # Hangs
  BY DEF IllegalAddress, SlaveFailure, Hangs
<1> QED BY <1>3, <1>5, <1>6, <1>7, <1>8 DEF first

LEMMA SettingReturns ==
  ASSUME NEW s, NEW fc, NEW a, NEW vals
  PROVE  SetValues(s, fc, a, vals).code # Hangs
BY DEF SetValues, SimulatorSet, BlockSet, Result, SlaveFailure, Hangs

LEMMA SetStays ==
  ASSUME NEW s, IsStore(s), s.kind = "simulator", NEW fc, NEW a, NEW vals
  PROVE  LET t == SetValues(s, fc, a, vals).store
         IN  /\ Stays(s, t)
             /\ fc \notin BitFunctions =>
                  \A i \in DOMAIN s.cells :
                    t.cells[i] # s.cells[i] =>
                      i \in CellOf(s, fc, a) .. CellOf(s, fc, a) + Len(vals) - 1
<1> DEFINE t == SetValues(s, fc, a, vals).store
           first == CellOf(s, fc, a)
<1>1. IsSimulator(s)
  BY DEF IsStore
<1>2. \E v : /\ t = [s EXCEPT !.cells =
                       [i \in DOMAIN s.cells |-> [s.cells[i] EXCEPT !.value = v[i]]]]
             /\ fc \notin BitFunctions =>
                  \A i \in DOMAIN s.cells :
                    i \notin first .. first + Len(vals) - 1 => v[i] = s.cells[i].value
  <2> DEFINE bits == fc \in BitFunctions
             last == first + (IF bits THEN ((a % WordBits) + Len(vals) - 1) \div WordBits
                              ELSE Len(vals) - 1)
             Word(i, old) ==
               IF i \notin first .. last THEN old
               ELSE IF bits THEN WithBits(old, vals, (i - first) * WordBits - (a % WordBits) + 1)
               ELSE vals[i - first + 1]
             v == [i \in DOMAIN s.cells |-> Word(i, s.cells[i].value)]
  <2>1. t = [s EXCEPT !.cells =
               [i \in DOMAIN s.cells |-> [s.cells[i] EXCEPT !.value = Word(i, s.cells[i].value)]]]
    BY DEF SetValues, SimulatorSet, Result
  <2>2. \A i \in DOMAIN s.cells : ~bits /\ i \notin first .. first + Len(vals) - 1
                                    => Word(i, s.cells[i].value) = s.cells[i].value
    OBVIOUS
  <2> HIDE DEF Word, t
  <2>3. \A i \in DOMAIN s.cells : v[i] = Word(i, s.cells[i].value)
    OBVIOUS
  <2> HIDE DEF v
  <2> QED BY <2>1, <2>2, <2>3
<1> HIDE DEF t, first
<1>3. PICK v : /\ t = [s EXCEPT !.cells =
                         [i \in DOMAIN s.cells |-> [s.cells[i] EXCEPT !.value = v[i]]]]
               /\ fc \notin BitFunctions =>
                    \A i \in DOMAIN s.cells :
                      i \notin first .. first + Len(vals) - 1 => v[i] = s.cells[i].value
  BY <1>2
<1> DEFINE cells == [i \in DOMAIN s.cells |-> [s.cells[i] EXCEPT !.value = v[i]]]
<1>4. /\ DOMAIN cells = DOMAIN s.cells
      /\ \A i \in DOMAIN s.cells : cells[i] = [s.cells[i] EXCEPT !.value = v[i]]
  OBVIOUS
<1>5. t = [s EXCEPT !.cells = cells]
  BY <1>3
<1> HIDE DEF cells
<1>6. t.cells = cells
  BY <1>1, <1>5 DEF IsSimulator
<1>7. \A i \in DOMAIN s.cells : IsCell(s.cells[i])
  BY <1>1 DEF IsSimulator
<1>8. ASSUME NEW i \in DOMAIN s.cells
      PROVE  /\ IsCell(cells[i])
             /\ cells[i].type = s.cells[i].type /\ cells[i].access = s.cells[i].access
             /\ cells[i].action = s.cells[i].action
             /\ v[i] = s.cells[i].value => cells[i] = s.cells[i]
  <2> DEFINE cell == s.cells[i]
             new == [cell EXCEPT !.value = v[i]]
  <2>1. IsCell(cell)
    BY <1>7
  <2>2. cells[i] = new
    BY <1>4
  <2> HIDE DEF cell
  <2>3. /\ IsCell(new)
        /\ new.type = cell.type /\ new.access = cell.access /\ new.action = cell.action
        /\ v[i] = cell.value => new = cell
    BY <2>1, NewValue
  <2> HIDE DEF new
  <2> QED BY <2>2, <2>3 DEF cell
<1>9. Stays(s, t)
  BY <1>4, <1>5, <1>6, <1>7, <1>8 DEF Stays, SameMake
<1> QED BY <1>3, <1>6, <1>8, <1>9 DEF t, first

\* Words are set where the context has validated them, on a store as it was
\* then or with other values.
LEMMA SetChanged ==
  ASSUME NEW s, IsStore(s), s.kind = "simulator", NEW t, Changed(s, t),
         NEW fc \in WriteFunctions \ BitFunctions, NEW a \in Nat,
         NEW vals, Len(vals) \in Nat, DOMAIN vals = 1 .. Len(vals),
         Validate(s, fc, a, Len(vals)).code = 0
  PROVE  Changed(s, SetValues(t, fc, a, vals).store)
<1> DEFINE u == SetValues(t, fc, a, vals).store
           first == CellOf(s, fc, a)
<1>1. /\ IsStore(t) /\ t.kind = "simulator" /\ t.offset = s.offset
      /\ DOMAIN t.cells = DOMAIN s.cells
  BY SameSimulator DEF Changed
<1>2. CellOf(t, fc, a) = first
  BY <1>1 DEF CellOf
<1>3. /\ Stays(t, u)
      /\ \A i \in DOMAIN t.cells : u.cells[i] # t.cells[i] => i \in first .. first + Len(vals) - 1
  BY <1>1, <1>2, SetStays
<1>4. first \in Nat /\ IsSimulator(s)
  <2>1. IsSimulator(s) /\ fc \in 0 .. 24
    BY DEF IsStore, WriteFunctions
  <2> QED BY <2>1, FirstCell
<1> DEFINE n == Len(vals)
<1>5. \A i \in first .. first + n - 1 : Due(s, i)
  BY ValidatedIsDue
<1>6. DOMAIN s.cells = 0 .. Size(s) - 1 /\ Size(s) \in Nat
  BY <1>4, CellNumbers
<1> HIDE DEF u, first, n
<1>7. ASSUME NEW i \in DOMAIN s.cells, u.cells[i] # s.cells[i] PROVE Due(s, i)
  <2>1. CASE t.cells[i] # s.cells[i]
    BY <2>1 DEF Changed
  <2>2. CASE t.cells[i] = s.cells[i]
    <3>1. u.cells[i] # t.cells[i] /\ i \in DOMAIN t.cells
      BY <1>1, <1>7, <2>2
    <3>2. i \in first .. first + n - 1
      BY <1>3, <3>1 DEF n
    <3> QED BY <1>5, <3>2
  <2> QED BY <2>1, <2>2
<1>8. SameMake(s.cells, u.cells)
  BY <1>1, <1>3 DEF Changed, Stays, SameMake
<1>9. u = [s EXCEPT !.cells = u.cells]
  <2> DEFINE c == t.cells
             d == u.cells
  <2>1. t = [s EXCEPT !.cells = c] /\ u = [t EXCEPT !.cells = d]
    BY <1>3 DEF Changed, Stays
  <2> HIDE DEF c, d
  <2>2. u = [s EXCEPT !.cells = d]
    BY <2>1
  <2> QED BY <2>2 DEF d
<1> QED BY <1>7, <1>8, <1>9 DEF Changed, Stays, u

-----------------------------------------------------------------------------
(* A call leaves a store of the same kind.                                 *)

LEMMA CallsKeep ==
  ASSUME NEW s, IsStore(s), NEW fc \in 0 .. 24, NEW a \in Nat, NEW n \in Nat
  PROVE  /\ IsStore(Validate(s, fc, a, n).store) /\ Validate(s, fc, a, n).store.kind = s.kind
         /\ IsStore(GetValues(s, fc, a, n).store) /\ GetValues(s, fc, a, n).store.kind = s.kind
<1>1. CASE s.kind = "simulator"
  <2>1. Validate(s, fc, a, n).store = s
    BY <1>1, ValidateLeaves
  <2>2. Stays(s, GetValues(s, fc, a, n).store)
    BY <1>1, GetChanged DEF Changed
  <2> QED BY <1>1, <2>1, <2>2, SameSimulator
<1>2. CASE s.kind # "simulator"
  BY <1>2, ContextKeeps
<1> QED BY <1>1, <1>2

LEMMA SettingKeeps ==
  ASSUME NEW s, IsStore(s), NEW fc, NEW a, NEW vals
  PROVE  IsStore(SetValues(s, fc, a, vals).store) /\ SetValues(s, fc, a, vals).store.kind = s.kind
<1>1. CASE s.kind = "simulator"
  <2>1. Stays(s, SetValues(s, fc, a, vals).store)
    BY <1>1, SetStays
  <2> QED BY <1>1, <2>1, SameSimulator
<1>2. CASE s.kind # "simulator"
  BY <1>2, ContextKeeps
<1> QED BY <1>1, <1>2

-----------------------------------------------------------------------------
(* What the setup makes of a simulator's configuration.                    *)

\* The configurations the setup is given: sizes, ranges of cells that are not
\* empty, and cells to copy that exist.
IsEntry(e) ==
  /\ e.type \in CellTypes \ {"invalid", "next"}
  /\ e.first \in Nat /\ e.last \in Nat /\ e.first <= e.last
IsLayout(layout) ==
  /\ {layout.co, layout.di, layout.ir, layout.hr} \subseteq Nat
  /\ Len(layout.types) \in Nat
  /\ \A k \in 1 .. Len(layout.types) : IsEntry(layout.types[k])
  /\ layout.repeat # None =>
       LET e == layout.repeat
       IN /\ {e.first, e.last, e.to.first, e.to.last} \subseteq Nat
          /\ e.first <= e.last /\ e.last < TotalSize(layout) /\ e.to.first <= e.to.last

\* Cells of a simulator, as many as size.
AreCells(cells, size) ==
  DOMAIN cells = 0 .. size - 1 /\ \A i \in 0 .. size - 1 : IsCell(cells[i])

\* A cell that begins a value.
Begun(cell, t, a, v) == [cell EXCEPT !.type = t, !.action = a, !.value = v]

LEMMA CellTyped ==
  ASSUME NEW cell, IsCell(cell), NEW t \in CellTypes, NEW a, NEW v
  PROVE  IsCell(Begun(cell, t, a, v)) /\ Begun(cell, t, a, v).type = t
<1> DEFINE r == [type |-> cell.type, access |-> cell.access, value |-> cell.value,
                 action |-> cell.action]
           typed == [r EXCEPT !.type = t]
           acting == [typed EXCEPT !.action = a]
<1>1. cell = r
  BY DEF IsCell
<1>2. typed = [type |-> t, access |-> cell.access, value |-> cell.value, action |-> cell.action]
  OBVIOUS
<1>3. [r EXCEPT !.type = t, !.action = a, !.value = v] = [acting EXCEPT !.value = v]
  BY Zenon
<1> HIDE DEF typed
<1>4. acting = [type |-> t, access |-> cell.access, value |-> cell.value, action |-> a]
  BY <1>2
<1> HIDE DEF acting, r
<1>5. [acting EXCEPT !.value = v] =
        [type |-> t, access |-> cell.access, value |-> v, action |-> a]
  BY <1>4
<1> QED BY <1>1, <1>3, <1>5 DEF IsCell, Begun

LEMMA CellTaken ==
  ASSUME NEW cell, IsCell(cell), NEW v
  PROVE  LET new == [cell EXCEPT !.type = "next", !.value = v]
         IN  IsCell(new) /\ new.type = "next"
<1> DEFINE r == [type |-> cell.type, access |-> cell.access, value |-> cell.value,
                 action |-> cell.action]
           typed == [r EXCEPT !.type = "next"]
<1>1. cell = r
  BY DEF IsCell
<1>2. typed = [type |-> "next", access |-> cell.access, value |-> cell.value,
               action |-> cell.action]
  OBVIOUS
<1>3. [r EXCEPT !.type = "next", !.value = v] = [typed EXCEPT !.value = v]
  BY Zenon
<1> HIDE DEF typed, r
<1>4. [typed EXCEPT !.value = v] =
        [type |-> "next", access |-> cell.access, value |-> v, action |-> cell.action]
  BY <1>2
<1> QED BY <1>1, <1>3, <1>4 DEF IsCell, CellTypes

LEMMA CellMay ==
  ASSUME NEW cell, IsCell(cell), NEW w
  PROVE  LET new == [cell EXCEPT !.access = w] IN IsCell(new) /\ new.type = cell.type
<1> DEFINE r == [type |-> cell.type, access |-> cell.access, value |-> cell.value,
                 action |-> cell.action]
<1>1. cell = r
  BY DEF IsCell
<1>2. [r EXCEPT !.access = w] =
        [type |-> cell.type, access |-> w, value |-> cell.value, action |-> cell.action]
  OBVIOUS
<1> HIDE DEF r
<1> QED BY <1>1, <1>2 DEF IsCell

\* A section takes only cells that nothing has, so it cuts no value in two.
LEMMA TypeKeeps ==
  ASSUME NEW size \in Nat, NEW cells, AreCells(cells, size), Uncut(cells),
         NEW e, IsEntry(e), TypeFits(cells, e)
  PROVE  AreCells(WithType(cells, e), size) /\ Uncut(WithType(cells, e))
<1> DEFINE new == WithType(cells, e)
<1>0. e.type \in CellTypes /\ e.first \in Nat /\ e.last \in Nat /\ e.first <= e.last
  BY DEF IsEntry
<1>1. DOMAIN cells = 0 .. size - 1 /\ \A i \in 0 .. size - 1 : IsCell(cells[i])
  BY DEF AreCells
<1>2. /\ DOMAIN new = 0 .. size - 1
      /\ \A i \in 0 .. size - 1 :
           new[i] = IF i \in Heads(e)
                      THEN [cells[i] EXCEPT !.type = e.type, !.action = e.action,
                                            !.value = IF Wide(e.type) THEN 0 ELSE e.value]
                    ELSE IF i \in Taken(e)
                      THEN [cells[i] EXCEPT !.type = "next", !.value = e.value]
                    ELSE cells[i]
  BY <1>1 DEF WithType
<1>3. \A i \in 0 .. size - 1 :
        /\ IsCell(new[i])
        /\ new[i].type = IF i \in Heads(e) THEN e.type
                         ELSE IF i \in Taken(e) THEN "next" ELSE cells[i].type
  <2> TAKE i \in 0 .. size - 1
  <2>1. CASE i \in Heads(e)
    <3> DEFINE v == IF Wide(e.type) THEN 0 ELSE e.value
    <3>1. new[i] = Begun(cells[i], e.type, e.action, v)
      BY <1>2, <2>1 DEF Begun
    <3> HIDE DEF v, new
    <3> QED BY <1>0, <1>1, <2>1, <3>1, CellTyped
  <2>2. CASE i \notin Heads(e) /\ i \in Taken(e)
    <3>1. new[i] = [cells[i] EXCEPT !.type = "next", !.value = e.value]
      BY <1>2, <2>2
    <3> DEFINE cell == cells[i]
    <3>2. IsCell(cell)
      BY <1>1
    <3> HIDE DEF new
    <3>3. /\ IsCell([cell EXCEPT !.type = "next", !.value = e.value])
          /\ [cell EXCEPT !.type = "next", !.value = e.value].type = "next"
      <4> HIDE DEF cell
      <4> QED BY <3>2, CellTaken, Zenon
    <3> QED BY <2>2, <3>1, <3>3
  <2>3. CASE i \notin Heads(e) /\ i \notin Taken(e)
    BY <1>1, <1>2, <2>3
  <2> QED BY <2>1, <2>2, <2>3
<1>4. Heads(e) \subseteq Taken(e) /\ Heads(e) \subseteq Nat
  <2>1. Heads(e) \subseteq e.first .. e.last
    <3>1. e.first \in e.first .. e.last
      BY <1>0
    <3>2. e.type # "string" => Heads(e) \subseteq e.first .. e.last
      BY Zenon DEF Heads
    <3>3. e.type = "string" => Heads(e) = {e.first}
      BY DEF Heads
    <3> QED BY <3>1, <3>2, <3>3
  <2>2. e.first .. e.last \subseteq Taken(e) /\ e.first .. e.last \subseteq Nat
    BY <1>0 DEF Taken
  <2> QED BY <2>1, <2>2
<1>5. Wide(e.type) => \A i \in Heads(e) : i + 1 \in Taken(e) /\ i + 1 \notin Heads(e)
  <2> SUFFICES ASSUME Wide(e.type), NEW i \in Heads(e)
               PROVE  i + 1 \in Taken(e) /\ i + 1 \notin Heads(e)
    OBVIOUS
  <2>1. e.type # "string"
    BY DEF Wide
  <2>2. Heads(e) = {j \in e.first .. e.last : (j - e.first) % 2 = 0}
    BY <2>1 DEF Heads
  <2>3. i \in Nat /\ (i - e.first) % 2 = 0 /\ i - e.first \in Nat
    BY <1>0, <2>2
  <2>4. ((i + 1) - e.first) % 2 = 1
    BY <1>0, <2>3
  <2> QED BY <2>2, <2>4 DEF Taken
<1>6. \A i \in Taken(e) : i \in 0 .. size - 1 /\ cells[i].type = "invalid"
  BY <1>1 DEF TypeFits
<1> HIDE DEF new
<1>7. ASSUME NEW i \in 0 .. size - 1, Wide(new[i].type)
      PROVE  i + 1 \in 0 .. size - 1 /\ new[i + 1].type = "next"
  <2>1. CASE i \in Heads(e)
    <3>1. Wide(e.type)
      BY <1>3, <1>7, <2>1
    <3>2. i + 1 \in Taken(e) /\ i + 1 \notin Heads(e)
      BY <1>5, <2>1, <3>1
    <3>3. i + 1 \in 0 .. size - 1
      BY <1>6, <3>2
    <3> QED BY <1>3, <3>2, <3>3
  <2>2. CASE i \notin Heads(e)
    <3>1. ~Wide("next")
      BY DEF Wide
    <3>2. i \notin Taken(e) /\ Wide(cells[i].type)
      BY <1>3, <1>7, <2>2, <3>1
    <3>3. i + 1 \in 0 .. size - 1 /\ cells[i + 1].type = "next"
      BY <1>1, <3>2 DEF Uncut
    <3>4. i + 1 \notin Taken(e) /\ i + 1 \notin Heads(e)
      BY <1>4, <1>6, <3>3
    <3> QED BY <1>3, <3>3, <3>4
  <2> QED BY <2>1, <2>2
<1>8. AreCells(new, size)
  BY <1>2, <1>3 DEF AreCells
<1>9. Uncut(new)
  BY <1>2, <1>7 DEF Uncut
<1> QED BY <1>8, <1>9 DEF new

\* The cells after k sections, if f is what they are after fewer.
TypesBody(cells, entries, f, k) ==
  IF k = 0 THEN cells
  ELSE IF f[k - 1] = None \/ ~TypeFits(f[k - 1], entries[k]) THEN None
  ELSE WithType(f[k - 1], entries[k])

LEMMA TypesExist ==
  ASSUME NEW cells, NEW entries, NEW n \in Nat
  PROVE  \E f : f = [k \in 0 .. n |-> TypesBody(cells, entries, f, k)]
<1> DEFINE Body(f, k) == TypesBody(cells, entries, f, k)
           Upto(f, m) == \A k \in 0 .. m : f[k] = Body(f, k)
           N == {m \in Nat : m <= n => \E f : f = [k \in 0 .. n |-> f[k]] /\ Upto(f, m)}
<1>1. 0 \in N
  <2> DEFINE f == [k \in 0 .. n |-> cells]
  <2>1. f = [k \in 0 .. n |-> f[k]] /\ Upto(f, 0)
    BY DEF TypesBody
  <2> HIDE DEF f, Upto
  <2> QED BY <2>1
<1>2. ASSUME NEW m \in N PROVE m + 1 \in N
  <2> SUFFICES ASSUME m + 1 <= n
               PROVE  \E f : f = [k \in 0 .. n |-> f[k]] /\ Upto(f, m + 1)
    OBVIOUS
  <2>1. PICK f : f = [k \in 0 .. n |-> f[k]] /\ Upto(f, m)
    <3> HIDE DEF Upto
    <3> QED OBVIOUS
  <2> DEFINE g == [k \in 0 .. n |-> IF k = m + 1 THEN Body(f, k) ELSE f[k]]
  <2> HIDE DEF Body
  <2>2. ASSUME NEW k \in 0 .. m + 1 PROVE g[k] = Body(g, k)
    <3>1. k # 0 => g[k - 1] = f[k - 1]
      OBVIOUS
    <3>2. g[k] = Body(f, k)
      <4>1. CASE k = m + 1
        BY <4>1
      <4>2. CASE k # m + 1
        <5>1. k \in 0 .. m /\ g[k] = f[k]
          BY <4>2
        <5> HIDE DEF g
        <5> QED BY <2>1, <5>1
      <4> QED BY <4>1, <4>2
    <3> HIDE DEF g
    <3> QED BY <3>1, <3>2 DEF Body, TypesBody
  <2>3. g = [k \in 0 .. n |-> g[k]]
    OBVIOUS
  <2> HIDE DEF g
  <2>4. Upto(g, m + 1)
    BY <2>2
  <2> HIDE DEF Upto
  <2> QED BY <2>3, <2>4
<1>3. n \in N
  <2>1. N \in SUBSET Nat
    OBVIOUS
  <2> HIDE DEF N
  <2> QED BY <1>1, <1>2, <2>1, SetInduction
<1>4. PICK f : f = [k \in 0 .. n |-> f[k]] /\ Upto(f, n)
  <2> HIDE DEF Upto
  <2> QED BY <1>3
<1>5. \A k \in 0 .. n : f[k] = TypesBody(cells, entries, f, k)
  BY <1>4
<1>6. f = [k \in 0 .. n |-> TypesBody(cells, entries, f, k)]
  <2> HIDE DEF Upto
  <2> QED BY <1>4, <1>5
<1> QED BY <1>6

LEMMA TypesKeep ==
  ASSUME NEW size \in Nat, NEW cells, AreCells(cells, size), Uncut(cells),
         NEW entries, Len(entries) \in Nat,
         \A k \in 1 .. Len(entries) : IsEntry(entries[k]),
         WithTypes(cells, entries) # None
  PROVE  AreCells(WithTypes(cells, entries), size) /\ Uncut(WithTypes(cells, entries))
<1> DEFINE L == Len(entries)
           F == CHOOSE f : f = [k \in 0 .. L |-> TypesBody(cells, entries, f, k)]
           N == {k \in Nat : k <= L => F[k] = None \/ (AreCells(F[k], size) /\ Uncut(F[k]))}
<1>1. F = [k \in 0 .. L |-> TypesBody(cells, entries, F, k)]
  BY TypesExist
<1>2. WithTypes(cells, entries) = F[L]
  BY DEF WithTypes, TypesBody
<1> HIDE DEF F
<1>3. 0 \in N
  BY <1>1 DEF TypesBody
<1>4. ASSUME NEW k \in N PROVE k + 1 \in N
  <2> SUFFICES ASSUME k + 1 <= L, F[k + 1] # None
               PROVE  AreCells(F[k + 1], size) /\ Uncut(F[k + 1])
    OBVIOUS
  <2>1. k \in 0 .. L /\ k + 1 \in 0 .. L /\ k + 1 \in 1 .. L /\ (k + 1) - 1 = k /\ k + 1 # 0
    OBVIOUS
  <2> DEFINE e == entries[k + 1]
  <2>2. F[k + 1] = IF F[k] = None \/ ~TypeFits(F[k], e) THEN None ELSE WithType(F[k], e)
    BY <1>1, <2>1 DEF TypesBody
  <2>3. F[k] # None /\ TypeFits(F[k], e) /\ F[k + 1] = WithType(F[k], e)
    BY <2>2
  <2>4. AreCells(F[k], size) /\ Uncut(F[k])
    BY <2>1, <2>3
  <2>5. IsEntry(e)
    BY <2>1
  <2> HIDE DEF e
  <2>6. AreCells(WithType(F[k], e), size) /\ Uncut(WithType(F[k], e))
    BY <2>3, <2>4, <2>5, TypeKeeps
  <2> QED BY <2>3, <2>6
<1>5. L \in N
  <2>1. N \in SUBSET Nat
    OBVIOUS
  <2> HIDE DEF N
  <2> QED BY <1>3, <1>4, <2>1, SetInduction
<1> QED BY <1>2, <1>5

LEMMA WriteKeeps ==
  ASSUME NEW size \in Nat, NEW cells, AreCells(cells, size), Uncut(cells), NEW write,
         WithWrite(cells, write) # None
  PROVE  AreCells(WithWrite(cells, write), size) /\ Uncut(WithWrite(cells, write))
<1> DEFINE new == WithWrite(cells, write)
<1>1. new = [i \in DOMAIN cells |-> [cells[i] EXCEPT !.access = i \in write]]
  BY DEF WithWrite
<1> HIDE DEF new
<1>2. DOMAIN cells = 0 .. size - 1 /\ \A i \in 0 .. size - 1 : IsCell(cells[i])
  BY DEF AreCells
<1>3. /\ DOMAIN new = 0 .. size - 1
      /\ \A i \in 0 .. size - 1 : IsCell(new[i]) /\ new[i].type = cells[i].type
  <2>1. DOMAIN new = 0 .. size - 1
    BY <1>1, <1>2
  <2>2. ASSUME NEW i \in 0 .. size - 1 PROVE IsCell(new[i]) /\ new[i].type = cells[i].type
    <3>1. i \in DOMAIN cells
      BY <1>2
    <3>2. new[i] = [cells[i] EXCEPT !.access = i \in write]
      BY <1>1, <3>1, Zenon
    <3> DEFINE may == i \in write
    <3>3. new[i] = [cells[i] EXCEPT !.access = may]
      BY <3>2, Zenon
    <3> DEFINE cell == cells[i]
    <3>4. IsCell(cell)
      BY <1>2
    <3> HIDE DEF may
    <3>5. IsCell([cell EXCEPT !.access = may]) /\ [cell EXCEPT !.access = may].type = cell.type
      <4> HIDE DEF cell
      <4> QED BY <3>4, CellMay, Zenon
    <3> QED BY <3>3, <3>5
  <2> QED BY <2>1, <2>2
<1>4. AreCells(new, size)
  BY <1>3 DEF AreCells
<1>5. Uncut(new)
  BY <1>2, <1>3 DEF Uncut
<1> QED BY <1>4, <1>5 DEF new

\* The cells after k of them were copied, if f is what they are after fewer.
RepeatBody(cells, e, f, k) ==
  IF k = 0 THEN cells
  ELSE [f[k - 1] EXCEPT ![e.to.first + k - 1] = f[k - 1][e.first + ((k - 1) % (e.last - e.first + 1))]]

LEMMA RepeatExists ==
  ASSUME NEW cells, NEW e, NEW n \in Nat
  PROVE  \E f : f = [k \in 0 .. n |-> RepeatBody(cells, e, f, k)]
<1> DEFINE Body(f, k) == RepeatBody(cells, e, f, k)
           Upto(f, m) == \A k \in 0 .. m : f[k] = Body(f, k)
           N == {m \in Nat : m <= n => \E f : f = [k \in 0 .. n |-> f[k]] /\ Upto(f, m)}
<1>1. 0 \in N
  <2> DEFINE f == [k \in 0 .. n |-> cells]
  <2>1. f = [k \in 0 .. n |-> f[k]] /\ Upto(f, 0)
    BY DEF RepeatBody
  <2> HIDE DEF f, Upto
  <2> QED BY <2>1
<1>2. ASSUME NEW m \in N PROVE m + 1 \in N
  <2> SUFFICES ASSUME m + 1 <= n
               PROVE  \E f : f = [k \in 0 .. n |-> f[k]] /\ Upto(f, m + 1)
    OBVIOUS
  <2>1. PICK f : f = [k \in 0 .. n |-> f[k]] /\ Upto(f, m)
    <3> HIDE DEF Upto
    <3> QED OBVIOUS
  <2> DEFINE g == [k \in 0 .. n |-> IF k = m + 1 THEN Body(f, k) ELSE f[k]]
  <2> HIDE DEF Body
  <2>2. ASSUME NEW k \in 0 .. m + 1 PROVE g[k] = Body(g, k)
    <3>1. k # 0 => g[k - 1] = f[k - 1]
      OBVIOUS
    <3>2. g[k] = Body(f, k)
      <4>1. CASE k = m + 1
        BY <4>1
      <4>2. CASE k # m + 1
        <5>1. k \in 0 .. m /\ g[k] = f[k]
          BY <4>2
        <5> HIDE DEF g
        <5> QED BY <2>1, <5>1
      <4> QED BY <4>1, <4>2
    <3> HIDE DEF g
    <3> QED BY <3>1, <3>2 DEF Body, RepeatBody
  <2>3. g = [k \in 0 .. n |-> g[k]]
    OBVIOUS
  <2> HIDE DEF g
  <2>4. Upto(g, m + 1)
    BY <2>2
  <2> HIDE DEF Upto
  <2> QED BY <2>3, <2>4
<1>3. n \in N
  <2>1. N \in SUBSET Nat
    OBVIOUS
  <2> HIDE DEF N
  <2> QED BY <1>1, <1>2, <2>1, SetInduction
<1>4. PICK f : f = [k \in 0 .. n |-> f[k]] /\ Upto(f, n)
  <2> HIDE DEF Upto
  <2> QED BY <1>3
<1>5. \A k \in 0 .. n : f[k] = RepeatBody(cells, e, f, k)
  BY <1>4
<1>6. f = [k \in 0 .. n |-> RepeatBody(cells, e, f, k)]
  <2> HIDE DEF Upto
  <2> QED BY <1>4, <1>5
<1> QED BY <1>6

LEMMA RepeatKeeps ==
  ASSUME NEW size \in Nat, NEW cells, AreCells(cells, size), NEW e,
         e.first \in Nat, e.last \in Nat, e.to.first \in Nat, e.to.last \in Nat,
         e.first <= e.last, e.last < size, e.to.first <= e.to.last,
         WithRepeat(cells, e) # None
  PROVE  AreCells(WithRepeat(cells, e), size)
<1> DEFINE L == e.to.last - e.to.first + 1
           F == CHOOSE f : f = [k \in 0 .. L |-> RepeatBody(cells, e, f, k)]
           N == {k \in Nat : k <= L => AreCells(F[k], size)}
<1>1. L \in Nat
  OBVIOUS
<1>2. F = [k \in 0 .. L |-> RepeatBody(cells, e, F, k)]
  <2> HIDE DEF L
  <2> QED BY <1>1, RepeatExists
<1>3. WithRepeat(cells, e) = F[L]
  BY DEF WithRepeat, RepeatBody
<1> HIDE DEF F, L
<1>4. 0 \in N
  BY <1>1, <1>2 DEF RepeatBody
<1>5. ASSUME NEW k \in N PROVE k + 1 \in N
  <2> SUFFICES ASSUME k + 1 <= L PROVE AreCells(F[k + 1], size)
    OBVIOUS
  <2>1. k + 1 \in 0 .. L /\ (k + 1) - 1 = k /\ k + 1 # 0 /\ k <= L
    BY <1>1
  <2> DEFINE before == F[k]
             after == F[k + 1]
             n == e.last - e.first + 1
             from == e.first + (k % n)
             to == e.to.first + k
  <2>2. AreCells(before, size)
    BY <2>1
  <2>3. after = [before EXCEPT ![to] = before[from]]
    <3>1. after = RepeatBody(cells, e, F, k + 1)
      BY <1>2, <2>1
    <3>2. e.to.first + (k + 1) - 1 = to
      OBVIOUS
    <3> HIDE DEF after
    <3> QED BY <2>1, <3>1, <3>2 DEF RepeatBody
  <2>4. from \in 0 .. size - 1
    <3>1. n \in Nat /\ n > 0
      OBVIOUS
    <3> HIDE DEF n
    <3>2. k % n \in 0 .. n - 1
      BY <3>1
    <3> QED BY <3>2 DEF n
  <2> HIDE DEF before, after, from, to
  <2>5. DOMAIN before = 0 .. size - 1 /\ \A i \in 0 .. size - 1 : IsCell(before[i])
    BY <2>2 DEF AreCells
  <2>6. DOMAIN after = 0 .. size - 1
    BY <2>3, <2>5
  <2>7. \A i \in 0 .. size - 1 : after[i] = before[i] \/ after[i] = before[from]
    BY <2>3, <2>5
  <2> QED BY <2>4, <2>5, <2>6, <2>7 DEF AreCells, after
<1>6. L \in N
  <2>1. N \in SUBSET Nat
    OBVIOUS
  <2> HIDE DEF N
  <2> QED BY <1>1, <1>4, <1>5, <2>1, SetInduction
<1> QED BY <1>1, <1>3, <1>6

LEMMA SizeOfLayout ==
  ASSUME NEW layout, IsLayout(layout)
  PROVE  TotalSize(layout) \in Nat
<1> DEFINE sizes == {layout.co, layout.di, layout.hr, layout.ir}
<1>1. layout.co \in Nat /\ layout.di \in Nat /\ layout.hr \in Nat /\ layout.ir \in Nat
  BY DEF IsLayout
<1>2. sizes \in SUBSET Nat /\ sizes # {}
  BY <1>1
<1>3. \A s \in sizes : s <= layout.co + layout.di + layout.hr + layout.ir
  BY <1>1
<1>4. layout.co + layout.di + layout.hr + layout.ir \in Nat
  BY <1>1
<1>5. Max(sizes) \in Nat
  <2> HIDE DEF sizes
  <2> QED BY <1>2, <1>3, <1>4, MaxExists
<1> QED BY <1>1, <1>5 DEF TotalSize

\* Whatever the setup makes of a configuration is a store the other theorems are
\* about; and if no section "repeat" copies half of one, no 32-bit value is cut
\* in two (Setup.setup and the handlers it calls, of simulator.py).
THEOREM Configured ==
  \A layout : IsLayout(layout) /\ Simulator(layout) # None =>
    /\ IsStore(Simulator(layout))
    /\ layout.repeat = None => Uncut(Simulator(layout).cells)
<1> SUFFICES ASSUME NEW layout, IsLayout(layout), Simulator(layout) # None
             PROVE  /\ IsStore(Simulator(layout))
                    /\ layout.repeat = None => Uncut(Simulator(layout).cells)
  OBVIOUS
<1> DEFINE size == TotalSize(layout)
           new == [i \in 0 .. size - 1 |-> NewCell]
           typed == IF layout.invalid \subseteq DOMAIN new
                      THEN WithTypes(new, layout.types) ELSE None
           written == IF typed = None THEN None ELSE WithWrite(typed, layout.write)
           cells == IF written = None \/ layout.repeat = None THEN written
                    ELSE WithRepeat(written, layout.repeat)
           made == [kind |-> "simulator", strict |-> layout.strict, cells |-> cells,
                    offset |-> [fc \in 0 .. 24 |-> Offset(layout, fc)]]
<1>1. Simulator(layout) = IF cells = None THEN None ELSE made
  BY DEF Simulator
<1>2. size \in Nat
  BY SizeOfLayout
<1> HIDE DEF size
<1>3. AreCells(new, size) /\ Uncut(new)
  BY <1>2 DEF AreCells, Uncut, NewCell, IsCell, CellTypes, Wide
<1>4. /\ Len(layout.types) \in Nat
      /\ \A k \in 1 .. Len(layout.types) : IsEntry(layout.types[k])
  BY DEF IsLayout
<1>5. typed # None => AreCells(typed, size) /\ Uncut(typed)
  <2> HIDE DEF new
  <2> QED BY <1>2, <1>3, <1>4, TypesKeep
<1> HIDE DEF typed
<1>6. written # None => AreCells(written, size) /\ Uncut(written)
  BY <1>2, <1>5, WriteKeeps
<1> HIDE DEF written
<1>7. cells # None => AreCells(cells, size) /\ (layout.repeat = None => Uncut(cells))
  <2>1. CASE layout.repeat = None
    BY <1>6, <2>1
  <2>2. CASE layout.repeat # None /\ written # None
    <3> DEFINE e == layout.repeat
    <3>1. /\ e.first \in Nat /\ e.last \in Nat /\ e.to.first \in Nat /\ e.to.last \in Nat
          /\ e.first <= e.last /\ e.last < size /\ e.to.first <= e.to.last
      BY <2>2 DEF IsLayout, size
    <3> HIDE DEF e
    <3>2. WithRepeat(written, e) # None => AreCells(WithRepeat(written, e), size)
      BY <1>2, <1>6, <2>2, <3>1, RepeatKeeps
    <3> QED BY <2>2, <3>2 DEF e
  <2>3. CASE layout.repeat # None /\ written = None
    BY <2>3
  <2> QED BY <2>1, <2>2, <2>3
<1> HIDE DEF cells
<1>8. cells # None /\ Simulator(layout) = made
  BY <1>1
<1>9. /\ made.kind = "simulator" /\ made.strict = layout.strict /\ made.cells = cells
      /\ made.offset = [fc \in 0 .. 24 |-> Offset(layout, fc)]
      /\ "kind" \in DOMAIN made
  OBVIOUS
<1>10. \A fc \in 0 .. 24 : made.offset[fc] \in Nat
  <2>1. \A fc \in 0 .. 24 : Offset(layout, fc) \in Nat
    <3>1. layout.co \in Nat /\ layout.di \in Nat /\ layout.ir \in Nat
      BY DEF IsLayout
    <3> QED BY <3>1 DEF Offset
  <2> QED BY <1>9, <2>1
<1>11. made = [kind |-> "simulator", strict |-> made.strict, cells |-> made.cells,
               offset |-> made.offset]
  BY <1>9
<1> HIDE DEF made
<1>12. /\ DOMAIN made.cells = 0 .. size - 1 /\ \A i \in 0 .. size - 1 : IsCell(made.cells[i])
  BY <1>7, <1>8, <1>9 DEF AreCells
<1>13. IsFiniteSet(DOMAIN made.cells) /\ Cardinality(DOMAIN made.cells) = size
  <2>1. /\ IsFiniteSet(0 .. size - 1)
        /\ Cardinality(0 .. size - 1) = IF 0 > size - 1 THEN 0 ELSE (size - 1) - 0 + 1
    BY <1>2, FS_Interval
  <2>2. Cardinality(0 .. size - 1) = size
    BY <1>2, <2>1
  <2> QED BY <1>12, <2>1, <2>2
<1>14. IsSimulator(made)
  BY <1>10, <1>11, <1>12, <1>13 DEF IsSimulator, Size
<1>15. IsStore(made)
  BY <1>9, <1>14 DEF IsStore
<1> QED BY <1>7, <1>8, <1>9, <1>15
=============================================================================
