------------------------- MODULE ModbusDeviceProofs -------------------------
(***************************************************************************)
(* The count of events is never behind the log of them; a request that is  *)
(* refused has changed nothing; what is written to blocks is what is read  *)
(* from them; a decoder takes all registers of an answer; a simulator      *)
(* changes only cells that may be written, keeps its values whole and      *)
(* stops at nothing but what follows a string; what a response or request  *)
(* says its length is, it is; and a client that follows the pages of an    *)
(* identity gets every object: for every set of requests, stores,          *)
(* identities and values, every size of the log, every word and every      *)
(* count.                                                                  *)
(***************************************************************************)
EXTENDS ModbusDevice, DatastoreProofs, SequenceTheorems

\* A control block with a log of no more events than are counted, and fit it.
Good(block) ==
  /\ DOMAIN block = {"counters", "events", "diagnostic", "listenOnly"}
  /\ block.counters \in [Counters -> Nat]
  /\ block.events \in Seq({"sent"})
  /\ Len(block.events) <= EventCap
  /\ Len(block.events) <= block.counters[EventCounter]

\* A diagnostic leaves the control block alone, takes it to its mode, clears it,
\* or clears its count of overruns.
Diagnosed ==
  {mcb, [mcb EXCEPT !.listenOnly = TRUE], ClearedBlock, [mcb EXCEPT !.counters[7] = 0]}

LEMMA DiagnosticBlock ==
  ASSUME NEW r
  PROVE  Executed(r).block \in Diagnosed
<1>1. Diagnose(r).block \in Diagnosed
  BY DEF Diagnosed, Diagnose, LinkDiagnostic, ModeDiagnostic, ClearCounters, ClearingDiagnostic,
    Counted, Outcome
<1>2. r.fc \in {7, 11, 12, 17} => Report(r).block = mcb
  BY DEF Report, ExceptionStatus, CommEventCounter, CommEventLog, SlaveId, Counted, Outcome
<1> QED
  BY <1>1, <1>2 DEF Executed, IsDiagnostic, Diagnosed

LEMMA NewIsGood ==
  ASSUME NEW mode
  PROVE  Good([NewControlBlock EXCEPT !.listenOnly = mode]) /\ Good(NewControlBlock)
<1> QED
  BY DeviceAssumption DEF Good, NewControlBlock, Counters, EventCounter

LEMMA ClearedOne ==
  ASSUME NEW f \in [Counters -> Nat], NEW i \in Counters
  PROVE  LET g == [f EXCEPT ![i] = 0]
         IN  g \in [Counters -> Nat] /\ \A j \in Counters \ {i} : g[j] = f[j]
OBVIOUS

LEMMA DiagnosedIsGood ==
  ASSUME Good(mcb), NEW block \in Diagnosed
  PROVE  Good(block)
<1>1. Good([mcb EXCEPT !.listenOnly = TRUE])
  BY DEF Good
<1>2. Good([mcb EXCEPT !.counters[7] = 0])
  <2> DEFINE cleared == [mcb.counters EXCEPT ![7] = 0]
  <2>1. cleared \in [Counters -> Nat] /\ cleared[EventCounter] = mcb.counters[EventCounter]
    <3>1. mcb.counters \in [Counters -> Nat]
      BY DEF Good
    <3>2. 7 \in Counters /\ EventCounter \in Counters \ {7}
      BY DEF Counters, EventCounter
    <3> QED
      BY <3>1, <3>2, ClearedOne
  <2> HIDE DEF cleared
  <2>2. Good([mcb EXCEPT !.counters = cleared])
    BY <2>1 DEF Good
  <2> QED
    BY <2>2 DEF cleared
<1> QED
  BY <1>1, <1>2, NewIsGood DEF Diagnosed, ClearedBlock

LEMMA CountedUp ==
  ASSUME NEW f \in [Counters -> Nat], NEW i \in Counters
  PROVE  LET g == [f EXCEPT ![i] = f[i] + 1]
         IN  g \in [Counters -> Nat] /\ g[i] = f[i] + 1 /\ \A j \in Counters \ {i} : g[j] = f[j]
<1>1. f[i] + 1 \in Nat
  OBVIOUS
<1> QED
  BY <1>1

LEMMA ChompedLog ==
  ASSUME NEW S, NEW s \in Seq(S), NEW e \in S, NEW k \in 0 .. Len(s) + 1
  PROVE  SubSeq(<<e>> \o s, 1, k) \in Seq(S) /\ Len(SubSeq(<<e>> \o s, 1, k)) = k
<1> DEFINE t == <<e>> \o s
<1>1. t \in Seq(S) /\ Len(t) = Len(s) + 1
  OBVIOUS
<1> HIDE DEF t
<1>2. k \in Nat /\ k <= Len(t)
  BY <1>1
<1>3. \A i \in 1 .. k : t[i] \in S
  BY <1>1, <1>2, ElementOfSeq
<1>4. SubSeq(t, 1, k) \in Seq(S) /\ Len(SubSeq(t, 1, k)) = k
  BY <1>1, <1>2, <1>3, SubSeqProperties
<1> QED
  BY <1>4 DEF t

LEMMA AddedIsGood ==
  ASSUME Good(mcb), AddEvent("sent")
  PROVE  Good(mcb')
<1> DEFINE n == mcb.counters[EventCounter]
           kept == Min({EventCap, Len(mcb.events) + 1})
           log == SubSeq(<<"sent">> \o mcb.events, 1, kept)
           counters == [mcb.counters EXCEPT ![EventCounter] = n + 1]
<1>1. /\ n \in Nat /\ EventCap \in Nat /\ mcb.events \in Seq({"sent"})
      /\ Len(mcb.events) <= EventCap /\ Len(mcb.events) <= n
  BY DeviceAssumption DEF Good, Counters, EventCounter
<1>2. kept \in 0 .. Len(mcb.events) + 1 /\ kept <= EventCap /\ kept <= n + 1
  BY <1>1, MinOfTwo
<1>3. log \in Seq({"sent"}) /\ Len(log) = kept
  BY <1>1, <1>2, ChompedLog
<1>4. counters \in [Counters -> Nat] /\ counters[EventCounter] = n + 1
  <2>1. mcb.counters \in [Counters -> Nat] /\ EventCounter \in Counters
    BY DEF Good, Counters, EventCounter
  <2> QED
    BY <2>1, CountedUp
<1>5. mcb' = [mcb EXCEPT !.events = log, !.counters = counters]
  BY DEF AddEvent
<1> HIDE DEF log, counters, kept, n
<1> QED
  BY <1>2, <1>3, <1>4, <1>5 DEF Good

LEMMA CountedIsGood ==
  ASSUME Good(mcb), NEW i \in Counters, Count(i)
  PROVE  Good(mcb')
<1> DEFINE counters == [mcb.counters EXCEPT ![i] = mcb.counters[i] + 1]
<1>1. counters \in [Counters -> Nat] /\ counters[EventCounter] >= mcb.counters[EventCounter]
  <2>1. mcb.counters \in [Counters -> Nat] /\ EventCounter \in Counters
    BY DEF Good, Counters, EventCounter
  <2>2. counters \in [Counters -> Nat] /\ counters[i] = mcb.counters[i] + 1
    BY <2>1, CountedUp
  <2>3. \A j \in Counters \ {i} : counters[j] = mcb.counters[j]
    BY <2>1, CountedUp
  <2>4. mcb.counters[EventCounter] \in Nat
    BY <2>1
  <2> HIDE DEF counters
  <2> QED
    BY <2>1, <2>2, <2>3, <2>4
<1>2. mcb' = [mcb EXCEPT !.counters = counters]
  BY DEF Count
<1> HIDE DEF counters
<1>3. Len(mcb.events) <= counters[EventCounter]
  <2>1. mcb.counters[EventCounter] \in Nat
    BY DEF Good, Counters, EventCounter
  <2>2. counters[EventCounter] \in Nat
    BY <1>1 DEF Counters, EventCounter
  <2>3. Len(mcb.events) \in Nat /\ Len(mcb.events) <= mcb.counters[EventCounter]
    BY DEF Good
  <2> QED
    BY <1>1, <2>1, <2>2, <2>3
<1> QED
  BY <1>1, <1>2, <1>3 DEF Good

LEMMA InitBlock == Init => Good(mcb)
BY NewIsGood DEF Init

LEMMA StepBlock == Good(mcb) /\ [Next]_deviceVars => Good(mcb)'
<1> SUFFICES ASSUME Good(mcb), [Next]_deviceVars PROVE Good(mcb')
  BY DEF Good
<1>1. ASSUME NEW r \in Requests, Serve(r) PROVE Good(mcb')
  <2>1. mcb' \in Diagnosed
    BY <1>1, DiagnosticBlock DEF Serve
  <2> QED
    BY <2>1, DiagnosedIsGood
<1>2. ASSUME NEW on \in BOOLEAN, SetDiagnostic(1, on) PROVE Good(mcb')
  <2> DEFINE bits == IF on THEN mcb.diagnostic \cup {1} ELSE mcb.diagnostic \ {1}
  <2>1. mcb' = [mcb EXCEPT !.diagnostic = bits]
    BY <1>2 DEF SetDiagnostic
  <2> HIDE DEF bits
  <2> QED
    BY <2>1 DEF Good
<1>3. CASE Application
  <2>1. ASSUME ClearEvents PROVE Good(mcb')
    <3>1. mcb.counters[EventCounter] \in Nat
      BY DEF Good, Counters, EventCounter
    <3> QED
      BY <2>1, <3>1, DeviceAssumption DEF ClearEvents, Good
  <2>2. 0 \in Counters /\ EventCounter \in Counters
    BY DEF Counters, EventCounter
  <2> QED
    BY <1>2, <1>3, <2>1, <2>2, AddedIsGood, CountedIsGood DEF Application
<1>4. CASE FarDevice \/ UNCHANGED deviceVars
  BY <1>4 DEF FarDevice, deviceVars
<1> QED
  BY <1>1, <1>3, <1>4 DEF Next

\* Whatever clears the log, the counters or both, and whenever: the event counter
\* is never behind the log, and the log never longer than it may be
\* (ModbusControlBlock.addEvent, clearEvents and reset).
THEOREM Logged == Spec => []LogIsCounted
<1>1. ASSUME Good(mcb) PROVE LogIsCounted
  <2>1. EventCap \in Nat /\ mcb.counters[EventCounter] \in Nat
    BY <1>1, DeviceAssumption DEF Good, Counters, EventCounter
  <2> QED
    BY <1>1, <2>1, MinOfTwo DEF Good, LogIsCounted
<1> QED
  BY InitBlock, StepBlock, <1>1, PTL DEF Spec

\* However many registers an answer carries, its decoder takes them all
\* (ReadRegistersResponseBase.decode and ReadWriteMultipleRegistersResponse.decode,
\* whose ranges have different ends).
THEOREM AllRegisters ==
  \A fc \in {3, 4, 23}, n \in Nat : RegistersDecoded(fc, n) = n
BY DEF RegistersDecoded, RangeLength

-----------------------------------------------------------------------------
(* The fields of requests.                                                 *)

LEMMA WriteShapes ==
  ASSUME NEW w \in WriteRequests
  PROVE  /\ w.fc \in {5, 6, 15, 16, 22, 23} /\ w.a \in Nat
         /\ w.fc \in {15, 16, 23} => w.vals \in Seq(Nat)
<1>1. CASE w \in WriteSingle
  <2>1. w.fc \in {5, 6} /\ w.a \in Addresses
    BY <1>1 DEF WriteSingle
  <2>2. w.fc \notin {15, 16, 23}
    BY <2>1
  <2>3. w.a \in Nat
    BY <2>1, RequestsAssumption
  <2> QED BY <2>1, <2>2, <2>3
<1>2. CASE w \in WriteMany
  <2>1. /\ w.fc \in {15, 16} /\ (w.a \in Addresses \/ w.a = 0)
        /\ w.vals \in Vectors \cup LongVectors
    BY <1>2 DEF WriteMany
  <2>2. w.a \in Nat
    <3>1. Addresses \subseteq Nat /\ 0 \in Nat
      BY RequestsAssumption
    <3> QED BY <2>1, <3>1, Zenon
  <2>3. w.vals \in Seq(Nat)
    <3>1. Vectors \cup LongVectors \subseteq Seq(Nat)
      BY RequestsAssumption
    <3> QED BY <2>1, <3>1, Zenon
  <2> QED BY <2>1, <2>2, <2>3
<1>3. CASE w \in [fc : {22}, a : Addresses, and : Masks, or : Masks]
  <2>1. w.fc = 22 /\ w.a \in Addresses
    BY <1>3
  <2>2. w.a \in Nat
    BY <2>1, RequestsAssumption
  <2> QED BY <2>1, <2>2
<1>4. CASE w.fc = 23 /\ w \in WriteRequests
  <2>1. /\ w.a \in Addresses \/ w.a = 0
        /\ w.vals \in Vectors \cup LongVectors
    BY <1>4 DEF WriteRequests, WriteSingle, WriteMany
  <2>2. Addresses \subseteq Nat /\ 0 \in Nat /\ Vectors \cup LongVectors \subseteq Seq(Nat)
    BY RequestsAssumption
  <2>3. w.a \in Nat
    BY <2>1, <2>2, Zenon
  <2>4. w.vals \in Seq(Nat)
    BY <2>1, <2>2, Zenon
  <2> QED BY <1>4, <2>3, <2>4
<1>5. w.fc = 23 \/ w \in WriteSingle \cup WriteMany
        \/ w \in [fc : {22}, a : Addresses, and : Masks, or : Masks]
  BY DEF WriteRequests
<1> QED BY <1>1, <1>2, <1>3, <1>4, <1>5

LEMMA RequestTypes ==
  ASSUME NEW r \in Requests
  PROVE  /\ r.fc \in {1, 2, 3, 4} => r.a \in Nat /\ r.n \in Nat
         /\ r.fc \in WriteFunctions => r \in WriteRequests
         /\ r.fc = 23 => r.ra \in Nat /\ r.n \in Nat
<1>0. /\ Addresses \subseteq Nat /\ Counts \subseteq Nat /\ Limits \subseteq Nat
      /\ 0 \in Nat /\ 1 \in Nat
  BY RequestsAssumption
<1>1. CASE r \in ReadRequests
  <2>1. r.fc \in {1, 2, 3, 4}
    BY <1>1 DEF ReadRequests
  <2>2. r.a \in Addresses \cup {0} /\ r.n \in Counts \cup Limits
    BY <1>1 DEF ReadRequests
  <2>3. r.a \in Nat /\ r.n \in Nat
    BY <1>0, <2>2
  <2> QED BY <2>1, <2>3 DEF WriteFunctions
<1>2. CASE r \in WriteRequests
  <2>1. r.fc \in {5, 6, 15, 16, 22, 23}
    BY <1>2, WriteShapes
  <2>2. ASSUME r.fc = 23 PROVE r.ra \in Nat /\ r.n \in Nat
    <3>2. r.ra \in Addresses \cup {0} /\ r.n \in Counts \cup {1}
      BY <1>2, <2>2 DEF WriteRequests, WriteSingle, WriteMany
    <3> QED BY <1>0, <3>2
  <2> QED BY <1>2, <2>1, <2>2
<1>3. CASE r \in DiagnosticRequests \cup CounterRequests
  <2>1. r.fc = 8
    BY <1>3 DEF DiagnosticRequests, CounterRequests, Diagnostic
  <2> QED BY <2>1 DEF WriteFunctions
<1>4. CASE r \in StatusRequests \cup FileRequests \cup OtherRequests
  <2>1. r.fc \in {7, 11, 12, 17, 20, 21, 24, 43, 99}
    BY <1>4 DEF StatusRequests, FileRequests, OtherRequests
  <2> QED BY <2>1 DEF WriteFunctions
<1> QED BY <1>1, <1>2, <1>3, <1>4 DEF Requests

-----------------------------------------------------------------------------
(* The calls one after another, each on what the one before it left.       *)

LEMMA WriteOneCalls ==
  ASSUME NEW r
  PROVE  LET valid == Validate(store, r.fc, r.a, 1)
             set == SetValues(valid.store, r.fc, r.a, <<r.value>>)
             got == GetValues(set.store, r.fc, r.a, 1)
         IN  \/ valid.code # 0 /\ WriteOne(r) = Sendable(valid)
             \/ valid.code = 0 /\ set.code # 0 /\ WriteOne(r) = Sendable(set)
             \/ valid.code = 0 /\ set.code = 0 /\ WriteOne(r) = Sendable(got)
BY DEF WriteOne, Then

LEMMA WriteCoilsCalls ==
  ASSUME NEW r, WriteCoils(r) # Refused(IllegalValue)
  PROVE  LET valid == Validate(store, 15, r.a, Len(r.vals))
         IN  /\ 1 <= Len(r.vals)
             /\ \/ valid.code # 0 /\ WriteCoils(r) = valid
                \/ valid.code = 0 /\ WriteCoils(r) = SetValues(valid.store, 15, r.a, r.vals)
BY DEF WriteCoils, Then, Within

LEMMA WriteRegistersCalls ==
  ASSUME NEW r, WriteRegisters(r) # Refused(IllegalValue)
  PROVE  LET valid == Validate(store, 16, r.a, Len(r.vals))
         IN  /\ 1 <= Len(r.vals)
             /\ \/ valid.code # 0 /\ WriteRegisters(r) = valid
                \/ valid.code = 0 /\ WriteRegisters(r) = SetValues(valid.store, 16, r.a, r.vals)
BY DEF WriteRegisters, Then, Within

LEMMA MaskWriteCalls ==
  ASSUME NEW r
  PROVE  LET valid == Validate(store, 22, r.a, 1)
             got == GetValues(valid.store, 22, r.a, 1)
             set == SetValues(got.store, 22, r.a, <<Masked(got.vals[1], r.and, r.or)>>)
         IN  \/ valid.code # 0 /\ MaskWrite(r) = valid
             \/ valid.code = 0 /\ got.code # 0 /\ MaskWrite(r) = got
             \/ valid.code = 0 /\ got.code = 0 /\ MaskWrite(r) = set
BY DEF MaskWrite, Then

LEMMA ReadWriteCalls ==
  ASSUME NEW r, ReadWrite(r) # Refused(IllegalValue)
  PROVE  LET valid == Validate(store, 23, r.a, Len(r.vals))
             read == Validate(valid.store, 23, r.ra, r.n)
             set == SetValues(read.store, 23, r.a, r.vals)
             got == GetValues(set.store, 23, r.ra, r.n)
         IN  /\ 1 <= Len(r.vals)
             /\ \/ valid.code # 0 /\ ReadWrite(r) = Sendable(valid)
                \/ valid.code = 0 /\ read.code # 0 /\ ReadWrite(r) = Sendable(read)
                \/ /\ valid.code = 0 /\ read.code = 0 /\ set.code # 0
                   /\ ReadWrite(r) = Sendable(set)
                \/ /\ valid.code = 0 /\ read.code = 0 /\ set.code = 0
                   /\ ReadWrite(r) = Sendable(got)
BY DEF ReadWrite, ReadWriteFits, Then, Within

\* A request leaves a store of the same kind.
LEMMA DataKeeps ==
  ASSUME IsStore(store), NEW r \in Requests
  PROVE  IsStore(Data(r).store) /\ Data(r).store.kind = store.kind
<1> DEFINE Kept(result) == IsStore(result.store) /\ result.store.kind = store.kind
<1>1. ASSUME NEW s, IsStore(s), s.kind = store.kind,
             NEW fc \in 0 .. 24, NEW a \in Nat, NEW n \in Nat, NEW vals
      PROVE  Kept(Validate(s, fc, a, n)) /\ Kept(GetValues(s, fc, a, n))
               /\ Kept(SetValues(s, fc, a, vals))
  <2>1. /\ IsStore(Validate(s, fc, a, n).store) /\ Validate(s, fc, a, n).store.kind = s.kind
        /\ IsStore(GetValues(s, fc, a, n).store) /\ GetValues(s, fc, a, n).store.kind = s.kind
    BY <1>1, CallsKeep
  <2>2. /\ IsStore(SetValues(s, fc, a, vals).store)
        /\ SetValues(s, fc, a, vals).store.kind = s.kind
    BY <1>1, SettingKeeps
  <2> QED BY <1>1, <2>1, <2>2
<1>2. \A result : Sendable(result).store = result.store
  BY DEF Sendable
<1>3. \A code : Kept(Refused(code))
  BY DEF Refused, Result
<1>4. r.fc \in {1, 2, 3, 4} => Kept(ReadBits(r)) /\ Kept(ReadRegisters(r))
  <2> SUFFICES ASSUME r.fc \in {1, 2, 3, 4} PROVE Kept(ReadBits(r)) /\ Kept(ReadRegisters(r))
    OBVIOUS
  <2> DEFINE valid == Validate(store, r.fc, r.a, r.n)
             got == GetValues(valid.store, r.fc, r.a, r.n)
  <2>1. r.fc \in 0 .. 24 /\ r.a \in Nat /\ r.n \in Nat
    BY RequestTypes
  <2>2. Kept(valid)
    BY <1>1, <2>1
  <2>3. Kept(got)
    BY <1>1, <2>1, <2>2
  <2>4. /\ ReadBits(r) \in {Refused(IllegalValue), valid, got}
        /\ ReadRegisters(r) \in {Refused(IllegalValue), Sendable(valid), Sendable(got)}
    BY DEF ReadBits, ReadRegisters, Then
  <2> HIDE DEF valid, got
  <2> QED BY <1>2, <1>3, <2>2, <2>3, <2>4
<1> DEFINE writes == r.fc \in WriteFunctions
<1>0. writes => /\ r.fc \in 0 .. 24 /\ r.a \in Nat
                /\ r.fc \in {15, 16, 23} => Len(r.vals) \in Nat
  <2>1. writes => r.fc \in 0 .. 24 /\ r \in WriteRequests
    BY RequestTypes DEF WriteFunctions
  <2>2. writes => r.a \in Nat /\ (r.fc \in {15, 16, 23} => r.vals \in Seq(Nat))
    BY <2>1, WriteShapes
  <2> QED BY <2>1, <2>2
<1>5. r.fc \in {5, 6} => Kept(WriteOne(r))
  <2> SUFFICES ASSUME r.fc \in {5, 6} PROVE Kept(WriteOne(r))
    OBVIOUS
  <2> DEFINE valid == Validate(store, r.fc, r.a, 1)
             set == SetValues(valid.store, r.fc, r.a, <<r.value>>)
             got == GetValues(set.store, r.fc, r.a, 1)
  <2>0. r.fc \in 0 .. 24 /\ r.a \in Nat /\ 1 \in Nat
    BY <1>0 DEF WriteFunctions
  <2>1. Kept(valid)
    BY <1>1, <2>0
  <2>2. Kept(set)
    <3>1. PICK s : s = valid.store
      OBVIOUS
    <3>2. IsStore(s) /\ s.kind = store.kind
      BY <2>1, <3>1
    <3>3. Kept(SetValues(s, r.fc, r.a, <<r.value>>))
      BY <1>1, <2>0, <3>2
    <3> QED BY <3>1, <3>3
  <2>3. Kept(got)
    BY <1>1, <2>0, <2>2
  <2>4. WriteOne(r) \in {Sendable(valid), Sendable(set), Sendable(got)}
    BY WriteOneCalls
  <2> HIDE DEF valid, set, got
  <2> QED BY <1>2, <2>1, <2>2, <2>3, <2>4
<1>6. /\ r.fc = 15 => Kept(WriteCoils(r))
      /\ r.fc = 16 => Kept(WriteRegisters(r))
  <2>1. ASSUME NEW fc \in {15, 16}, r.fc = fc
        PROVE  LET valid == Validate(store, fc, r.a, Len(r.vals))
               IN  Kept(valid) /\ Kept(SetValues(valid.store, fc, r.a, r.vals))
    <3>1. fc \in 0 .. 24 /\ r.a \in Nat /\ Len(r.vals) \in Nat
      BY <1>0, <2>1 DEF WriteFunctions
    <3>2. Kept(Validate(store, fc, r.a, Len(r.vals)))
      BY <1>1, <3>1
    <3> QED BY <1>1, <3>1, <3>2
  <2> HIDE DEF Kept
  <2>2. r.fc = 15 => Kept(WriteCoils(r))
    BY <1>3, <2>1, WriteCoilsCalls
  <2>3. r.fc = 16 => Kept(WriteRegisters(r))
    BY <1>3, <2>1, WriteRegistersCalls
  <2> QED BY <2>2, <2>3
<1>7. r.fc = 22 => Kept(MaskWrite(r))
  <2> SUFFICES ASSUME r.fc = 22 PROVE Kept(MaskWrite(r))
    OBVIOUS
  <2> DEFINE valid == Validate(store, 22, r.a, 1)
             got == GetValues(valid.store, 22, r.a, 1)
             set == SetValues(got.store, 22, r.a, <<Masked(got.vals[1], r.and, r.or)>>)
  <2>0. 22 \in 0 .. 24 /\ r.a \in Nat /\ 1 \in Nat
    BY <1>0 DEF WriteFunctions
  <2>1. Kept(valid)
    BY <1>1, <2>0
  <2>2. Kept(got)
    BY <1>1, <2>0, <2>1
  <2>3. Kept(set)
    BY <1>1, <2>0, <2>2
  <2>4. MaskWrite(r) \in {valid, got, set}
    BY MaskWriteCalls
  <2> HIDE DEF valid, set, got
  <2> QED BY <2>1, <2>2, <2>3, <2>4
<1>8. r.fc = 23 => Kept(ReadWrite(r))
  <2> SUFFICES ASSUME r.fc = 23 PROVE Kept(ReadWrite(r))
    OBVIOUS
  <2> DEFINE valid == Validate(store, 23, r.a, Len(r.vals))
             read == Validate(valid.store, 23, r.ra, r.n)
             set == SetValues(read.store, 23, r.a, r.vals)
             got == GetValues(set.store, 23, r.ra, r.n)
  <2>0. /\ 23 \in 0 .. 24 /\ r.a \in Nat /\ Len(r.vals) \in Nat
        /\ r.ra \in Nat /\ r.n \in Nat
    BY <1>0, RequestTypes DEF WriteFunctions
  <2>1. Kept(valid)
    BY <1>1, <2>0
  <2>2. Kept(read)
    BY <1>1, <2>0, <2>1
  <2>3. Kept(set)
    BY <1>1, <2>0, <2>2
  <2>4. Kept(got)
    BY <1>1, <2>0, <2>3, ZenonT(40)
  <2>5. \/ ReadWrite(r) = Refused(IllegalValue)
        \/ ReadWrite(r) \in {Sendable(valid), Sendable(read), Sendable(set), Sendable(got)}
    BY ReadWriteCalls
  <2> HIDE DEF valid, read, set, got
  <2> QED BY <1>2, <1>3, <2>1, <2>2, <2>3, <2>4, <2>5
<1>9. Kept(FileAccess(r)) /\ Kept(DeviceInfo(r))
  BY <1>3 DEF FileAccess, DeviceInfo
<1> HIDE DEF Kept
<1>10. Kept(Data(r))
  BY <1>3, <1>4, <1>5, <1>6, <1>7, <1>8, <1>9 DEF Data
<1> QED BY <1>10 DEF Kept

LEMMA DataFails ==
  ASSUME IsStore(store), store.kind # "simulator", NEW r, Data(r).code > 0
  PROVE  Data(r).store = store
<1> DEFINE Clean(result) == result.code > 0 => result.store = store
<1>1. \A result : /\ Sendable(result).store = result.store
                  /\ Sendable(result).code \in {result.code, Unsendable}
  BY DEF Sendable
<1>3. \A code : Clean(Refused(code))
  BY DEF Refused, Result
<1>4. ASSUME NEW s, NEW fc, NEW a, NEW n, NEW vals, s.kind # "simulator"
      PROVE  /\ Validate(s, fc, a, n).code # 0 => Validate(s, fc, a, n).store = s
             /\ fc \notin {5, 6} \/ s.kind # "remote" => Validate(s, fc, a, n).store = s
             /\ GetValues(s, fc, a, n).store = s
             /\ s.kind # "remote" \/ fc \in {5, 6} => GetValues(s, fc, a, n).code = 0
             /\ SetValues(s, fc, a, vals).code = 0
  BY <1>4, ValidateLeaves, GetLeaves, SetLeaves
<1>5. r.fc \in {1, 2, 3, 4} => Clean(ReadBits(r)) /\ Clean(ReadRegisters(r))
  <2> SUFFICES ASSUME r.fc \in {1, 2, 3, 4} PROVE Clean(ReadBits(r)) /\ Clean(ReadRegisters(r))
    OBVIOUS
  <2> DEFINE valid == Validate(store, r.fc, r.a, r.n)
             got == GetValues(store, r.fc, r.a, r.n)
  <2>1. valid.store = store /\ got.store = store
    BY ValidateLeaves, GetLeaves
  <2>2. ReadBits(r) \in {Refused(IllegalValue), valid, got}
    BY <2>1 DEF ReadBits, Then
  <2>3. ReadRegisters(r) \in {Refused(IllegalValue), Sendable(valid), Sendable(got)}
    BY <2>1 DEF ReadRegisters, Then
  <2> HIDE DEF valid, got
  <2> QED BY <1>1, <1>3, <2>1, <2>2, <2>3
<1>6. r.fc \in {5, 6} => Clean(WriteOne(r))
  <2> SUFFICES ASSUME r.fc \in {5, 6} PROVE Clean(WriteOne(r))
    OBVIOUS
  <2> DEFINE valid == Validate(store, r.fc, r.a, 1)
             set == SetValues(valid.store, r.fc, r.a, <<r.value>>)
             got == GetValues(set.store, r.fc, r.a, 1)
  <2>1. valid.code # 0 => valid.store = store
    BY ValidateLeaves
  <2>2. valid.store.kind = store.kind /\ set.store.kind = store.kind
    BY ContextKeeps
  <2>3. set.code = 0 /\ got.code = 0
    BY <2>2, GetLeaves, SetLeaves
  <2>4. \/ valid.code # 0 /\ WriteOne(r) = Sendable(valid)
        \/ WriteOne(r) = Sendable(got)
    BY <2>3, WriteOneCalls
  <2> HIDE DEF valid, set, got
  <2> QED BY <1>1, <2>1, <2>3, <2>4 DEF Unsendable
<1>7. Clean(WriteCoils(r)) /\ Clean(WriteRegisters(r))
  <2>1. ASSUME NEW fc \in {15, 16}
        PROVE  LET valid == Validate(store, fc, r.a, Len(r.vals))
               IN  Clean(valid) /\ Clean(SetValues(valid.store, fc, r.a, r.vals))
    BY ValidateLeaves, SetLeaves
  <2> HIDE DEF Clean
  <2>2. Clean(WriteCoils(r))
    BY <1>3, <2>1, WriteCoilsCalls
  <2>3. Clean(WriteRegisters(r))
    BY <1>3, <2>1, WriteRegistersCalls
  <2> QED BY <2>2, <2>3
<1>8. Clean(MaskWrite(r))
  <2> DEFINE valid == Validate(store, 22, r.a, 1)
             got == GetValues(store, 22, r.a, 1)
             set == SetValues(store, 22, r.a, <<Masked(got.vals[1], r.and, r.or)>>)
  <2>1. valid.store = store /\ got.store = store /\ set.code = 0
    BY ValidateLeaves, GetLeaves, SetLeaves
  <2>2. MaskWrite(r) \in {valid, got, set}
    BY <2>1, MaskWriteCalls
  <2> HIDE DEF valid, got, set
  <2> QED BY <2>1, <2>2
<1>9. Clean(ReadWrite(r))
  <2> DEFINE valid == Validate(store, 23, r.a, Len(r.vals))
             read == Validate(store, 23, r.ra, r.n)
             set == SetValues(store, 23, r.a, r.vals)
             got == GetValues(set.store, 23, r.ra, r.n)
  <2>1. valid.store = store /\ read.store = store /\ set.code = 0
    BY ValidateLeaves, SetLeaves
  <2>2. valid.code = 0 => store.kind # "remote"
    BY DEF Validate, RemoteValidate, Result, SlaveFailure
  <2>3. set.store.kind = store.kind
    BY ContextKeeps
  <2>4. valid.code = 0 => got.code = 0
    BY <2>2, <2>3, GetLeaves
  <2>5. \/ ReadWrite(r) = Refused(IllegalValue)
        \/ ReadWrite(r) \in {Sendable(valid), Sendable(read)}
        \/ valid.code = 0 /\ ReadWrite(r) = Sendable(got)
    BY <2>1, ReadWriteCalls
  <2> HIDE DEF valid, read, set, got
  <2> QED BY <1>1, <1>3, <2>1, <2>4, <2>5 DEF Unsendable
<1>10. Clean(FileAccess(r)) /\ Clean(DeviceInfo(r))
  BY <1>3 DEF FileAccess, DeviceInfo
<1> HIDE DEF Clean
<1>11. Clean(Data(r))
  BY <1>3, <1>5, <1>6, <1>7, <1>8, <1>9, <1>10 DEF Data
<1> QED BY <1>11 DEF Clean

\* A request changes the store or the control block, never both; one that is
\* refused, or fails in the store, changes neither.
LEMMA ExecutedFacts ==
  ASSUME IsStore(store), NEW r \in Requests
  PROVE  /\ IsStore(Executed(r).store) /\ Executed(r).store.kind = store.kind
         /\ store.kind # "simulator" /\ Executed(r).code > 0
              => Executed(r).store = store /\ Executed(r).block = mcb
<1>1. CASE IsDiagnostic(r)
  <2>1. Executed(r).store = store
    BY <1>1 DEF Executed
  <2>2. r.fc = 8 /\ Diagnose(r).code > 0 => Diagnose(r).block = mcb
    BY DEF Diagnose, LinkDiagnostic, ModeDiagnostic, ClearCounters, ClearingDiagnostic,
      Counted, Outcome
  <2>3. r.fc # 8 => Report(r).block = mcb
    BY <1>1 DEF IsDiagnostic, Report, ExceptionStatus, CommEventCounter, CommEventLog, SlaveId,
      Counted, Outcome
  <2> QED BY <1>1, <2>1, <2>2, <2>3 DEF Executed
<1>2. CASE ~IsDiagnostic(r)
  <2>1. /\ Executed(r).store = Data(r).store /\ Executed(r).code = Data(r).code
        /\ Executed(r).block = mcb
    BY <1>2 DEF Executed
  <2> QED BY <2>1, DataKeeps, DataFails
<1> QED BY <1>1, <1>2

LEMMA StoreInit == Init => IsStore(store)
BY StoresAssumption DEF Init

LEMMA StoreStep == IsStore(store) /\ [Next]_deviceVars => IsStore(store)'
<1> SUFFICES ASSUME IsStore(store), [Next]_deviceVars PROVE IsStore(store')
  BY DEF IsStore
<1>1. ASSUME NEW r \in Requests, Serve(r) PROVE IsStore(store')
  BY <1>1, ExecutedFacts DEF Serve
<1>2. CASE Application
  BY <1>2 DEF Application
<1>3. CASE FarDevice
  <2>1. PICK far \in {"up", "silent", "gone"} : store' = [store EXCEPT !.far = far]
    BY <1>3 DEF FarDevice
  <2>3. store.kind = "remote" /\ "kind" \in DOMAIN store
    BY <1>3 DEF FarDevice, IsStore
  <2>2. store'.kind = "remote" /\ "kind" \in DOMAIN store'
    BY <2>1, <2>3
  <2> QED BY <2>2 DEF IsStore
<1> QED BY <1>1, <1>2, <1>3 DEF Next, deviceVars

\* A request that is answered with an exception has changed neither the store
\* nor the control block.
THEOREM FailedIsClean == Spec => []FailedChangesNothing
<1>1. IsStore(store) => FailedChangesNothing
  BY ExecutedFacts DEF FailedChangesNothing
<1> QED BY StoreInit, StoreStep, <1>1, PTL DEF Spec

-----------------------------------------------------------------------------
(* What blocks hand out after a write.                                     *)

\* Values set are read back one by one, and no other value moves.
ReadsThen(s, fc, a, vals, read, b) ==
  IF TableOf(read) = TableOf(fc) /\ b \in a .. a + Len(vals) - 1
    THEN <<vals[b - a + 1]>> ELSE Reads(s, read, b)

LEMMA ReadsAfterSet ==
  ASSUME NEW s, IsStore(s), s.kind \in {"sequential", "sparse"},
         NEW fc, NEW a \in Nat, NEW vals, DOMAIN vals = 1 .. Len(vals),
         Len(vals) \in Nat, 1 <= Len(vals),
         Validate(s, fc, a, Len(vals)).code = 0, NEW read, NEW b \in Nat
  PROVE  Reads(SetValues(s, fc, a, vals).store, read, b) = ReadsThen(s, fc, a, vals, read, b)
<1> DEFINE after == SetValues(s, fc, a, vals).store
           table == TableOf(read)
           at == BlockAddress(s, b)
           first == BlockAddress(s, a)
<1>1. after = BlockSet(s, fc, a, vals).store
  BY DEF SetValues
<1>2. /\ IsStore(after) /\ after.kind = s.kind /\ after.zero = s.zero
      /\ \A t \in {"c", "d", "h", "i"} : DOMAIN after.mem[t] = DOMAIN s.mem[t]
  BY <1>1, BlockSetKeeps
<1>3. table \in {"c", "d", "h", "i"} /\ TableOf(fc) \in {"c", "d", "h", "i"}
  BY DEF TableOf
<1>4. /\ BlockAddress(after, b) = at /\ at \in Nat /\ first \in Nat
      /\ at - first = b - a
  BY <1>2 DEF BlockAddress
<1>5. BlockValidate(after, read, b, 1) = BlockValidate(s, read, b, 1)
  <2>1. DOMAIN after.mem[table] = DOMAIN s.mem[table]
    BY <1>2, <1>3
  <2>2. /\ SequentialHolds(after.mem[table], at, 1) = SequentialHolds(s.mem[table], at, 1)
        /\ SparseHolds(after.mem[table], at, 1) = SparseHolds(s.mem[table], at, 1)
    BY <2>1 DEF SequentialHolds, SparseHolds
  <2> QED BY <1>2, <1>4, <2>2 DEF BlockValidate
<1>6. ASSUME NEW x, x.kind = s.kind
      PROVE  Reads(x, read, b) = IF BlockValidate(x, read, b, 1) = 0
                                   THEN <<x.mem[table][BlockAddress(x, b)]>> ELSE <<>>
  <2>1. Validate(x, read, b, 1).code = BlockValidate(x, read, b, 1)
    BY <1>6 DEF Validate, Result
  <2>2. GetValues(x, read, b, 1).vals = [k \in 1 .. 1 |-> x.mem[table][BlockAddress(x, b) + k - 1]]
    BY <1>6 DEF GetValues, BlockGet, Result
  <2>3. CASE b + 1 \in Nat /\ BlockAddress(x, b) \in Nat
    <3> DEFINE got == GetValues(x, read, b, 1).vals
    <3>1. got[1] = x.mem[table][BlockAddress(x, b)] /\ got = [k \in 1 .. 1 |-> got[k]]
      BY <2>2, <2>3
    <3> HIDE DEF got
    <3>2. got = <<got[1]>>
      BY <3>1
    <3> QED BY <2>1, <3>1, <3>2 DEF Reads, got
  <2>4. b + 1 \in Nat /\ BlockAddress(x, b) \in Nat
    BY DEF BlockAddress
  <2> QED BY <2>3, <2>4
<1>7. ASSUME at \in DOMAIN s.mem[table]
      PROVE  after.mem[table][at] =
               IF TableOf(read) = TableOf(fc) /\ b \in a .. a + Len(vals) - 1
                 THEN vals[b - a + 1] ELSE s.mem[table][at]
  <2> DEFINE block == [k \in DOMAIN s.mem[TableOf(fc)] |->
                         IF k - first + 1 \in DOMAIN vals
                           THEN vals[k - first + 1] ELSE s.mem[TableOf(fc)][k]]
             mem == [s.mem EXCEPT ![TableOf(fc)] = block]
  <2>1. after = [s EXCEPT !.mem = mem] /\ "mem" \in DOMAIN s /\ DOMAIN s.mem = {"c", "d", "h", "i"}
    BY <1>1 DEF BlockSet, Result, IsStore, IsContext
  <2>2. at - first + 1 = b - a + 1 /\ (at - first + 1 \in DOMAIN vals <=> b \in a .. a + Len(vals) - 1)
    BY <1>4
  <2>3. TableOf(read) = TableOf(fc) =>
          block[at] = IF b \in a .. a + Len(vals) - 1 THEN vals[b - a + 1] ELSE s.mem[table][at]
    BY <1>7, <2>2
  <2> HIDE DEF block, first, at
  <2>4. mem[table] = IF table = TableOf(fc) THEN block ELSE s.mem[table]
    BY <1>3, <2>1
  <2> HIDE DEF mem, after
  <2>5. after.mem = mem
    BY <2>1
  <2> QED BY <2>3, <2>4, <2>5
<1>8. BlockValidate(s, fc, a, Len(vals)) = 0 /\ Len(vals) \in Nat
  BY DEF Validate, Result
<1>9. b \in a .. a + Len(vals) - 1 /\ TableOf(read) = TableOf(fc) =>
        /\ at \in DOMAIN s.mem[table] /\ BlockValidate(s, read, b, 1) = 0
  <2>1. BlockValidate(s, fc, b, 1) = BlockValidate(s, read, b, 1) \/ TableOf(read) # TableOf(fc)
    BY DEF BlockValidate
  <2> QED BY <1>8, <2>1, HeldOneByOne
<1>10. BlockValidate(s, read, b, 1) = 0 => at \in DOMAIN s.mem[table]
  BY HeldOneByOne
<1> HIDE DEF after, table, at, first
<1>11. /\ Reads(after, read, b) = IF BlockValidate(after, read, b, 1) = 0
                                   THEN <<after.mem[table][at]>> ELSE <<>>
       /\ Reads(s, read, b) = IF BlockValidate(s, read, b, 1) = 0
                                THEN <<s.mem[table][at]>> ELSE <<>>
  BY <1>2, <1>4, <1>6 DEF at
<1> QED BY <1>5, <1>7, <1>9, <1>10, <1>11 DEF after, table, ReadsThen

-----------------------------------------------------------------------------
(* What an acknowledged write leaves.                                      *)

Values(w) ==
  IF w.fc \in {5, 6} THEN <<w.value>>
  ELSE IF w.fc = 22 THEN <<Masked(GetValues(store, 3, w.a, 1).vals[1], w.and, w.or)>>
  ELSE w.vals

LEMMA ValuesWritten ==
  ASSUME NEW w \in WriteRequests
  PROVE  /\ Len(Values(w)) \in Nat /\ DOMAIN Values(w) = 1 .. Len(Values(w))
         /\ DOMAIN Written(w) = w.a .. w.a + Len(Values(w)) - 1
         /\ \A b \in DOMAIN Written(w) : Written(w)[b] = Values(w)[b - w.a + 1]
<1>1. CASE w.fc \in {5, 6, 22}
  <2> DEFINE x == IF w.fc = 22 THEN Masked(GetValues(store, 3, w.a, 1).vals[1], w.and, w.or)
                  ELSE w.value
  <2>1. Values(w) = <<x>> /\ Written(w) = [a \in {w.a} |-> x]
    BY <1>1 DEF Values, Written
  <2> HIDE DEF x
  <2>2. Len(<<x>>) = 1 /\ DOMAIN <<x>> = 1 .. 1 /\ <<x>>[1] = x
    OBVIOUS
  <2>4. w.a .. w.a + 1 - 1 = {w.a} /\ w.a - w.a + 1 = 1
    BY WriteShapes
  <2> QED BY <2>1, <2>2, <2>4
<1>2. CASE w.fc \in {15, 16, 23}
  <2>1. /\ Values(w) = w.vals /\ w.vals \in Seq(Nat)
        /\ Written(w) = [a \in w.a .. w.a + Len(w.vals) - 1 |-> w.vals[a - w.a + 1]]
    BY <1>2, WriteShapes DEF Values, Written
  <2> QED BY <2>1
<1> QED BY <1>1, <1>2, WriteShapes

LEMMA Acknowledged ==
  ASSUME IsStore(store), store.kind \in {"sequential", "sparse"},
         NEW w \in WriteRequests, Executed(w).code = 0
  PROVE  LET vals == Values(w)
         IN  /\ 1 <= Len(vals) /\ Validate(store, w.fc, w.a, Len(vals)).code = 0
             /\ Executed(w).store = SetValues(store, w.fc, w.a, vals).store
             /\ w.fc = 23 => Executed(w).vals = GetValues(Executed(w).store, 3, w.ra, w.n).vals
<1>0. /\ w.fc \in {5, 6, 15, 16, 22, 23} /\ Data(w).code = 0
      /\ Executed(w).store = Data(w).store /\ Executed(w).vals = Data(w).vals
  BY WriteShapes DEF Executed, IsDiagnostic
<1>1. ASSUME NEW result, "code" \in DOMAIN result, Sendable(result).code = 0
      PROVE  Sendable(result) = result /\ result.code = 0
  BY <1>1 DEF Sendable, Unsendable
<1>2. Refused(IllegalValue).code # 0
  BY DEF Refused, Result, IllegalValue
<1>3. ASSUME NEW s, s.kind = store.kind, NEW fc, NEW a, NEW n
      PROVE  /\ Validate(s, fc, a, n).store = s /\ "code" \in DOMAIN Validate(s, fc, a, n)
             /\ GetValues(s, fc, a, n).store = s /\ GetValues(s, fc, a, n).code = 0
             /\ "code" \in DOMAIN GetValues(s, fc, a, n)
  BY <1>3 DEF Validate, GetValues, BlockGet, Result
<1>8. ASSUME NEW fc, NEW a, NEW vals
      PROVE  LET set == SetValues(store, fc, a, vals)
             IN  set.code = 0 /\ set.store.kind = store.kind /\ "code" \in DOMAIN set
  <2>1. SetValues(store, fc, a, vals) = BlockSet(store, fc, a, vals)
    BY DEF SetValues
  <2>2. BlockSet(store, fc, a, vals).store.kind = store.kind
    BY BlockSetKeeps
  <2> QED BY <2>1, <2>2 DEF BlockSet, Result
<1>4. CASE w.fc \in {5, 6}
  <2> DEFINE valid == Validate(store, w.fc, w.a, 1)
             set == SetValues(store, w.fc, w.a, <<w.value>>)
             got == GetValues(set.store, w.fc, w.a, 1)
  <2>1. valid.store = store /\ set.store.kind = store.kind /\ set.code = 0
    BY <1>3, <1>8
  <2>2. got.store = set.store /\ "code" \in DOMAIN got
    BY <1>3, <2>1
  <2>5. Data(w) = WriteOne(w) /\ "code" \in DOMAIN valid
    BY <1>3, <1>4 DEF Data
  <2>6. \/ valid.code # 0 /\ WriteOne(w) = Sendable(valid)
        \/ valid.code = 0 /\ WriteOne(w) = Sendable(got)
    BY <2>1, WriteOneCalls
  <2> HIDE DEF valid, set, got
  <2>3. valid.code = 0 /\ Data(w).store = got.store
    BY <1>0, <1>1, <2>2, <2>5, <2>6
  <2>4. Values(w) = <<w.value>> /\ Len(<<w.value>>) = 1
    BY <1>4 DEF Values
  <2> QED BY <1>0, <1>4, <2>2, <2>3, <2>4 DEF valid, set
<1>5. CASE w.fc \in {15, 16}
  <2>1. Data(w) = IF w.fc = 15 THEN WriteCoils(w) ELSE WriteRegisters(w)
    BY <1>5 DEF Data
  <2>2. Validate(store, w.fc, w.a, Len(w.vals)).store = store
    BY <1>3
  <2>3. /\ 1 <= Len(w.vals) /\ Validate(store, w.fc, w.a, Len(w.vals)).code = 0
        /\ Data(w) = SetValues(store, w.fc, w.a, w.vals)
    BY <1>0, <1>2, <1>5, <2>1, <2>2, WriteCoilsCalls, WriteRegistersCalls
  <2>4. Values(w) = w.vals
    BY <1>5 DEF Values
  <2> QED BY <1>0, <1>5, <2>3, <2>4
<1>6. CASE w.fc = 22
  <2> DEFINE valid == Validate(store, 22, w.a, 1)
             got == GetValues(store, 22, w.a, 1)
             set == SetValues(store, 22, w.a, <<Masked(got.vals[1], w.and, w.or)>>)
  <2>1. valid.store = store /\ got.store = store /\ got.code = 0
    BY <1>3
  <2>2. valid.code = 0 /\ Data(w) = set
    BY <1>0, <1>6, <2>1, MaskWriteCalls DEF Data
  <2>3. got = GetValues(store, 3, w.a, 1)
    BY DEF GetValues, BlockGet, TableOf
  <2>4. Values(w) = <<Masked(got.vals[1], w.and, w.or)>> /\ Len(Values(w)) = 1
    BY <1>6, <2>3 DEF Values
  <2> QED BY <1>0, <1>6, <2>2, <2>4
<1>7. CASE w.fc = 23
  <2> DEFINE valid == Validate(store, 23, w.a, Len(w.vals))
             read == Validate(store, 23, w.ra, w.n)
             set == SetValues(store, 23, w.a, w.vals)
             got == GetValues(set.store, 23, w.ra, w.n)
  <2>1. /\ valid.store = store /\ read.store = store
        /\ set.store.kind = store.kind /\ set.code = 0
    BY <1>3, <1>8
  <2>2. got.store = set.store
    BY <1>3, <2>1
  <2>3. Data(w) = ReadWrite(w)
    BY <1>7 DEF Data
  <2>5. got = GetValues(set.store, 3, w.ra, w.n)
    BY <2>1 DEF GetValues, BlockGet, TableOf
  <2>6. Values(w) = w.vals
    BY <1>7 DEF Values
  <2>7. /\ "code" \in DOMAIN valid /\ "code" \in DOMAIN read /\ "code" \in DOMAIN got
        /\ got.code = 0
    BY <1>3, <2>1
  <2>8. ReadWrite(w) # Refused(IllegalValue)
    BY <1>0, <1>2, <2>3
  <2>9. /\ 1 <= Len(w.vals)
        /\ \/ valid.code # 0 /\ ReadWrite(w) = Sendable(valid)
           \/ read.code # 0 /\ ReadWrite(w) = Sendable(read)
           \/ valid.code = 0 /\ ReadWrite(w) = Sendable(got)
    BY <2>1, <2>8, ReadWriteCalls
  <2> HIDE DEF valid, read, set, got
  <2>4. valid.code = 0 /\ Data(w) = got
    BY <1>0, <1>1, <2>3, <2>7, <2>9
  <2> QED BY <1>0, <1>7, <2>2, <2>4, <2>5, <2>6, <2>9 DEF valid, set
<1> QED BY <1>0, <1>4, <1>5, <1>6, <1>7

\* A value that was written reads as it was written, every other one as before.
THEOREM WrittenIsRead == Spec => []ReadsWhatWasWritten
<1>1. ASSUME IsStore(store) PROVE ReadsWhatWasWritten
  <2> SUFFICES ASSUME Passive, NEW w \in WriteRequests, Executed(w).code = 0
               PROVE  LET done == Executed(w)
                          read == IF w.fc \in BitFunctions THEN 1 ELSE 3
                      IN  /\ \A a \in Addresses :
                               Reads(done.store, read, a) =
                                 IF a \in DOMAIN Written(w) THEN <<Written(w)[a]>>
                                 ELSE Reads(store, read, a)
                          /\ \A other \in {1, 2, 3, 4} \ {read}, a \in Addresses :
                               Reads(done.store, other, a) = Reads(store, other, a)
                          /\ w.fc = 23 => done.vals = GetValues(done.store, 3, w.ra, w.n).vals
    BY DEF ReadsWhatWasWritten
  <2> DEFINE read == IF w.fc \in BitFunctions THEN 1 ELSE 3
             after == SetValues(store, w.fc, w.a, Values(w)).store
  <2>1. /\ 1 <= Len(Values(w)) /\ Validate(store, w.fc, w.a, Len(Values(w))).code = 0
        /\ Executed(w).store = after
        /\ w.fc = 23 => Executed(w).vals = GetValues(Executed(w).store, 3, w.ra, w.n).vals
    BY <1>1, Acknowledged DEF Passive
  <2>2. Len(Values(w)) \in Nat /\ DOMAIN Values(w) = 1 .. Len(Values(w))
    BY ValuesWritten
  <2>3. /\ TableOf(read) = TableOf(w.fc)
        /\ \A other \in {1, 2, 3, 4} \ {read} : TableOf(other) # TableOf(w.fc)
    BY WriteShapes DEF TableOf, BitFunctions
  <2>4. store.kind \in {"sequential", "sparse"} /\ w.a \in Nat /\ Addresses \subseteq Nat
    BY WriteShapes, RequestsAssumption DEF Passive
  <2> HIDE DEF read
  <2>5. \A any \in {1, 2, 3, 4}, a \in Addresses :
          Reads(after, any, a) =
            IF TableOf(any) = TableOf(w.fc) /\ a \in w.a .. w.a + Len(Values(w)) - 1
              THEN <<Values(w)[a - w.a + 1]>> ELSE Reads(store, any, a)
    <3> SUFFICES ASSUME NEW any \in {1, 2, 3, 4}, NEW a \in Addresses
                 PROVE  Reads(after, any, a) =
                          IF TableOf(any) = TableOf(w.fc) /\ a \in w.a .. w.a + Len(Values(w)) - 1
                            THEN <<Values(w)[a - w.a + 1]>> ELSE Reads(store, any, a)
      OBVIOUS
    <3>1. a \in Nat
      BY <2>4
    <3> DEFINE v == Values(w)
               fc == w.fc
               first == w.a
    <3>2. /\ IsStore(store) /\ store.kind \in {"sequential", "sparse"}
          /\ first \in Nat /\ Len(v) \in Nat /\ DOMAIN v = 1 .. Len(v) /\ 1 <= Len(v)
          /\ Validate(store, fc, first, Len(v)).code = 0
      BY <1>1, <2>1, <2>2, <2>4
    <3> HIDE DEF v, fc, first
    <3>3. Reads(SetValues(store, fc, first, v).store, any, a) =
            ReadsThen(store, fc, first, v, any, a)
      BY <3>1, <3>2, ReadsAfterSet, ZenonT(40)
    <3> QED BY <3>3 DEF v, fc, first, ReadsThen
  <2> HIDE DEF after
  <2>6. read \in {1, 2, 3, 4}
    BY DEF read
  <2>7. \A a \in Addresses :
          Reads(after, read, a) =
            IF a \in DOMAIN Written(w) THEN <<Written(w)[a]>> ELSE Reads(store, read, a)
    <3> DEFINE W == Written(w)
               v == Values(w)
    <3>1. /\ DOMAIN W = w.a .. w.a + Len(v) - 1
          /\ \A b \in DOMAIN W : W[b] = v[b - w.a + 1]
      BY ValuesWritten
    <3>2. \A a \in Addresses :
            Reads(after, read, a) = IF a \in w.a .. w.a + Len(v) - 1
                                      THEN <<v[a - w.a + 1]>> ELSE Reads(store, read, a)
      BY <2>3, <2>5, <2>6
    <3> HIDE DEF W, v
    <3>3. \A a \in Addresses :
            Reads(after, read, a) = IF a \in DOMAIN W THEN <<W[a]>> ELSE Reads(store, read, a)
      BY <3>1, <3>2
    <3> QED BY <3>3 DEF W
  <2>8. \A other \in {1, 2, 3, 4} \ {read}, a \in Addresses :
          Reads(after, other, a) = Reads(store, other, a)
    BY <2>3, <2>5
  <2> QED BY <2>1, <2>7, <2>8 DEF read
<1> QED BY StoreInit, StoreStep, <1>1, PTL DEF Spec

-----------------------------------------------------------------------------
(* What a simulator lets be changed, and hands out.                        *)

LEMMA DataChanged ==
  ASSUME IsStore(store), store.kind = "simulator", NEW r \in Requests, r.fc \notin BitFunctions
  PROVE  Changed(store, Data(r).store)
<1> DEFINE Kept(result) == Changed(store, result.store)
<1>1. ASSUME NEW s, NEW fc, NEW a, NEW n, s.kind = "simulator"
      PROVE  Validate(s, fc, a, n).store = s
  BY <1>1, ValidateLeaves
<1>2. \A result : Sendable(result).store = result.store
  BY DEF Sendable
<1>3. \A code : Refused(code).store = store
  BY DEF Refused, Result
<1>4. Changed(store, store)
  BY Unchanged DEF IsStore
<1>5. ASSUME NEW s, Changed(store, s), NEW fc \in 0 .. 24, NEW a \in Nat, NEW n \in Nat
      PROVE  Changed(store, GetValues(s, fc, a, n).store)
  <2>1. IsStore(s) /\ s.kind = "simulator"
    BY <1>5, SameSimulator DEF Changed
  <2>2. Changed(s, GetValues(s, fc, a, n).store)
    BY <2>1, GetChanged
  <2> QED BY <1>5, <2>2, ChangedTwice
<1> DEFINE writes == r.fc \in WriteFunctions
<1>6. writes => /\ r.fc \in WriteFunctions \ BitFunctions /\ r.fc \in 0 .. 24 /\ r.a \in Nat
                /\ r.fc \in {16, 23} => Len(r.vals) \in Nat /\ DOMAIN r.vals = 1 .. Len(r.vals)
  <2>1. writes => r.fc \in 0 .. 24 /\ r \in WriteRequests
    BY RequestTypes DEF WriteFunctions
  <2>2. writes => r.a \in Nat /\ (r.fc \in {16, 23} => r.vals \in Seq(Nat))
    BY <2>1, WriteShapes
  <2> QED BY <2>1, <2>2
<1>7. r.fc \in {3, 4} => Kept(ReadRegisters(r))
  <2> SUFFICES ASSUME r.fc \in {3, 4} PROVE Kept(ReadRegisters(r))
    OBVIOUS
  <2> DEFINE valid == Validate(store, r.fc, r.a, r.n)
             got == GetValues(store, r.fc, r.a, r.n)
  <2>1. r.fc \in 0 .. 24 /\ r.a \in Nat /\ r.n \in Nat
    BY RequestTypes
  <2>2. valid.store = store
    BY <1>1
  <2>3. Kept(got)
    BY <1>4, <1>5, <2>1
  <2>4. ReadRegisters(r) \in {Refused(IllegalValue), Sendable(valid), Sendable(got)}
    BY <2>2 DEF ReadRegisters, Then
  <2> HIDE DEF valid, got
  <2> QED BY <1>2, <1>3, <1>4, <2>2, <2>3, <2>4
<1>8. r.fc = 6 => Kept(WriteOne(r))
  <2> SUFFICES ASSUME r.fc = 6 PROVE Kept(WriteOne(r))
    OBVIOUS
  <2> DEFINE valid == Validate(store, r.fc, r.a, 1)
             set == SetValues(store, r.fc, r.a, <<r.value>>)
             got == GetValues(set.store, r.fc, r.a, 1)
             vals == <<r.value>>
  <2>1. r.fc \in WriteFunctions \ BitFunctions /\ r.fc \in 0 .. 24 /\ r.a \in Nat /\ 1 \in Nat
    BY <1>6 DEF WriteFunctions
  <2>2. valid.store = store
    BY <1>1
  <2>3. Len(vals) = 1 /\ DOMAIN vals = 1 .. 1 /\ Len(vals) \in Nat
    OBVIOUS
  <2>4. valid.code = 0 => Kept(set)
    BY <1>4, <2>1, <2>3, SetChanged
  <2>5. valid.code = 0 => Kept(got)
    BY <1>5, <2>1, <2>4
  <2>6. \/ WriteOne(r) = Sendable(valid)
        \/ valid.code = 0 /\ WriteOne(r) \in {Sendable(set), Sendable(got)}
    BY <2>2, WriteOneCalls
  <2> HIDE DEF valid, set, got
  <2> QED BY <1>2, <1>4, <2>2, <2>4, <2>5, <2>6
<1>9. r.fc = 16 => Kept(WriteRegisters(r))
  <2> SUFFICES ASSUME r.fc = 16 PROVE Kept(WriteRegisters(r))
    OBVIOUS
  <2> DEFINE valid == Validate(store, 16, r.a, Len(r.vals))
             set == SetValues(store, 16, r.a, r.vals)
  <2>1. /\ 16 \in WriteFunctions \ BitFunctions /\ r.a \in Nat
        /\ Len(r.vals) \in Nat /\ DOMAIN r.vals = 1 .. Len(r.vals)
    BY <1>6 DEF WriteFunctions
  <2>2. valid.store = store
    BY <1>1
  <2>3. valid.code = 0 => Kept(set)
    BY <1>4, <2>1, SetChanged
  <2>4. \/ WriteRegisters(r) \in {Refused(IllegalValue), valid}
        \/ valid.code = 0 /\ WriteRegisters(r) = set
    BY <2>2, WriteRegistersCalls
  <2> HIDE DEF valid, set
  <2> QED BY <1>3, <1>4, <2>2, <2>3, <2>4
<1>10. r.fc = 22 => Kept(MaskWrite(r))
  <2> SUFFICES ASSUME r.fc = 22 PROVE Kept(MaskWrite(r))
    OBVIOUS
  <2> DEFINE valid == Validate(store, 22, r.a, 1)
             got == GetValues(store, 22, r.a, 1)
             vals == <<Masked(got.vals[1], r.and, r.or)>>
             set == SetValues(got.store, 22, r.a, vals)
  <2>1. /\ 22 \in WriteFunctions \ BitFunctions /\ 22 \in 0 .. 24 /\ r.a \in Nat /\ 1 \in Nat
    BY <1>6 DEF WriteFunctions
  <2>2. valid.store = store
    BY <1>1
  <2>3. Kept(got)
    BY <1>4, <1>5, <2>1
  <2>4. Len(vals) = 1 /\ DOMAIN vals = 1 .. 1 /\ Len(vals) \in Nat
    OBVIOUS
  <2>5. \/ MaskWrite(r) \in {valid, got}
        \/ valid.code = 0 /\ MaskWrite(r) = set
    BY <2>2, MaskWriteCalls
  <2> HIDE DEF vals
  <2>6. valid.code = 0 => Kept(set)
    BY <2>1, <2>3, <2>4, SetChanged
  <2> HIDE DEF valid, got, set
  <2> QED BY <1>4, <2>2, <2>3, <2>5, <2>6
<1>11. r.fc = 23 => Kept(ReadWrite(r))
  <2> SUFFICES ASSUME r.fc = 23 PROVE Kept(ReadWrite(r))
    OBVIOUS
  <2> DEFINE valid == Validate(store, 23, r.a, Len(r.vals))
             read == Validate(store, 23, r.ra, r.n)
             set == SetValues(store, 23, r.a, r.vals)
             got == GetValues(set.store, 23, r.ra, r.n)
  <2>1. /\ 23 \in WriteFunctions \ BitFunctions /\ 23 \in 0 .. 24 /\ r.a \in Nat
        /\ Len(r.vals) \in Nat /\ DOMAIN r.vals = 1 .. Len(r.vals)
        /\ r.ra \in Nat /\ r.n \in Nat
    BY <1>6, RequestTypes DEF WriteFunctions
  <2>2. valid.store = store /\ read.store = store
    BY <1>1
  <2>3. valid.code = 0 => Kept(set)
    BY <1>4, <2>1, SetChanged
  <2>4. valid.code = 0 => Kept(got)
    BY <1>5, <2>1, <2>3
  <2>5. \/ ReadWrite(r) = Refused(IllegalValue)
        \/ ReadWrite(r) \in {Sendable(valid), Sendable(read)}
        \/ valid.code = 0 /\ ReadWrite(r) \in {Sendable(set), Sendable(got)}
    BY <2>2, ReadWriteCalls
  <2> HIDE DEF valid, read, set, got
  <2> QED BY <1>2, <1>3, <1>4, <2>2, <2>3, <2>4, <2>5
<1>12. Kept(FileAccess(r)) /\ Kept(DeviceInfo(r)) /\ Kept(Refused(IllegalFunction))
  BY <1>3, <1>4 DEF FileAccess, DeviceInfo
<1> HIDE DEF Kept
<1>13. Kept(Data(r))
  BY <1>7, <1>8, <1>9, <1>10, <1>11, <1>12 DEF Data, BitFunctions
<1> QED BY <1>13 DEF Kept

\* Through a simulator, a request for words changes only cells that may be
\* written or that count, and those of a value that begins in one
\* (ModbusSimulatorContext.loop_validate, getValues, setValues and its actions).
THEOREM OnlyWritable == Spec => []OnlyWritableChange
<1>1. ASSUME IsStore(store) PROVE OnlyWritableChange
  <2> SUFFICES ASSUME store.kind = "simulator", NEW r \in Requests, r.fc \notin BitFunctions,
                      NEW i \in DOMAIN store.cells,
                      Executed(r).store.cells[i] # store.cells[i]
               PROVE  Due(store, i)
    BY DEF OnlyWritableChange, Due
  <2>1. Executed(r).store = IF IsDiagnostic(r) THEN store ELSE Data(r).store
    BY DEF Executed
  <2>2. Data(r).store.cells[i] # store.cells[i]
    BY <2>1
  <2> QED BY <1>1, <2>2, DataChanged DEF Changed
<1> QED BY StoreInit, StoreStep, <1>1, PTL DEF Spec

\* What a request that a context has answered was validated for.
LEMMA ExecutedIsValidated ==
  ASSUME NEW r \in Requests, r.fc \in {3, 4, 6, 16, 22}, Executed(r).code = 0
  PROVE  LET count == IF r.fc \in {3, 4} THEN r.n ELSE IF r.fc = 16 THEN Len(r.vals) ELSE 1
         IN  /\ r.a \in Nat /\ count \in Nat
             /\ Validate(store, r.fc, r.a, count).code = 0
<1>1. Data(r).code = 0
  BY DEF Executed, IsDiagnostic
<1>2. \A result : Sendable(result).code = 0 => result.code = 0
  BY DEF Sendable
<1>3. Refused(IllegalValue).code # 0
  BY DEF Refused, Result, IllegalValue
<1>4. CASE r.fc \in {3, 4}
  <2> DEFINE valid == Validate(store, r.fc, r.a, r.n)
             got == GetValues(valid.store, r.fc, r.a, r.n)
  <2>1. r.a \in Nat /\ r.n \in Nat
    BY <1>4, RequestTypes
  <2>2. Data(r) = ReadRegisters(r)
    BY <1>4 DEF Data
  <2>3. \/ ReadRegisters(r) = Refused(IllegalValue)
        \/ valid.code # 0 /\ ReadRegisters(r) = Sendable(valid)
        \/ valid.code = 0
    BY DEF ReadRegisters, Then
  <2> HIDE DEF valid
  <2>4. valid.code = 0
    BY <1>1, <1>2, <1>3, <2>2, <2>3
  <2> QED BY <1>4, <2>1, <2>4 DEF valid
<1>5. r.fc \in {6, 16, 22} => /\ r.a \in Nat /\ 1 \in Nat
                              /\ r.fc = 16 => Len(r.vals) \in Nat
  <2>1. r.fc \in {6, 16, 22} => r \in WriteRequests
    BY RequestTypes DEF WriteFunctions
  <2> QED BY <2>1, WriteShapes
<1>6. CASE r.fc = 6
  <2> DEFINE valid == Validate(store, r.fc, r.a, 1)
  <2>1. Data(r) = WriteOne(r)
    BY <1>6 DEF Data
  <2>2. valid.code = 0 \/ WriteOne(r) = Sendable(valid)
    BY WriteOneCalls
  <2> HIDE DEF valid
  <2>3. valid.code = 0
    BY <1>1, <1>2, <2>1, <2>2
  <2> QED BY <1>5, <1>6, <2>3 DEF valid
<1>7. CASE r.fc = 16
  <2> DEFINE valid == Validate(store, 16, r.a, Len(r.vals))
  <2>1. Data(r) = WriteRegisters(r)
    BY <1>7 DEF Data
  <2>2. valid.code = 0 \/ WriteRegisters(r) \in {valid, Refused(IllegalValue)}
    BY WriteRegistersCalls
  <2> HIDE DEF valid
  <2>3. valid.code = 0
    BY <1>1, <1>3, <2>1, <2>2
  <2> QED BY <1>5, <1>7, <2>3 DEF valid
<1>8. CASE r.fc = 22
  <2> DEFINE valid == Validate(store, 22, r.a, 1)
  <2>1. Data(r) = MaskWrite(r)
    BY <1>8 DEF Data
  <2>2. valid.code = 0 \/ MaskWrite(r) = valid
    BY MaskWriteCalls
  <2> HIDE DEF valid
  <2>3. valid.code = 0
    BY <1>1, <2>1, <2>2
  <2> QED BY <1>5, <1>8, <2>3 DEF valid
<1> QED BY <1>4, <1>6, <1>7, <1>8

\* A strict simulator hands out, and takes, both words of a 32-bit value or none
\* (ModbusSimulatorContext.loop_validate with "type exception").
THEOREM ValuesAreWhole == Spec => []WholeValues
<1>1. ASSUME IsStore(store) PROVE WholeValues
  <2> SUFFICES ASSUME store.kind = "simulator", store.strict, Uncut(store.cells),
                      NEW r \in Requests, r.fc \in {3, 4, 6, 16, 22},
                      NEW i \in DOMAIN store.cells,
                      Executed(r).code = 0, Wide(store.cells[i].type)
               PROVE  LET first == CellOf(store, r.fc, r.a)
                          count == IF r.fc \in {3, 4} THEN r.n
                                   ELSE IF r.fc = 16 THEN Len(r.vals) ELSE 1
                          last == first + count - 1
                      IN  i \in first .. last <=> i + 1 \in first .. last
    BY DEF WholeValues
  <2> DEFINE count == IF r.fc \in {3, 4} THEN r.n ELSE IF r.fc = 16 THEN Len(r.vals) ELSE 1
  <2>1. r.a \in Nat /\ count \in Nat /\ Validate(store, r.fc, r.a, count).code = 0
    BY ExecutedIsValidated
  <2>2. r.fc \in (0 .. 24) \ BitFunctions
    BY DEF BitFunctions
  <2> HIDE DEF count
  <2>3. LET first == CellOf(store, r.fc, r.a)
            last == first + count - 1
        IN  i \in first .. last <=> i + 1 \in first .. last
    BY <1>1, <2>1, <2>2, ValidatedIsWhole
  <2> QED BY <2>3 DEF count
<1> QED BY StoreInit, StoreStep, <1>1, PTL DEF Spec

-----------------------------------------------------------------------------
(* Which requests never return.                                            *)

LEMMA CallsReturn ==
  ASSUME NEW s, IsStore(s), NEW fc \in 0 .. 24, NEW a \in Nat, NEW n \in Nat
  PROVE  /\ s.kind = "simulator" => Validate(s, fc, a, n).store = s
         /\ Validate(s, fc, a, n).code = Hangs =>
              /\ s.kind = "simulator" /\ s.strict
              /\ PastString(s, CellOf(s, fc, a), CellOf(s, fc, a) + CellsOf(fc, n))
         /\ GetValues(s, fc, a, n).code # Hangs
<1>1. CASE s.kind = "simulator"
  <2>1. Validate(s, fc, a, n).store = s
    BY <1>1, SimulatorReturns
  <2>2. GetValues(s, fc, a, n).code # Hangs
    BY <1>1, SimulatorReturns
  <2>3. ASSUME Validate(s, fc, a, n).code = Hangs
        PROVE  s.strict /\ PastString(s, CellOf(s, fc, a), CellOf(s, fc, a) + CellsOf(fc, n))
    BY <1>1, <2>3, SimulatorReturns
  <2> QED BY <1>1, <2>1, <2>2, <2>3
<1>2. CASE s.kind # "simulator"
  <2>1. RemoteValidate(s, fc, a, n).code \in {0, IllegalAddress, SlaveFailure}
    BY DEF RemoteValidate, Result
  <2>2. BlockValidate(s, fc, a, n) \in {0, IllegalAddress}
    BY DEF BlockValidate
  <2>3. 0 # Hangs /\ IllegalAddress # Hangs /\ SlaveFailure # Hangs
    BY DEF IllegalAddress, SlaveFailure, Hangs
  <2>4. Validate(s, fc, a, n).code # Hangs
    BY <1>2, <2>1, <2>2, <2>3 DEF Validate, Result
  <2>5. GetValues(s, fc, a, n).code # Hangs
    BY <1>2, <2>1, <2>3 DEF GetValues, RemoteGet, BlockGet, Result
  <2> QED BY <1>2, <2>4, <2>5
<1> QED BY <1>1, <1>2

LEMMA ReadsReturn ==
  ASSUME NEW s, IsStore(s), NEW fc \in 0 .. 24, NEW a \in Nat, NEW n \in Nat
  PROVE  GetValues(s, fc, a, n).code # Hangs
<1> DEFINE valid == Validate(s, fc, a, n)
           cells == PastString(s, CellOf(s, fc, a), CellOf(s, fc, a) + CellsOf(fc, n))
           code == GetValues(s, fc, a, n).code
<1>1. /\ s.kind = "simulator" => valid.store = s
      /\ valid.code = Hangs => s.kind = "simulator" /\ s.strict /\ cells
      /\ code # Hangs
  BY CallsReturn
<1> HIDE DEF valid, cells, code
<1>2. code # Hangs
  BY <1>1
<1> QED BY <1>2 DEF code

\* A range that a request has checked, and in it a string with a value after it.
HangsOn(fc, a, n) ==
  /\ store.kind = "simulator" /\ store.strict
  /\ \E j, k \in (CellOf(store, fc, a) .. CellOf(store, fc, a) + CellsOf(fc, n) - 1)
                  \cap DOMAIN store.cells :
       j < k /\ store.cells[j].type = "string" /\ store.cells[k].type # "next"

\* What a request checks, by its function code.
HangsAt(r) ==
  IF r.fc \in 1 .. 4 THEN HangsOn(r.fc, r.a, r.n)
  ELSE IF r.fc = 23 THEN HangsOn(23, r.a, Len(r.vals)) \/ HangsOn(23, r.ra, r.n)
  ELSE HangsOn(r.fc, r.a, IF r.fc \in {15, 16} THEN Len(r.vals) ELSE 1)

LEMMA DataHangs ==
  ASSUME IsStore(store), NEW r \in Requests, Data(r).code = Hangs
  PROVE  HangsAt(r)
<1>1. \A result : Sendable(result).code = Hangs => result.code = Hangs
  BY DEF Sendable, Unsendable, Hangs
<1>2. \A code \in {0, IllegalFunction, IllegalValue, SlaveFailure} : Refused(code).code # Hangs
  BY DEF Refused, Result, IllegalFunction, IllegalValue, SlaveFailure, Hangs
<1>3. ASSUME NEW fc \in 0 .. 24, NEW a \in Nat, NEW n \in Nat
      PROVE  LET valid == Validate(store, fc, a, n)
             IN  /\ valid.code = Hangs => HangsOn(fc, a, n)
                 /\ IsStore(valid.store) /\ valid.store.kind = store.kind
                 /\ store.kind = "simulator" => valid.store = store
  <2> DEFINE valid == Validate(store, fc, a, n)
             first == CellOf(store, fc, a)
             count == CellsOf(fc, n)
  <2>1. /\ valid.code = Hangs =>
             store.kind = "simulator" /\ store.strict /\ PastString(store, first, first + count)
        /\ store.kind = "simulator" => valid.store = store
    BY CallsReturn
  <2>2. IsStore(valid.store) /\ valid.store.kind = store.kind
    BY CallsKeep
  <2>3. store.kind = "simulator" => first \in Nat /\ count \in Nat
    <3>1. count \in Nat
      BY WidthAssumption DEF CellsOf
    <3>2. store.kind = "simulator" => IsSimulator(store)
      BY DEF IsStore
    <3>3. store.kind = "simulator" => first \in Nat
      BY <3>2, FirstCell
    <3> QED BY <3>1, <3>3
  <2> HIDE DEF valid
  <2>4. ASSUME valid.code = Hangs PROVE HangsOn(fc, a, n)
    <3>1. first .. (first + count) - 1 = first .. first + count - 1
      <4> HIDE DEF first, count
      <4> QED BY <2>1, <2>3, <2>4
    <3> QED BY <2>1, <2>4, <3>1 DEF HangsOn, PastString
  <2> QED BY <2>1, <2>2, <2>4 DEF valid
<1>4. ASSUME NEW s, IsStore(s), NEW fc \in 0 .. 24, NEW a \in Nat
      PROVE  /\ \A n \in Nat : GetValues(s, fc, a, n).code # Hangs
                             /\ IsStore(GetValues(s, fc, a, n).store)
             /\ \A vals : SetValues(s, fc, a, vals).code # Hangs
                          /\ IsStore(SetValues(s, fc, a, vals).store)
  <2>1. ASSUME NEW n \in Nat
        PROVE  GetValues(s, fc, a, n).code # Hangs /\ IsStore(GetValues(s, fc, a, n).store)
    <3>1. GetValues(s, fc, a, n).code # Hangs
      BY <1>4, ReadsReturn
    <3>2. IsStore(GetValues(s, fc, a, n).store)
      BY <1>4, CallsKeep
    <3> QED BY <3>1, <3>2
  <2>2. ASSUME NEW vals
        PROVE  SetValues(s, fc, a, vals).code # Hangs /\ IsStore(SetValues(s, fc, a, vals).store)
    BY <1>4, SettingReturns, SettingKeeps
  <2> QED BY <2>1, <2>2
<1>5. r.fc \in WriteFunctions => /\ r.a \in Nat /\ 1 \in Nat
                                 /\ r.fc \in {15, 16, 23} => Len(r.vals) \in Nat
  BY RequestTypes, WriteShapes
<1>6. r.fc \in {1, 2, 3, 4} =>
        (ReadBits(r).code # Hangs /\ ReadRegisters(r).code # Hangs) \/ HangsAt(r)
  <2> SUFFICES ASSUME r.fc \in {1, 2, 3, 4}
               PROVE  (ReadBits(r).code # Hangs /\ ReadRegisters(r).code # Hangs) \/ HangsAt(r)
    OBVIOUS
  <2> DEFINE valid == Validate(store, r.fc, r.a, r.n)
             got == GetValues(valid.store, r.fc, r.a, r.n)
  <2>1. r.fc \in 0 .. 24 /\ r.a \in Nat /\ r.n \in Nat
    BY RequestTypes
  <2>2. valid.code = Hangs => HangsAt(r)
    <3>1. valid.code = Hangs => HangsOn(r.fc, r.a, r.n)
      BY <1>3, <2>1
    <3> HIDE DEF valid
    <3> QED BY <3>1 DEF HangsAt
  <2>3. got.code # Hangs
    BY <1>3, <1>4, <2>1
  <2>4. ReadBits(r) \in {Refused(IllegalValue), valid, got}
    BY DEF ReadBits, Then
  <2>5. ReadRegisters(r) \in {Refused(IllegalValue), Sendable(valid), Sendable(got)}
    BY DEF ReadRegisters, Then
  <2> HIDE DEF valid, got
  <2> QED BY <1>1, <1>2, <2>2, <2>3, <2>4, <2>5
<1>7. r.fc \in {5, 6} => WriteOne(r).code # Hangs \/ HangsAt(r)
  <2> SUFFICES ASSUME r.fc \in {5, 6} PROVE WriteOne(r).code # Hangs \/ HangsAt(r)
    OBVIOUS
  <2> DEFINE valid == Validate(store, r.fc, r.a, 1)
             set == SetValues(valid.store, r.fc, r.a, <<r.value>>)
             got == GetValues(set.store, r.fc, r.a, 1)
  <2>1. r.fc \in 0 .. 24 /\ r.a \in Nat /\ 1 \in Nat
    BY <1>5 DEF WriteFunctions
  <2>2. valid.code = Hangs => HangsAt(r)
    <3>1. valid.code = Hangs => HangsOn(r.fc, r.a, 1)
      BY <1>3, <2>1
    <3> HIDE DEF valid
    <3> QED BY <3>1 DEF HangsAt
  <2>3. IsStore(valid.store)
    BY <1>3, <2>1
  <2>4. set.code # Hangs /\ IsStore(set.store)
    BY <1>4, <2>1, <2>3
  <2>5. got.code # Hangs
    BY <1>4, <2>1, <2>4
  <2>6. WriteOne(r) \in {Sendable(valid), Sendable(set), Sendable(got)}
    BY WriteOneCalls
  <2> HIDE DEF valid, set, got
  <2> QED BY <1>1, <2>2, <2>4, <2>5, <2>6
<1>8. /\ r.fc = 15 => WriteCoils(r).code # Hangs \/ HangsAt(r)
      /\ r.fc = 16 => WriteRegisters(r).code # Hangs \/ HangsAt(r)
  <2>1. ASSUME NEW fc \in {15, 16}, r.fc = fc
        PROVE  LET valid == Validate(store, fc, r.a, Len(r.vals))
               IN  /\ valid.code = Hangs => HangsAt(r)
                   /\ SetValues(valid.store, fc, r.a, r.vals).code # Hangs
    <3>1. fc \in 0 .. 24 /\ r.a \in Nat /\ Len(r.vals) \in Nat
      BY <1>5, <2>1 DEF WriteFunctions
    <3>2. /\ Validate(store, fc, r.a, Len(r.vals)).code = Hangs => HangsOn(fc, r.a, Len(r.vals))
          /\ IsStore(Validate(store, fc, r.a, Len(r.vals)).store)
      BY <1>3, <3>1
    <3>3. SetValues(Validate(store, fc, r.a, Len(r.vals)).store, fc, r.a, r.vals).code # Hangs
      BY <1>4, <3>1, <3>2
    <3> QED BY <2>1, <3>2, <3>3 DEF HangsAt
  <2> HIDE DEF HangsAt
  <2>2. r.fc = 15 => WriteCoils(r).code # Hangs \/ HangsAt(r)
    BY <1>2, <2>1, WriteCoilsCalls
  <2>3. r.fc = 16 => WriteRegisters(r).code # Hangs \/ HangsAt(r)
    BY <1>2, <2>1, WriteRegistersCalls
  <2> QED BY <2>2, <2>3
<1>9. r.fc = 22 => MaskWrite(r).code # Hangs \/ HangsAt(r)
  <2> SUFFICES ASSUME r.fc = 22 PROVE MaskWrite(r).code # Hangs \/ HangsAt(r)
    OBVIOUS
  <2> DEFINE valid == Validate(store, 22, r.a, 1)
             got == GetValues(valid.store, 22, r.a, 1)
             set == SetValues(got.store, 22, r.a, <<Masked(got.vals[1], r.and, r.or)>>)
  <2>1. 22 \in 0 .. 24 /\ r.a \in Nat /\ 1 \in Nat
    BY <1>5 DEF WriteFunctions
  <2>2. valid.code = Hangs => HangsAt(r)
    <3>1. valid.code = Hangs => HangsOn(22, r.a, 1)
      BY <1>3, <2>1
    <3> HIDE DEF valid
    <3> QED BY <3>1 DEF HangsAt
  <2>3. IsStore(valid.store)
    BY <1>3, <2>1
  <2>4. got.code # Hangs /\ IsStore(got.store)
    BY <1>4, <2>1, <2>3
  <2>5. set.code # Hangs
    BY <1>4, <2>1, <2>4
  <2>6. MaskWrite(r) \in {valid, got, set}
    BY MaskWriteCalls
  <2> HIDE DEF valid, got, set
  <2> QED BY <2>2, <2>4, <2>5, <2>6
<1>10. r.fc = 23 => ReadWrite(r).code # Hangs \/ HangsAt(r)
  <2> SUFFICES ASSUME r.fc = 23 PROVE ReadWrite(r).code # Hangs \/ HangsAt(r)
    OBVIOUS
  <2> DEFINE valid == Validate(store, 23, r.a, Len(r.vals))
             read == Validate(valid.store, 23, r.ra, r.n)
             set == SetValues(read.store, 23, r.a, r.vals)
             got == GetValues(set.store, 23, r.ra, r.n)
  <2>1. /\ 23 \in 0 .. 24 /\ r.a \in Nat /\ Len(r.vals) \in Nat
        /\ r.ra \in Nat /\ r.n \in Nat
    BY <1>5, RequestTypes DEF WriteFunctions
  <2>2. valid.code = Hangs => HangsAt(r)
    <3>1. valid.code = Hangs => HangsOn(23, r.a, Len(r.vals))
      BY <1>3, <2>1
    <3> HIDE DEF valid
    <3> QED BY <3>1 DEF HangsAt
  <2>3. /\ IsStore(valid.store) /\ valid.store.kind = store.kind
        /\ store.kind = "simulator" => valid.store = store
    BY <1>3, <2>1
  <2>4. read.code = Hangs => HangsAt(r)
    <3>1. read.code = Hangs => valid.store.kind = "simulator"
      BY <2>1, <2>3, CallsReturn
    <3>2. read.code = Hangs => valid.store = store
      BY <2>3, <3>1
    <3>3. Validate(store, 23, r.ra, r.n).code = Hangs => HangsOn(23, r.ra, r.n)
      BY <1>3, <2>1
    <3> HIDE DEF valid
    <3> QED BY <3>2, <3>3 DEF HangsAt
  <2>5. IsStore(read.store)
    BY <2>1, <2>3, CallsKeep
  <2>6. set.code # Hangs /\ IsStore(set.store)
    BY <1>4, <2>1, <2>5
  <2>7. got.code # Hangs
    BY <1>4, <2>1, <2>6
  <2>8. \/ ReadWrite(r) = Refused(IllegalValue)
        \/ ReadWrite(r) \in {Sendable(valid), Sendable(read), Sendable(set), Sendable(got)}
    BY ReadWriteCalls
  <2> HIDE DEF valid, read, set, got
  <2> QED BY <1>1, <1>2, <2>2, <2>4, <2>6, <2>7, <2>8
<1>11. FileAccess(r).code # Hangs /\ DeviceInfo(r).code # Hangs
  BY <1>2 DEF FileAccess, DeviceInfo
<1> HIDE DEF HangsAt
<1> QED BY <1>2, <1>6, <1>7, <1>8, <1>9, <1>10, <1>11 DEF Data

\* The event loop goes on after every request but those, to a strict simulator,
\* that reach from a string into the value after it (the inner loop of
\* ModbusSimulatorContext.loop_validate).
THEOREM OthersReturn == Spec => []OnlyStringsHang
<1>1. ASSUME IsStore(store), NEW r \in Requests, Executed(r).code = Hangs
      PROVE  HangsAt(r)
  <2>1. ~IsDiagnostic(r)
    <3>1. Diagnose(r).code \in {0, Unsendable, SlaveFailure}
      BY DEF Diagnose, LinkDiagnostic, ModeDiagnostic, ClearCounters, ClearingDiagnostic,
        Counted, Outcome
    <3>2. r.fc \in {7, 11, 12, 17} => Report(r).code # Hangs
      BY DEF Report, ExceptionStatus, CommEventCounter, CommEventLog, SlaveId, Counted, Outcome,
        Unsendable, SlaveFailure, Hangs
    <3> QED BY <1>1, <3>1, <3>2 DEF Executed, IsDiagnostic, Unsendable, SlaveFailure, Hangs
  <2>2. Data(r).code = Hangs
    BY <1>1, <2>1 DEF Executed
  <2> QED BY <1>1, <2>2, DataHangs
<1>2. ASSUME NEW r, HangsAt(r)
      PROVE  /\ store.kind = "simulator" /\ store.strict
             /\ \E cells \in Checked(r) : \E j, k \in cells \cap DOMAIN store.cells :
                  j < k /\ store.cells[j].type = "string" /\ store.cells[k].type # "next"
  <2> DEFINE Cells(fc, a, n) == CellOf(store, fc, a) .. CellOf(store, fc, a) + CellsOf(fc, n) - 1
             Past(cells) == \E j, k \in cells \cap DOMAIN store.cells :
               j < k /\ store.cells[j].type = "string" /\ store.cells[k].type # "next"
  <2>1. ASSUME NEW fc, NEW a, NEW n, HangsOn(fc, a, n)
        PROVE  store.kind = "simulator" /\ store.strict /\ Past(Cells(fc, a, n))
    BY <2>1 DEF HangsOn
  <2>2. Checked(r) =
          IF r.fc \in 1 .. 4 THEN {Cells(r.fc, r.a, r.n)}
          ELSE IF r.fc = 23 THEN {Cells(23, r.a, Len(r.vals)), Cells(23, r.ra, r.n)}
          ELSE {Cells(r.fc, r.a, IF r.fc \in {15, 16} THEN Len(r.vals) ELSE 1)}
    BY DEF Checked
  <2> HIDE DEF Cells, Past
  <2>3. store.kind = "simulator" /\ store.strict /\ \E cells \in Checked(r) : Past(cells)
    BY <1>2, <2>1, <2>2 DEF HangsAt
  <2> QED BY <2>3 DEF Past
<1>3. IsStore(store) => OnlyStringsHang
  BY <1>1, <1>2 DEF OnlyStringsHang
<1> QED BY StoreInit, StoreStep, <1>3, PTL DEF Spec

-----------------------------------------------------------------------------
(* Sums.                                                                   *)

\* The sum of the first k numbers, if f is that of fewer.
SumBody(numbers, f, k) == IF k = 0 THEN 0 ELSE f[k - 1] + numbers[k]

LEMMA SumExists ==
  ASSUME NEW numbers \in Seq(Nat)
  PROVE  \E f : f = [k \in 0 .. Len(numbers) |-> SumBody(numbers, f, k)]
<1> DEFINE L == Len(numbers)
           Upto(f, n) == \A k \in 0 .. n : f[k] = SumBody(numbers, f, k)
           N == {n \in Nat : n <= L => \E f : f = [k \in 0 .. L |-> f[k]] /\ Upto(f, n)}
<1>0. L \in Nat
  OBVIOUS
<1>1. 0 \in N
  <2> DEFINE f == [k \in 0 .. L |-> 0]
  <2>1. f = [k \in 0 .. L |-> f[k]] /\ Upto(f, 0)
    BY <1>0 DEF SumBody
  <2> HIDE DEF f, Upto
  <2> QED BY <2>1
<1>2. ASSUME NEW n \in N PROVE n + 1 \in N
  <2> SUFFICES ASSUME n + 1 <= L
               PROVE  \E f : f = [k \in 0 .. L |-> f[k]] /\ Upto(f, n + 1)
    OBVIOUS
  <2>1. PICK f : f = [k \in 0 .. L |-> f[k]] /\ Upto(f, n)
    <3> HIDE DEF Upto
    <3> QED BY <1>0
  <2> DEFINE g == [k \in 0 .. L |-> IF k = n + 1 THEN SumBody(numbers, f, k) ELSE f[k]]
  <2>2. ASSUME NEW k \in 0 .. n + 1 PROVE g[k] = SumBody(numbers, g, k)
    <3>1. k # 0 => g[k - 1] = f[k - 1]
      BY <1>0
    <3>2. g[k] = SumBody(numbers, f, k)
      <4>1. CASE k = n + 1
        BY <1>0, <4>1
      <4>2. CASE k # n + 1
        <5>1. k \in 0 .. n /\ g[k] = f[k]
          BY <1>0, <4>2
        <5> HIDE DEF g
        <5> QED BY <2>1, <5>1
      <4> QED BY <4>1, <4>2
    <3> HIDE DEF g, L
    <3> QED BY <3>1, <3>2 DEF SumBody
  <2>3. g = [k \in 0 .. L |-> g[k]]
    OBVIOUS
  <2> HIDE DEF g
  <2>4. Upto(g, n + 1)
    BY <2>2
  <2> HIDE DEF Upto
  <2> QED BY <2>3, <2>4
<1>3. L \in N
  <2>1. N \in SUBSET Nat
    OBVIOUS
  <2> HIDE DEF N
  <2> QED BY <1>0, <1>1, <1>2, <2>1, SetInduction
<1>4. PICK f : f = [k \in 0 .. L |-> f[k]] /\ Upto(f, L)
  <2> HIDE DEF Upto
  <2> QED BY <1>3
<1>5. \A k \in 0 .. L : f[k] = SumBody(numbers, f, k)
  BY <1>4
<1>6. f = [k \in 0 .. L |-> SumBody(numbers, f, k)]
  <2> HIDE DEF Upto
  <2> QED BY <1>4, <1>5
<1> QED BY <1>6

\* Sums are built up from nothing, one number at a time.
LEMMA SumSteps ==
  ASSUME NEW numbers \in Seq(Nat)
  PROVE  /\ SumOf(numbers, 0) = 0
         /\ \A k \in 1 .. Len(numbers) : SumOf(numbers, k) = SumOf(numbers, k - 1) + numbers[k]
<1> DEFINE F == CHOOSE f : f = [k \in 0 .. Len(numbers) |-> SumBody(numbers, f, k)]
<1>1. F = [k \in 0 .. Len(numbers) |-> SumBody(numbers, F, k)]
  BY SumExists
<1>2. \A k : SumOf(numbers, k) = F[k]
  BY DEF SumOf, SumBody
<1> HIDE DEF F
<1>3. Len(numbers) \in Nat /\ 0 \in 0 .. Len(numbers)
  OBVIOUS
<1>4. F[0] = 0
  BY <1>1, <1>3 DEF SumBody
<1>5. ASSUME NEW k \in 1 .. Len(numbers) PROVE F[k] = F[k - 1] + numbers[k]
  BY <1>1, <1>3, SMTT(30) DEF SumBody
<1> QED BY <1>2, <1>4, <1>5

\* A sum is a number, and none of its parts is more.
LEMMA SumGrows ==
  ASSUME NEW numbers \in Seq(Nat), NEW n \in 0 .. Len(numbers)
  PROVE  /\ SumOf(numbers, n) \in Nat
         /\ \A k \in 0 .. n : SumOf(numbers, k) <= SumOf(numbers, n)
<1> DEFINE S(k) == SumOf(numbers, k)
           N == {m \in Nat : m <= Len(numbers) =>
                               S(m) \in Nat /\ \A k \in 0 .. m : S(k) \in Nat /\ S(k) <= S(m)}
<1>1. S(0) = 0 /\ \A k \in 1 .. Len(numbers) : S(k) = S(k - 1) + numbers[k]
  BY SumSteps
<1>2. \A k \in 1 .. Len(numbers) : numbers[k] \in Nat
  OBVIOUS
<1>3. n \in Nat /\ Len(numbers) \in Nat
  OBVIOUS
<1> HIDE DEF S
<1>4. 0 \in N
  BY <1>1
<1>5. ASSUME NEW m \in N PROVE m + 1 \in N
  <2> SUFFICES ASSUME m + 1 <= Len(numbers)
               PROVE  /\ S(m + 1) \in Nat
                      /\ \A k \in 0 .. m + 1 : S(k) \in Nat /\ S(k) <= S(m + 1)
    OBVIOUS
  <2>1. S(m) \in Nat /\ \A k \in 0 .. m : S(k) \in Nat /\ S(k) <= S(m)
    BY <1>3
  <2>2. m + 1 \in 1 .. Len(numbers) /\ (m + 1) - 1 = m
    BY <1>3
  <2>3. S(m + 1) = S(m) + numbers[m + 1] /\ numbers[m + 1] \in Nat
    BY <1>1, <1>2, <2>2
  <2>4. ASSUME NEW k \in 0 .. m + 1 PROVE S(k) \in Nat /\ S(k) <= S(m + 1)
    <3>1. k = m + 1 \/ k \in 0 .. m
      OBVIOUS
    <3> QED BY <2>1, <2>3, <3>1
  <2> QED BY <2>1, <2>3, <2>4
<1>6. N \in SUBSET Nat
  OBVIOUS
<1>7. n \in N
  <2> HIDE DEF N
  <2> QED BY <1>3, <1>4, <1>5, <1>6, SetInduction
<1> QED BY <1>3, <1>7 DEF S

LEMMA SumPrefix ==
  ASSUME NEW some \in Seq(Nat), NEW others \in Seq(Nat),
         NEW n \in Nat, n <= Len(some), n <= Len(others),
         \A k \in 1 .. n : some[k] = others[k]
  PROVE  SumOf(some, n) = SumOf(others, n)
<1> DEFINE N == {m \in Nat : m <= n => SumOf(some, m) = SumOf(others, m)}
<1>1. 0 \in N
  BY SumSteps
<1>2. ASSUME NEW m \in N PROVE m + 1 \in N
  <2> SUFFICES ASSUME m + 1 <= n PROVE SumOf(some, m + 1) = SumOf(others, m + 1)
    OBVIOUS
  <2>1. SumOf(some, m) = SumOf(others, m)
    OBVIOUS
  <2>2. m + 1 \in 1 .. Len(some) /\ m + 1 \in 1 .. Len(others) /\ m + 1 \in 1 .. n /\ (m + 1) - 1 = m
    OBVIOUS
  <2>3. SumOf(some, m + 1) = SumOf(some, m) + some[m + 1]
    BY <2>2, SumSteps
  <2>4. SumOf(others, m + 1) = SumOf(others, m) + others[m + 1]
    BY <2>2, SumSteps
  <2> QED BY <2>1, <2>2, <2>3, <2>4
<1>3. N \in SUBSET Nat
  OBVIOUS
<1> HIDE DEF N
<1>4. n \in N
  BY <1>1, <1>2, <1>3, SetInduction
<1> QED BY <1>4 DEF N

-----------------------------------------------------------------------------
(* How long messages are.                                                  *)

LEMMA FileBytesType ==
  ASSUME NEW records \in Seq(Nat)
  PROVE  FileBytes(records) \in Nat
<1> DEFINE bytes == [k \in DOMAIN records |-> 7 + 2 * records[k]]
<1>1. bytes \in Seq(Nat) /\ Len(bytes) = Len(records)
  <2>1. DOMAIN records = 1 .. Len(records) /\ Len(records) \in Nat
    OBVIOUS
  <2>2. bytes \in [1 .. Len(records) -> Nat]
    BY <2>1
  <2> HIDE DEF bytes
  <2> QED BY <2>1, <2>2
<1>2. Len(records) \in 0 .. Len(bytes)
  BY <1>1
<1>3. FileBytes(records) = SumOf(bytes, Len(records))
  BY DEF FileBytes
<1> HIDE DEF bytes
<1> QED BY <1>1, <1>2, <1>3, SumGrows

\* Eight bits to a byte, and one byte for those left over.
LEMMA BytesOfBits ==
  ASSUME NEW n \in Nat
  PROVE  /\ BytesOf(n) \in Nat
         /\ n \div 8 + (IF n % 8 = 0 THEN 0 ELSE 1) = BytesOf(n)
         /\ n <= 2000 => BytesOf(n) <= 250
         /\ n <= 1968 => BytesOf(n) <= 246
BY DEF BytesOf

\* The shapes of a request and its answer, by what the request counts.
Agree(asked, answer) ==
  /\ asked.frame = asked.pdu + RtuOverhead
  /\ asked.expected # None => asked.expected = answer.pdu
  /\ answer.frame = answer.pdu + RtuOverhead

LEMMA ReadShapes ==
  ASSUME NEW r, r.n \in Nat
  PROVE  /\ Agree(ReadBitsShape(r), BitsShape(r.n))
         /\ Agree(ReadRegistersShape(r), RegistersShape(r.n))
         /\ r.n <= 2000 => ReadBitsShape(r).pdu <= MaxPdu /\ BitsShape(r.n).pdu <= MaxPdu
         /\ r.n <= 125 => ReadRegistersShape(r).pdu <= MaxPdu /\ RegistersShape(r.n).pdu <= MaxPdu
<1>1. Agree(ReadBitsShape(r), BitsShape(r.n))
  <2> DEFINE n == r.n
             more == IF n % 8 = 0 THEN 0 ELSE 1
  <2>1. BytesOf(n) \in Nat /\ n \div 8 + more = BytesOf(n) /\ n \div 8 \in Nat /\ more \in Nat
    <3>1. BytesOf(n) \in Nat /\ n \div 8 + more = BytesOf(n)
      BY BytesOfBits
    <3>2. n \div 8 \in Nat /\ more \in Nat
      OBVIOUS
    <3> QED BY <3>1, <3>2
  <2>2. /\ ReadBitsShape(r) = [pdu |-> 5, frame |-> 8, expected |-> 2 + n \div 8 + more]
        /\ BitsShape(n) = [pdu |-> 2 + BytesOf(n), frame |-> BytesOf(n) + 2 + 3]
    BY DEF ReadBitsShape, BitsShape, CountedFrame
  <2> HIDE DEF more
  <2> QED BY <2>1, <2>2 DEF Agree, RtuOverhead
<1>2. r.n <= 2000 => ReadBitsShape(r).pdu <= MaxPdu /\ BitsShape(r.n).pdu <= MaxPdu
  BY BytesOfBits DEF ReadBitsShape, BitsShape, MaxPdu
<1> QED
  BY <1>1, <1>2 DEF Agree, ReadRegistersShape, RegistersShape, CountedFrame, RtuOverhead, MaxPdu

LEMMA ManyShapes ==
  ASSUME NEW r, r.vals \in Seq(Nat)
  PROVE  /\ Agree(WriteCoilsShape(r), WrittenShape(15))
         /\ Agree(WriteRegistersShape(r), WrittenShape(16))
         /\ Len(r.vals) <= 1968 => WriteCoilsShape(r).pdu <= MaxPdu
         /\ Len(r.vals) <= 123 => WriteRegistersShape(r).pdu <= MaxPdu
         /\ r.n \in Nat => /\ Agree(ReadWriteShape(r), RegistersShape(r.n))
                           /\ Len(r.vals) <= 121 /\ r.n <= 125 =>
                                ReadWriteShape(r).pdu <= MaxPdu /\ RegistersShape(r.n).pdu <= MaxPdu
<1>0. Len(r.vals) \in Nat
  OBVIOUS
<1>1. Agree(WriteCoilsShape(r), WrittenShape(15)) /\ Agree(WriteRegistersShape(r), WrittenShape(16))
  BY <1>0, BytesOfBits, SMTT(30)
    DEF Agree, WriteCoilsShape, WriteRegistersShape, WrittenShape, CountedFrame, RtuOverhead
<1>2. /\ Len(r.vals) <= 1968 => WriteCoilsShape(r).pdu <= MaxPdu
      /\ Len(r.vals) <= 123 => WriteRegistersShape(r).pdu <= MaxPdu
  <2> DEFINE n == Len(r.vals)
  <2>1. n <= 1968 => BytesOf(n) \in Nat /\ BytesOf(n) <= 246
    <3>1. n \in Nat
      BY <1>0
    <3> HIDE DEF n
    <3> QED BY <3>1, BytesOfBits
  <2>2. WriteCoilsShape(r).pdu = 6 + BytesOf(n) /\ WriteRegistersShape(r).pdu = 6 + 2 * n
    BY DEF WriteCoilsShape, WriteRegistersShape
  <2> HIDE DEF n
  <2> QED BY <1>0, <2>1, <2>2 DEF MaxPdu, n
<1>3. r.n \in Nat => /\ Agree(ReadWriteShape(r), RegistersShape(r.n))
                     /\ Len(r.vals) <= 121 /\ r.n <= 125 =>
                          ReadWriteShape(r).pdu <= MaxPdu /\ RegistersShape(r.n).pdu <= MaxPdu
  BY <1>0 DEF Agree, ReadWriteShape, RegistersShape, CountedFrame, RtuOverhead, MaxPdu
<1> QED BY <1>1, <1>2, <1>3

LEMMA FileShapes ==
  ASSUME NEW r, r.records \in Seq(Nat)
  PROVE  /\ Agree(ReadFileShape(r), FileReadShape)
         /\ Agree(WriteFileShape(r), [pdu |-> WriteFileShape(r).pdu, frame |-> WriteFileShape(r).frame])
BY FileBytesType DEF Agree, ReadFileShape, FileReadShape, WriteFileShape, CountedFrame, RtuOverhead

\* What a request without values to count is asked and answered with.
LEMMA FixedShapes ==
  /\ Agree(WriteOneShape, WrittenShape(5)) /\ Agree(WriteOneShape, WrittenShape(6))
  /\ WriteOneShape.pdu <= MaxPdu /\ \A fc : WrittenShape(fc).pdu <= MaxPdu
  /\ Agree(MaskWriteShape, WrittenShape(22)) /\ MaskWriteShape.pdu <= MaxPdu
  /\ Agree(FifoShape, QueueShape(0)) /\ FifoShape.pdu <= MaxPdu
  /\ Agree(OtherShape, QueueShape(0)) /\ OtherShape.pdu <= MaxPdu
  /\ DeviceInfoShape.frame = DeviceInfoShape.pdu + RtuOverhead /\ DeviceInfoShape.pdu <= MaxPdu
  /\ DeviceInfoShape.expected = None /\ QueueShape(0).pdu <= MaxPdu
BY DEF Agree, WriteOneShape, WrittenShape, MaskWriteShape, FifoShape, OtherShape, QueueShape,
  DeviceInfoShape, RtuOverhead, MaxPdu

\* What a device makes its id of has a length.
LEMMA SlaveIdType ==
  ASSUME NEW identity \in Identities
  PROVE  SlaveIdLength(identity) \in Int
<1> DEFINE ids == ObjectIds(identity, 1, 0)
           Part(i) == IF i \in ids THEN identity[i][1] ELSE 0
           n == Cardinality(ids)
           length == Part(0) + Part(1) + Part(2) + n - 1
<1>1. /\ DOMAIN identity \subseteq Nat /\ IsFiniteSet(DOMAIN identity)
      /\ \A i \in DOMAIN identity : identity[i] \in Seq(Nat)
  BY IdentitiesAssumption DEF IsIdentity
<1>2. ids \subseteq DOMAIN identity /\ \A i \in ids : identity[i] # <<>>
  BY DEF ObjectIds
<1>3. n \in Nat
  BY <1>1, <1>2, FS_Subset, FS_CardinalityType
<1>4. \A i : Part(i) \in Nat
  BY <1>1, <1>2
<1>5. SlaveIdLength(identity) = IF \E i \in ids : Len(identity[i]) > 1 THEN NotText
                                ELSE IF length <= 0 THEN 8 ELSE length
  BY DEF SlaveIdLength
<1> HIDE DEF ids, Part, n
<1>6. length \in Int
  BY <1>3, <1>4
<1> HIDE DEF length
<1> QED BY <1>5, <1>6 DEF NotText

LEMMA SlaveIdRequest ==
  ASSUME NEW r \in Requests, r.fc = 17
  PROVE  r.id \in Int
<1>1. r \in [fc : {17}, id : {SlaveIdLength(i) : i \in Identities}]
  <2>1. r \notin ReadRequests /\ r \notin FileRequests /\ r \notin OtherRequests
    BY DEF ReadRequests, FileRequests, OtherRequests
  <2>2. r \notin WriteRequests
    BY WriteShapes
  <2>3. r \notin DiagnosticRequests /\ r \notin CounterRequests
    BY DEF DiagnosticRequests, CounterRequests, Diagnostic
  <2>4. r \notin [fc : {7, 11, 12}]
    OBVIOUS
  <2> QED BY <2>1, <2>2, <2>3, <2>4 DEF Requests, StatusRequests
<1>2. PICK i \in Identities : r.id = SlaveIdLength(i)
  BY <1>1
<1> QED BY <1>2, SlaveIdType

LEMMA DiagnosticShapes ==
  ASSUME Good(mcb), EventCap + 8 <= MaxPdu, NEW r \in Requests, IsDiagnostic(r)
  PROVE  /\ RequestShape(r).frame = RequestShape(r).pdu + RtuOverhead
         /\ RequestShape(r).pdu <= MaxPdu
         /\ r.fc # 17 => AnswerShape(r).pdu <= MaxPdu
         /\ r.fc = 17 /\ Executed(r).code = 0 => AnswerShape(r).pdu <= MaxPdu + 4
         /\ ~Unpredicted(r) => Agree(RequestShape(r), AnswerShape(r))
<1>1. AnswerShape(r) = DiagnosticAnswerShape(r)
  BY DEF AnswerShape
<1>2. CASE r.fc = 8
  <2>1. RequestShape(r) = DiagnosticShape(r) /\ AnswerShape(r) = DiagnosedShape(r)
    BY <1>1, <1>2 DEF RequestShape, DiagnosticAnswerShape
  <2>2. /\ DiagnosticShape(r).frame = DiagnosticShape(r).pdu + RtuOverhead
        /\ DiagnosticShape(r).pdu <= MaxPdu
    BY DEF DiagnosticShape, RtuOverhead, MaxPdu
  <2>3. DiagnosedShape(r).pdu <= MaxPdu
    BY DEF DiagnosedShape, MaxPdu, PlusWords
  <2>4. r.sub \notin {4, 21} => Agree(DiagnosticShape(r), DiagnosedShape(r))
    BY DEF DiagnosticShape, DiagnosedShape, Agree, RtuOverhead
  <2> QED BY <1>2, <2>1, <2>2, <2>3, <2>4 DEF Unpredicted
<1>0. OtherShape.frame = OtherShape.pdu + RtuOverhead /\ OtherShape.pdu <= MaxPdu
      /\ OtherShape.expected = None
  BY DEF OtherShape, RtuOverhead, MaxPdu
<1>3. CASE r.fc \in {7, 11, 12}
  <2>1. RequestShape(r) = OtherShape
    BY <1>3 DEF RequestShape
  <2> DEFINE events == Len(mcb.events)
  <2>2. events \in Nat /\ events <= EventCap
    BY DEF Good
  <2> HIDE DEF events
  <2>3. \/ AnswerShape(r) = StatusShape \/ AnswerShape(r) = CounterShape
        \/ AnswerShape(r) = EventLogShape(events)
    BY <1>1, <1>3 DEF DiagnosticAnswerShape, events
  <2>4. AnswerShape(r).frame = AnswerShape(r).pdu + RtuOverhead /\ AnswerShape(r).pdu <= MaxPdu
    BY <2>2, <2>3, DeviceAssumption
      DEF StatusShape, CounterShape, EventLogShape, CountedFrame, RtuOverhead, MaxPdu
  <2> HIDE DEF AnswerShape
  <2> QED BY <1>0, <1>3, <2>1, <2>4 DEF Agree
<1>4. CASE r.fc = 17
  <2>1. RequestShape(r) = OtherShape /\ AnswerShape(r) = SlaveIdShape(r.id) /\ r.id \in Int
    BY <1>1, <1>4, SlaveIdRequest DEF RequestShape, DiagnosticAnswerShape
  <2>2. SlaveIdShape(r.id) = [pdu |-> 3 + r.id, frame |-> r.id + 1 + 2 + 3]
    BY DEF SlaveIdShape, CountedFrame
  <2>3. Executed(r).code = 0 => r.id <= 254
    <3>1. Executed(r).code = SlaveId(r).code
      BY <1>4 DEF Executed, IsDiagnostic, Report
    <3>2. SlaveId(r).code = 0 => ~(r.id + 1 > 255)
      BY DEF SlaveId, Outcome, SlaveFailure, Unsendable
    <3> QED BY <2>1, <3>1, <3>2
  <2> HIDE DEF AnswerShape
  <2> QED BY <1>0, <1>4, <2>1, <2>2, <2>3 DEF Agree, RtuOverhead, MaxPdu
<1> QED BY <1>2, <1>3, <1>4 DEF IsDiagnostic

LEMMA DataShapes ==
  ASSUME NEW r \in Requests, ~IsDiagnostic(r)
  PROVE  /\ RequestShape(r).frame = RequestShape(r).pdu + RtuOverhead
         /\ r.fc # 43 => Agree(RequestShape(r), AnswerShape(r))
         /\ r.fc = 43 => RequestShape(r).expected = None
         /\ Data(r).code # IllegalValue /\ r.fc \notin {20, 21} =>
              RequestShape(r).pdu <= MaxPdu /\ (r.fc # 43 => AnswerShape(r).pdu <= MaxPdu)
<1>0. Refused(IllegalValue).code = IllegalValue
  BY DEF Refused, Result
<1>1. CASE r.fc \in {1, 2, 3, 4}
  <2>1. r.n \in Nat
    BY <1>1, RequestTypes
  <2>2. CASE r.fc \in {1, 2}
    <3>1. RequestShape(r) = ReadBitsShape(r) /\ AnswerShape(r) = BitsShape(r.n)
      BY <2>2 DEF RequestShape, AnswerShape, IsDiagnostic
    <3>2. Data(r).code # IllegalValue => r.n <= 2000
      BY <1>0, <2>2 DEF Data, ReadBits, Within
    <3> QED BY <2>1, <2>2, <3>1, <3>2, ReadShapes DEF Agree
  <2>3. CASE r.fc \in {3, 4}
    <3>1. RequestShape(r) = ReadRegistersShape(r) /\ AnswerShape(r) = RegistersShape(r.n)
      BY <2>3 DEF RequestShape, AnswerShape, IsDiagnostic
    <3>2. Data(r).code # IllegalValue => r.n <= 125
      BY <1>0, <2>3 DEF Data, ReadRegisters, Within
    <3> QED BY <2>1, <2>3, <3>1, <3>2, ReadShapes DEF Agree
  <2> QED BY <1>1, <2>2, <2>3
<1>2. CASE r.fc \in {15, 16, 23}
  <2>1. r \in WriteRequests /\ (r.fc = 23 => r.n \in Nat)
    BY <1>2, RequestTypes DEF WriteFunctions
  <2>2. r.vals \in Seq(Nat)
    BY <1>2, <2>1, WriteShapes
  <2>3. CASE r.fc = 15
    <3>1. RequestShape(r) = WriteCoilsShape(r) /\ AnswerShape(r) = WrittenShape(15)
      BY <2>3 DEF RequestShape, AnswerShape, IsDiagnostic
    <3>2. Data(r).code # IllegalValue => Len(r.vals) <= 1968
      BY <1>0, <2>3 DEF Data, WriteCoils, Within
    <3> QED BY <2>2, <2>3, <3>1, <3>2, ManyShapes, FixedShapes DEF Agree
  <2>4. CASE r.fc = 16
    <3>1. RequestShape(r) = WriteRegistersShape(r) /\ AnswerShape(r) = WrittenShape(16)
      BY <2>4 DEF RequestShape, AnswerShape, IsDiagnostic
    <3>2. Data(r).code # IllegalValue => Len(r.vals) <= 123
      BY <1>0, <2>4 DEF Data, WriteRegisters, Within
    <3> QED BY <2>2, <2>4, <3>1, <3>2, ManyShapes, FixedShapes DEF Agree
  <2>5. CASE r.fc = 23
    <3>1. RequestShape(r) = ReadWriteShape(r) /\ AnswerShape(r) = RegistersShape(r.n)
      BY <2>5 DEF RequestShape, AnswerShape, IsDiagnostic
    <3>2. Data(r).code # IllegalValue => Len(r.vals) <= 121 /\ r.n <= 125
      BY <1>0, <2>5 DEF Data, ReadWrite, ReadWriteFits, Within
    <3> QED BY <2>1, <2>2, <2>5, <3>1, <3>2, ManyShapes DEF Agree
  <2> QED BY <1>2, <2>3, <2>4, <2>5
<1>3. CASE r.fc \in {5, 6}
  <2>1. RequestShape(r) = WriteOneShape /\ AnswerShape(r) = WrittenShape(r.fc)
    BY <1>3 DEF RequestShape, AnswerShape, IsDiagnostic
  <2> QED BY <1>3, <2>1, FixedShapes DEF Agree
<1>4. CASE r.fc = 22
  <2>1. RequestShape(r) = MaskWriteShape /\ AnswerShape(r) = WrittenShape(22)
    BY <1>4 DEF RequestShape, AnswerShape, IsDiagnostic
  <2> QED BY <1>4, <2>1, FixedShapes DEF Agree
<1>5. CASE r.fc \in {20, 21}
  <2>1. r.records \in Seq(Nat)
    <3>1. r \in FileRequests
      <4>1. /\ r \notin ReadRequests
            /\ r \notin StatusRequests /\ r \notin OtherRequests
        BY <1>5 DEF ReadRequests, StatusRequests, OtherRequests
      <4>2. r \notin WriteRequests
        BY <1>5, WriteShapes
      <4>3. r \notin DiagnosticRequests /\ r \notin CounterRequests
        BY <1>5 DEF DiagnosticRequests, CounterRequests, Diagnostic
      <4> QED BY <4>1, <4>2, <4>3 DEF Requests
    <3>2. r \in [fc : {20, 21}, records : Records]
      BY <1>5, <3>1 DEF FileRequests
    <3> QED BY <3>2, RequestsAssumption
  <2>2. CASE r.fc = 20
    <3>1. RequestShape(r) = ReadFileShape(r) /\ AnswerShape(r) = FileReadShape
      BY <2>2 DEF RequestShape, AnswerShape, IsDiagnostic
    <3> QED BY <2>1, <2>2, <3>1, FileShapes DEF Agree
  <2>3. CASE r.fc = 21
    <3>1. /\ RequestShape(r) = WriteFileShape(r)
          /\ AnswerShape(r) = [pdu |-> WriteFileShape(r).pdu, frame |-> WriteFileShape(r).frame]
      BY <2>3 DEF RequestShape, AnswerShape, IsDiagnostic
    <3> QED BY <2>1, <2>3, <3>1, FileShapes DEF Agree
  <2> QED BY <1>5, <2>2, <2>3
<1>6. CASE r.fc \notin {1, 2, 3, 4, 5, 6, 15, 16, 20, 21, 22, 23}
  <2>1. r.fc # 43 => AnswerShape(r) = QueueShape(0)
    BY <1>6 DEF AnswerShape
  <2>2. RequestShape(r) = IF r.fc = 24 THEN FifoShape
                          ELSE IF r.fc = 43 THEN DeviceInfoShape ELSE OtherShape
    BY <1>6 DEF RequestShape, IsDiagnostic
  <2>3. /\ FifoShape.frame = FifoShape.pdu + RtuOverhead
        /\ OtherShape.frame = OtherShape.pdu + RtuOverhead
    BY DEF FifoShape, OtherShape, RtuOverhead
  <2> QED BY <2>1, <2>2, <2>3, FixedShapes
<1> QED BY <1>1, <1>2, <1>3, <1>4, <1>5, <1>6

\* The places that know how long a message is agree, for every request, whatever
\* it counts, and every log that fits an answer: encode(), get_response_pdu_size()
\* and calculateRtuFrameSize() of the message classes.
THEOREM Lengths == EventCap + 8 <= MaxPdu => (Spec => []LengthsAgree)
<1> SUFFICES ASSUME EventCap + 8 <= MaxPdu PROVE Spec => []LengthsAgree
  OBVIOUS
<1>1. ASSUME Good(mcb) PROVE LengthsAgree
  <2>1. ASSUME NEW r \in Requests
        PROVE  LET asked == RequestShape(r)
                   answer == AnswerShape(r)
               IN /\ asked.frame = asked.pdu + RtuOverhead
                  /\ Executed(r).code # IllegalValue /\ r.fc \notin {20, 21} =>
                       asked.pdu <= MaxPdu /\ (r.fc \notin {17, 43} => answer.pdu <= MaxPdu)
                  /\ Executed(r).code = 0 /\ r.fc = 17 => answer.pdu <= MaxPdu + 4
                  /\ ~Unpredicted(r) =>
                       /\ asked.expected # None => asked.expected = answer.pdu
                       /\ r.fc # 43 => answer.frame = answer.pdu + RtuOverhead
    <3>1. CASE IsDiagnostic(r)
      <4>1. ~Unpredicted(r) => Agree(RequestShape(r), AnswerShape(r))
        BY <1>1, <3>1, DiagnosticShapes
      <4> QED BY <1>1, <3>1, <4>1, DiagnosticShapes DEF Agree
    <3>2. CASE ~IsDiagnostic(r)
      <4>1. Executed(r).code = Data(r).code
        BY <3>2 DEF Executed
      <4>2. r.fc # 43 => Agree(RequestShape(r), AnswerShape(r))
        BY <3>2, DataShapes
      <4>3. r.fc = 43 => RequestShape(r).expected = None
        BY <3>2, DataShapes
      <4>4. r.fc # 17
        BY <3>2 DEF IsDiagnostic
      <4> QED BY <3>2, <4>1, <4>2, <4>3, <4>4, DataShapes DEF Agree
    <3> QED BY <3>1, <3>2
  <2>2. ExceptionShape.frame = ExceptionShape.pdu + RtuOverhead
    BY DEF ExceptionShape, RtuOverhead
  <2> QED BY <2>1, <2>2 DEF LengthsAgree
<1> QED BY InitBlock, StepBlock, <1>1, PTL DEF Spec

-----------------------------------------------------------------------------
(* The objects of an identity, one after the other.                        *)

ValuesOf(identity, i) == IF identity[i] = <<>> THEN <<0>> ELSE identity[i]
ObjectOf(identity, i) ==
  [k \in DOMAIN ValuesOf(identity, i) |-> <<i, k, ValuesOf(identity, i)[k]>>]

\* Those of some ids, if f is those of fewer.
ObjectsBody(identity, f, rest) ==
  IF rest = {} THEN <<>>
  ELSE LET i == Min(rest) IN ObjectOf(identity, i) \o f[rest \ {i}]

LEMMA ObjectsExist ==
  ASSUME NEW identity, NEW ids \in SUBSET Nat, IsFiniteSet(ids)
  PROVE  \E f : f = [rest \in SUBSET ids |-> ObjectsBody(identity, f, rest)]
<1> DEFINE Upto(f, n) == \A rest \in SUBSET ids :
                           Cardinality(rest) <= n => f[rest] = ObjectsBody(identity, f, rest)
           N == {n \in Nat : \E f : f = [rest \in SUBSET ids |-> f[rest]] /\ Upto(f, n)}
<1>1. \A rest \in SUBSET ids : IsFiniteSet(rest) /\ Cardinality(rest) \in Nat
                                /\ Cardinality(rest) <= Cardinality(ids)
  BY FS_Subset, FS_CardinalityType
<1>2. \A rest \in SUBSET ids : Cardinality(rest) = 0 => rest = {}
  BY <1>1, FS_EmptySet
<1>3. \A rest \in SUBSET ids : rest # {} =>
        /\ rest \ {Min(rest)} \in SUBSET ids
        /\ Cardinality(rest \ {Min(rest)}) = Cardinality(rest) - 1
  BY <1>1, MinExists, FS_RemoveElement
<1>4. 0 \in N
  <2> DEFINE f == [rest \in SUBSET ids |-> <<>>]
  <2>1. f = [rest \in SUBSET ids |-> f[rest]]
    OBVIOUS
  <2>2. Upto(f, 0)
    <3> SUFFICES ASSUME NEW rest \in SUBSET ids, Cardinality(rest) <= 0
                 PROVE  f[rest] = ObjectsBody(identity, f, rest)
      OBVIOUS
    <3>1. rest = {}
      BY <1>1, <1>2
    <3> QED BY <3>1 DEF ObjectsBody
  <2> HIDE DEF f, Upto
  <2> QED BY <2>1, <2>2
<1>5. ASSUME NEW n \in N PROVE n + 1 \in N
  <2>1. PICK f : f = [rest \in SUBSET ids |-> f[rest]] /\ Upto(f, n)
    <3> HIDE DEF Upto
    <3> QED OBVIOUS
  <2> DEFINE g == [rest \in SUBSET ids |->
                     IF Cardinality(rest) = n + 1 THEN ObjectsBody(identity, f, rest) ELSE f[rest]]
  <2>2. ASSUME NEW rest \in SUBSET ids, Cardinality(rest) <= n + 1
        PROVE  g[rest] = ObjectsBody(identity, g, rest)
    <3>1. rest # {} => g[rest \ {Min(rest)}] = f[rest \ {Min(rest)}]
      <4> SUFFICES ASSUME rest # {} PROVE g[rest \ {Min(rest)}] = f[rest \ {Min(rest)}]
        OBVIOUS
      <4> DEFINE less == rest \ {Min(rest)}
      <4>1. less \in SUBSET ids /\ Cardinality(less) # n + 1
        BY <1>1, <1>3, <2>2
      <4> HIDE DEF less
      <4>2. g[less] = f[less]
        BY <4>1
      <4> QED BY <4>2 DEF less
    <3>2. g[rest] = ObjectsBody(identity, f, rest)
      <4>1. CASE Cardinality(rest) = n + 1
        BY <4>1
      <4>2. CASE Cardinality(rest) # n + 1
        <5>1. Cardinality(rest) <= n
          BY <1>1, <2>2, <4>2
        <5>2. g[rest] = f[rest]
          BY <4>2
        <5> HIDE DEF g
        <5> QED BY <2>1, <5>1, <5>2
      <4> QED BY <4>1, <4>2
    <3> HIDE DEF g
    <3> QED BY <3>1, <3>2 DEF ObjectsBody
  <2>3. g = [rest \in SUBSET ids |-> g[rest]]
    OBVIOUS
  <2> HIDE DEF g
  <2>4. Upto(g, n + 1)
    BY <2>2
  <2> HIDE DEF Upto
  <2> QED BY <2>3, <2>4
<1>6. Cardinality(ids) \in N
  <2>1. N \in SUBSET Nat /\ Cardinality(ids) \in Nat
    BY <1>1
  <2> HIDE DEF N
  <2> QED BY <1>4, <1>5, <2>1, SetInduction
<1>7. PICK f : f = [rest \in SUBSET ids |-> f[rest]] /\ Upto(f, Cardinality(ids))
  <2> HIDE DEF Upto
  <2> QED BY <1>6
<1>8. \A rest \in SUBSET ids : f[rest] = ObjectsBody(identity, f, rest)
  BY <1>1, <1>7
<1>9. f = [rest \in SUBSET ids |-> ObjectsBody(identity, f, rest)]
  <2> HIDE DEF Upto
  <2> QED BY <1>7, <1>8
<1> QED BY <1>9

Entries == Nat \X Nat \X Nat

\* They are those of the ids, all of them, in the order of the ids, and begin
\* with all there is of the first one.
Lists(identity, ids, objects) ==
  /\ objects \in Seq(Entries)
  /\ \A k \in 1 .. Len(objects) :
       objects[k][1] \in ids /\ objects[k][2] \in DOMAIN ValuesOf(identity, objects[k][1])
  /\ \A i \in ids : \A v \in DOMAIN ValuesOf(identity, i) :
       \E k \in 1 .. Len(objects) : objects[k][1] = i /\ objects[k][2] = v
  /\ \A k \in 1 .. Len(objects) : \A j \in 1 .. k : objects[j][1] <= objects[k][1]
  /\ ids # {} =>
       LET first == ObjectOf(identity, Min(ids))
       IN /\ Len(first) <= Len(objects)
          /\ \A k \in 1 .. Len(first) : objects[k] = first[k]
          /\ \A k \in Len(first) + 1 .. Len(objects) : objects[k][1] # Min(ids)

LEMMA ObjectFacts ==
  ASSUME NEW identity, NEW i \in Nat, identity[i] \in Seq(Nat)
  PROVE  /\ ValuesOf(identity, i) \in Seq(Nat)
         /\ ObjectOf(identity, i) \in Seq(Entries)
         /\ Len(ObjectOf(identity, i)) = Len(ValuesOf(identity, i))
         /\ \A k \in DOMAIN ValuesOf(identity, i) :
              ObjectOf(identity, i)[k] = <<i, k, ValuesOf(identity, i)[k]>>
         /\ DOMAIN ValuesOf(identity, i) = 1 .. Len(ObjectOf(identity, i))
<1> DEFINE values == ValuesOf(identity, i)
           object == ObjectOf(identity, i)
<1>1. values \in Seq(Nat)
  BY DEF ValuesOf
<1>2. object = [k \in DOMAIN values |-> <<i, k, values[k]>>]
  BY DEF ObjectOf
<1> HIDE DEF values, object
<1>3. DOMAIN values = 1 .. Len(values) /\ Len(values) \in Nat
  BY <1>1
<1>4. \A k \in 1 .. Len(values) : <<i, k, values[k]>> \in Entries
  BY <1>1, <1>3 DEF Entries
<1>5. object \in [1 .. Len(values) -> Entries]
  BY <1>2, <1>3, <1>4
<1>6. object \in Seq(Entries) /\ Len(object) = Len(values)
  BY <1>3, <1>5
<1>7. \A k \in DOMAIN values : object[k] = <<i, k, values[k]>>
  BY <1>2
<1> QED BY <1>1, <1>3, <1>6, <1>7 DEF values, object

LEMMA ListsMore ==
  ASSUME NEW identity, NEW ids \in SUBSET Nat, ids # {},
         \A i \in ids : identity[i] \in Seq(Nat),
         NEW later, Lists(identity, ids \ {Min(ids)}, later)
  PROVE  Lists(identity, ids, ObjectOf(identity, Min(ids)) \o later)
<1> DEFINE i == Min(ids)
           first == ObjectOf(identity, i)
           objects == first \o later
           n == Len(first)
           m == Len(later)
           D(j) == DOMAIN ValuesOf(identity, j)
<1>1. i \in ids /\ i \in Nat /\ \A j \in ids : i <= j /\ j \in Nat
  BY MinExists
<1>2. /\ first \in Seq(Entries) /\ D(i) = 1 .. n
      /\ \A k \in 1 .. n : first[k] = <<i, k, ValuesOf(identity, i)[k]>>
  BY <1>1, ObjectFacts
<1>3. /\ later \in Seq(Entries)
      /\ \A k \in 1 .. m : later[k][1] \in ids \ {i} /\ later[k][2] \in D(later[k][1])
      /\ \A j \in ids \ {i} : \A v \in D(j) :
           \E k \in 1 .. m : later[k][1] = j /\ later[k][2] = v
      /\ \A k \in 1 .. m : \A j \in 1 .. k : later[j][1] <= later[k][1]
  BY DEF Lists
<1> HIDE DEF i, first, D
<1>4. n \in Nat /\ m \in Nat
  BY <1>2, <1>3
<1>5. /\ objects \in Seq(Entries) /\ Len(objects) = n + m
      /\ \A k \in 1 .. n + m : objects[k] = IF k <= n THEN first[k] ELSE later[k - n]
  BY <1>2, <1>3, ConcatProperties
<1> HIDE DEF objects, n, m
<1>6. \A k \in 1 .. n : objects[k] = first[k] /\ objects[k][1] = i /\ objects[k][2] = k
  <2> TAKE k \in 1 .. n
  <2>1. objects[k] = first[k]
    BY <1>4, <1>5
  <2>2. first[k] = <<i, k, ValuesOf(identity, i)[k]>>
    BY <1>2
  <2> QED BY <2>1, <2>2
<1>7. \A k \in n + 1 .. n + m : objects[k] = later[k - n] /\ k - n \in 1 .. m
  BY <1>4, <1>5
<1>8. ASSUME NEW k \in 1 .. n + m PROVE objects[k][1] \in ids /\ objects[k][2] \in D(objects[k][1])
  <2>1. CASE k <= n
    <3>1. k \in 1 .. n
      BY <1>4, <2>1
    <3> QED BY <1>1, <1>2, <1>6, <3>1
  <2>2. CASE k > n
    <3>1. objects[k] = later[k - n] /\ k - n \in 1 .. m
      BY <1>4, <1>7, <2>2
    <3> QED BY <1>3, <3>1
  <2> QED BY <1>4, <2>1, <2>2
<1>9. ASSUME NEW j \in ids, NEW v \in D(j)
      PROVE  \E k \in 1 .. n + m : objects[k][1] = j /\ objects[k][2] = v
  <2>1. CASE j = i
    <3>1. v \in 1 .. n /\ v \in 1 .. n + m
      BY <1>2, <1>4, <2>1
    <3> QED BY <1>6, <2>1, <3>1
  <2>2. CASE j # i
    <3>1. PICK k \in 1 .. m : later[k][1] = j /\ later[k][2] = v
      BY <1>3, <2>2
    <3>2. k + n \in n + 1 .. n + m /\ k + n \in 1 .. n + m /\ (k + n) - n = k
      BY <1>4
    <3>3. objects[k + n] = later[k]
      BY <1>7, <3>2
    <3> QED BY <3>1, <3>2, <3>3
  <2> QED BY <2>1, <2>2
<1>10. ASSUME NEW k \in 1 .. n + m, NEW j \in 1 .. k
       PROVE  objects[j][1] <= objects[k][1]
  <2>1. j \in 1 .. n + m
    BY <1>4
  <2>2. CASE j <= n
    <3>1. j \in 1 .. n
      BY <1>4, <2>2
    <3> QED BY <1>1, <1>6, <1>8, <3>1
  <2>3. CASE j > n
    <3>1. j \in n + 1 .. n + m /\ k \in n + 1 .. n + m
      BY <1>4, <2>1, <2>3
    <3>2. objects[j] = later[j - n] /\ objects[k] = later[k - n]
          /\ k - n \in 1 .. m /\ j - n \in 1 .. k - n
      BY <1>4, <1>7, <3>1
    <3> QED BY <1>3, <3>2
  <2> QED BY <1>4, <2>1, <2>2, <2>3
<1>11. /\ n <= Len(objects)
       /\ \A k \in 1 .. n : objects[k] = first[k]
       /\ \A k \in n + 1 .. Len(objects) : objects[k][1] # i
  <2>1. Len(objects) = n + m
    BY <1>5
  <2>2. ASSUME NEW k \in n + 1 .. n + m PROVE objects[k][1] # i
    <3>1. objects[k] = later[k - n] /\ k - n \in 1 .. m
      BY <1>7
    <3>2. later[k - n][1] \in ids \ {i}
      BY <1>3, <3>1
    <3> QED BY <3>1, <3>2
  <2>3. \A k \in 1 .. n : objects[k] = first[k]
    BY <1>6
  <2>4. n <= Len(objects)
    BY <1>4, <2>1
  <2> QED BY <2>1, <2>2, <2>3, <2>4
<1>12. Lists(identity, ids, objects)
  <2>1. /\ objects \in Seq(Entries) /\ Len(objects) = n + m
        /\ \A k \in 1 .. n + m : objects[k][1] \in ids /\ objects[k][2] \in D(objects[k][1])
        /\ \A j \in ids : \A v \in D(j) :
             \E k \in 1 .. n + m : objects[k][1] = j /\ objects[k][2] = v
        /\ \A k \in 1 .. n + m : \A j \in 1 .. k : objects[j][1] <= objects[k][1]
    BY <1>5, <1>8, <1>9, <1>10
  <2> QED BY <1>11, <2>1 DEF Lists, i, first, n, D
<1> QED BY <1>12 DEF objects, first, i

LEMMA ObjectsListed ==
  ASSUME NEW identity, NEW ids \in SUBSET Nat, IsFiniteSet(ids),
         \A i \in ids : identity[i] \in Seq(Nat)
  PROVE  Lists(identity, ids, Objects(identity, ids))
<1> DEFINE F == CHOOSE f : f = [rest \in SUBSET ids |-> ObjectsBody(identity, f, rest)]
           N == {n \in Nat : \A rest \in SUBSET ids :
                   Cardinality(rest) <= n => Lists(identity, rest, F[rest])}
<1>1. F = [rest \in SUBSET ids |-> ObjectsBody(identity, F, rest)]
  BY ObjectsExist
<1>2. Objects(identity, ids) = F[ids]
  BY DEF Objects, ObjectsBody, ObjectOf, ValuesOf
<1> HIDE DEF F
<1>3. \A rest \in SUBSET ids : IsFiniteSet(rest) /\ Cardinality(rest) \in Nat
                                /\ Cardinality(rest) <= Cardinality(ids)
  BY FS_Subset, FS_CardinalityType
<1>4. Lists(identity, {}, F[{}])
  <2>1. F[{}] = <<>>
    BY <1>1 DEF ObjectsBody
  <2>2. <<>> \in Seq(Entries) /\ Len(<<>>) = 0
    BY EmptySeq
  <2> QED BY <2>1, <2>2 DEF Lists
<1>5. 0 \in N
  <2>1. \A rest \in SUBSET ids : Cardinality(rest) <= 0 => rest = {}
    BY <1>3, FS_EmptySet
  <2> QED BY <1>4, <2>1
<1>6. ASSUME NEW n \in N PROVE n + 1 \in N
  <2> SUFFICES ASSUME NEW rest \in SUBSET ids, Cardinality(rest) <= n + 1
               PROVE  Lists(identity, rest, F[rest])
    OBVIOUS
  <2>1. CASE rest = {}
    BY <1>4, <2>1
  <2>2. CASE rest # {}
    <3> DEFINE less == rest \ {Min(rest)}
    <3>1. Min(rest) \in rest
      BY <2>2, MinExists
    <3>2. less \in SUBSET ids /\ Cardinality(less) = Cardinality(rest) - 1
      BY <1>3, <3>1, FS_RemoveElement
    <3>3. Lists(identity, less, F[less])
      BY <1>3, <3>2
    <3>4. F[rest] = ObjectOf(identity, Min(rest)) \o F[less]
      BY <1>1, <2>2 DEF ObjectsBody
    <3>5. rest \in SUBSET Nat /\ \A i \in rest : identity[i] \in Seq(Nat)
      OBVIOUS
    <3> QED BY <2>2, <3>3, <3>4, <3>5, ListsMore
  <2> QED BY <2>1, <2>2
<1>7. Cardinality(ids) \in N
  <2>1. N \in SUBSET Nat /\ Cardinality(ids) \in Nat
    BY <1>3
  <2> HIDE DEF N
  <2> QED BY <1>5, <1>6, <2>1, SetInduction
<1>8. Lists(identity, ids, F[ids])
  BY <1>3, <1>7
<1> QED BY <1>2, <1>8

-----------------------------------------------------------------------------
(* What fits an answer.                                                    *)

SizesOf(objects) == [j \in DOMAIN objects |-> 2 + objects[j][3]]

LEMMA SizesFacts ==
  ASSUME NEW objects \in Seq(Entries)
  PROVE  /\ SizesOf(objects) \in Seq(Nat) /\ Len(SizesOf(objects)) = Len(objects)
         /\ \A k \in 1 .. Len(objects) : SizesOf(objects)[k] = 2 + objects[k][3]
         /\ \A k : Used(objects, k) = SumOf(SizesOf(objects), k)
<1>1. DOMAIN objects = 1 .. Len(objects) /\ Len(objects) \in Nat
  OBVIOUS
<1>2. \A k \in 1 .. Len(objects) : objects[k][3] \in Nat
  <2> TAKE k \in 1 .. Len(objects)
  <2>1. objects[k] \in Entries
    OBVIOUS
  <2> QED BY <2>1 DEF Entries
<1>3. SizesOf(objects) \in [1 .. Len(objects) -> Nat]
  BY <1>1, <1>2 DEF SizesOf
<1>4. \A k \in 1 .. Len(objects) : SizesOf(objects)[k] = 2 + objects[k][3]
  BY <1>1 DEF SizesOf
<1> QED BY <1>1, <1>3, <1>4 DEF Used, SizesOf

\* As many objects are sent as fit, with all before them.
LEMMA SentFits ==
  ASSUME NEW objects \in Seq(Entries)
  PROVE  /\ Sent(objects) \in 0 .. Len(objects)
         /\ Used(objects, Sent(objects)) \in Nat /\ Used(objects, Sent(objects)) < Space
         /\ \A n \in 0 .. Len(objects) : Used(objects, n) < Space => n <= Sent(objects)
<1> DEFINE fits == {k \in 0 .. Len(objects) : \A j \in 1 .. k : Used(objects, j) < Space}
           sent == Sent(objects)
<1>1. Len(objects) \in Nat
  OBVIOUS
<1>2. /\ Used(objects, 0) = 0
      /\ \A n \in 0 .. Len(objects) :
           Used(objects, n) \in Nat /\ \A j \in 0 .. n : Used(objects, j) <= Used(objects, n)
  <2>1. Used(objects, 0) = 0
    BY SizesFacts, SumSteps
  <2>2. ASSUME NEW n \in 0 .. Len(objects)
        PROVE  Used(objects, n) \in Nat /\ \A j \in 0 .. n : Used(objects, j) <= Used(objects, n)
    <3>1. n \in 0 .. Len(SizesOf(objects)) /\ SizesOf(objects) \in Seq(Nat)
      BY SizesFacts
    <3>2. /\ SumOf(SizesOf(objects), n) \in Nat
          /\ \A k \in 0 .. n : SumOf(SizesOf(objects), k) <= SumOf(SizesOf(objects), n)
      BY <3>1, SumGrows
    <3> QED BY <3>2, SizesFacts
  <2> QED BY <2>1, <2>2
<1>3. 0 \in fits /\ fits \in SUBSET Nat /\ \A k \in fits : k <= Len(objects)
  BY <1>1
<1>4. sent = Max(fits)
  BY DEF Sent
<1>5. sent \in fits /\ \A k \in fits : k <= sent
  <2> HIDE DEF fits, sent
  <2> QED BY <1>1, <1>3, <1>4, MaxExists
<1> HIDE DEF sent
<1>6. sent \in 0 .. Len(objects) /\ \A j \in 1 .. sent : Used(objects, j) < Space
  BY <1>5
<1>7. Used(objects, sent) \in Nat /\ Used(objects, sent) < Space
  <2>1. sent = 0 \/ sent \in 1 .. sent
    BY <1>6
  <2>2. 0 < Space
    BY DEF Space, MaxPdu
  <2> QED BY <1>2, <1>6, <2>1, <2>2
<1>8. ASSUME NEW n \in 0 .. Len(objects), Used(objects, n) < Space PROVE n <= sent
  <2>1. \A j \in 1 .. n : j \in 0 .. n /\ j \in 0 .. Len(objects)
    BY <1>1
  <2>2. \A j \in 1 .. n : Used(objects, j) < Space
    <3> TAKE j \in 1 .. n
    <3>1. Used(objects, j) <= Used(objects, n) /\ Used(objects, j) \in Nat /\ Used(objects, n) \in Nat
      BY <1>2, <2>1
    <3>2. Space \in Nat
      BY DEF Space, MaxPdu
    <3> QED BY <1>8, <3>1, <3>2
  <2>3. n \in fits
    BY <2>2
  <2> HIDE DEF fits
  <2> QED BY <1>5, <2>3
<1> QED BY <1>6, <1>7, <1>8 DEF sent

\* The values of the objects with some ids.
Pairs(identity, ids) == UNION {{i} \X (DOMAIN ValuesOf(identity, i)) : i \in ids}

LEMMA InPairs ==
  ASSUME NEW identity, NEW ids, NEW i, NEW v
  PROVE  <<i, v>> \in Pairs(identity, ids) <=> i \in ids /\ v \in DOMAIN ValuesOf(identity, i)
BY DEF Pairs

LEMMA OutOfPairs ==
  ASSUME NEW identity, NEW ids, NEW pair \in Pairs(identity, ids)
  PROVE  \E i \in ids : \E v \in DOMAIN ValuesOf(identity, i) : pair = <<i, v>>
BY DEF Pairs

\* The object of the least id alone fits an answer, so it is sent.
LEMMA FirstIsSent ==
  ASSUME NEW identity, IsIdentity(identity), NEW ids \in SUBSET DOMAIN identity, ids # {}
  PROVE  Len(ObjectOf(identity, Min(ids))) <= Sent(Objects(identity, ids))
<1> DEFINE i == Min(ids)
           all == Objects(identity, ids)
           one == Objects(identity, {i})
           n == Len(ObjectOf(identity, i))
<1>1. /\ DOMAIN identity \subseteq Nat /\ IsFiniteSet(DOMAIN identity)
      /\ \A j \in DOMAIN identity :
           identity[j] \in Seq(Nat)
             /\ Used(Objects(identity, {j}), Len(Objects(identity, {j}))) < Space
  BY DEF IsIdentity
<1>2. ids \in SUBSET Nat /\ IsFiniteSet(ids)
  BY <1>1, FS_Subset
<1>3. i \in ids /\ i \in DOMAIN identity /\ i \in Nat
  BY <1>2, MinExists
<1>4. {i} \in SUBSET Nat /\ IsFiniteSet({i}) /\ {i} # {}
  BY <1>3, FS_Singleton
<1>5. Min({i}) = i
  BY <1>4, MinExists
<1>6. Lists(identity, ids, all) /\ Lists(identity, {i}, one)
  BY <1>1, <1>2, <1>3, <1>4, ObjectsListed
<1>7. n \in Nat
  BY <1>1, <1>3, ObjectFacts
<1>8. /\ all \in Seq(Entries) /\ n <= Len(all)
      /\ \A k \in 1 .. n : all[k] = ObjectOf(identity, i)[k]
  BY <1>6 DEF Lists
<1>9. /\ one \in Seq(Entries) /\ n <= Len(one)
      /\ \A k \in 1 .. n : one[k] = ObjectOf(identity, i)[k]
      /\ \A k \in n + 1 .. Len(one) : one[k][1] # i
      /\ \A k \in 1 .. Len(one) : one[k][1] = i
  BY <1>4, <1>5, <1>6 DEF Lists
<1>10. Used(one, Len(one)) < Space
  BY <1>1, <1>3
<1> HIDE DEF one, all, n, i
<1>11. Len(one) = n
  <2>1. Len(one) \in Nat
    BY <1>9
  <2>2. Len(one) > n => Len(one) \in n + 1 .. Len(one) /\ Len(one) \in 1 .. Len(one)
    BY <1>7, <2>1
  <2> QED BY <1>7, <1>9, <2>1, <2>2
<1>12. Used(one, n) = Used(all, n)
  <2>1. \A k \in 1 .. n : SizesOf(one)[k] = SizesOf(all)[k]
    <3> TAKE k \in 1 .. n
    <3>1. k \in 1 .. Len(one) /\ k \in 1 .. Len(all)
      BY <1>7, <1>8, <1>9
    <3>2. one[k] = all[k]
      BY <1>8, <1>9
    <3>3. SizesOf(one)[k] = 2 + one[k][3]
      <4>1. \A x \in 1 .. Len(one) : SizesOf(one)[x] = 2 + one[x][3]
        BY <1>9, SizesFacts
      <4> QED BY <3>1, <4>1
    <3>4. SizesOf(all)[k] = 2 + all[k][3]
      <4>1. \A x \in 1 .. Len(all) : SizesOf(all)[x] = 2 + all[x][3]
        BY <1>8, SizesFacts
      <4> QED BY <3>1, <4>1
    <3> QED BY <3>2, <3>3, <3>4
  <2>2. /\ SizesOf(one) \in Seq(Nat) /\ SizesOf(all) \in Seq(Nat)
        /\ n <= Len(SizesOf(one)) /\ n <= Len(SizesOf(all))
    BY <1>8, <1>9, SizesFacts
  <2>3. SumOf(SizesOf(one), n) = SumOf(SizesOf(all), n)
    BY <1>7, <2>1, <2>2, SumPrefix
  <2> QED BY <1>8, <1>9, <2>3, SizesFacts
<1>13. n \in 0 .. Len(all) /\ Used(all, n) < Space
  BY <1>7, <1>8, <1>10, <1>11, <1>12
<1>14. n <= Sent(all)
  BY <1>8, <1>13, SentFits
<1> QED BY <1>14 DEF n, all, i

\* One answer, to a request that asks for the objects of ids.
LEMMA PageFacts ==
  ASSUME NEW identity, IsIdentity(identity), NEW code, NEW oid,
         ObjectIds(identity, code, oid) \subseteq DOMAIN identity
  PROVE  LET ids == ObjectIds(identity, code, oid)
             page == Page(identity, code, oid)
         IN  /\ page.pdu <= MaxPdu /\ page.frame = page.pdu + RtuOverhead
             /\ page.objects \subseteq Pairs(identity, ids)
             /\ page.next = None => page.objects = Pairs(identity, ids)
             /\ page.next # None =>
                  /\ page.next \in ids /\ Min(ids) \in ids /\ Min(ids) < page.next
                  /\ Pairs(identity, {i \in ids : i < page.next}) \subseteq page.objects
<1> DEFINE ids == ObjectIds(identity, code, oid)
           page == Page(identity, code, oid)
           objects == Objects(identity, ids)
           sent == Sent(objects)
           D(i) == DOMAIN ValuesOf(identity, i)
<1>1. /\ DOMAIN identity \subseteq Nat /\ IsFiniteSet(DOMAIN identity)
      /\ \A j \in DOMAIN identity : identity[j] \in Seq(Nat)
  BY DEF IsIdentity
<1>2. ids \in SUBSET Nat /\ IsFiniteSet(ids) /\ \A i \in ids : identity[i] \in Seq(Nat)
  BY <1>1, FS_Subset
<1>3. Lists(identity, ids, objects)
  <2> HIDE DEF ids
  <2> QED BY <1>2, ObjectsListed
<1>4. page = [objects |-> {<<objects[k][1], objects[k][2]>> : k \in 1 .. sent},
              pdu |-> 7 + Used(objects, sent), frame |-> 10 + Used(objects, sent),
              next |-> IF sent < Len(objects) THEN objects[sent + 1][1] ELSE None]
  BY DEF Page
<1>5. ids # {} => Len(ObjectOf(identity, Min(ids))) <= sent
  BY FirstIsSent
<1> HIDE DEF ids, page, objects, D
<1>6. /\ objects \in Seq(Entries) /\ Len(objects) \in Nat
      /\ \A k \in 1 .. Len(objects) : objects[k][1] \in ids /\ objects[k][2] \in D(objects[k][1])
      /\ \A i \in ids : \A v \in D(i) :
           \E k \in 1 .. Len(objects) : objects[k][1] = i /\ objects[k][2] = v
      /\ \A k \in 1 .. Len(objects) : \A j \in 1 .. k : objects[j][1] <= objects[k][1]
      /\ ids # {} => \A k \in Len(ObjectOf(identity, Min(ids))) + 1 .. Len(objects) :
                       objects[k][1] # Min(ids)
  BY <1>3 DEF Lists, D
<1>7. /\ sent \in 0 .. Len(objects) /\ Used(objects, sent) \in Nat
      /\ Used(objects, sent) < Space
  BY <1>6, SentFits
<1> HIDE DEF sent
<1>8. page.pdu <= MaxPdu /\ page.frame = page.pdu + RtuOverhead
  BY <1>4, <1>7 DEF Space, MaxPdu, RtuOverhead
<1>9. page.objects \subseteq Pairs(identity, ids)
  <2> SUFFICES ASSUME NEW k \in 1 .. sent
               PROVE  <<objects[k][1], objects[k][2]>> \in Pairs(identity, ids)
    BY <1>4
  <2>1. objects[k][1] \in ids /\ objects[k][2] \in D(objects[k][1])
    BY <1>6, <1>7
  <2> QED BY <2>1, InPairs DEF D
<1>10. ASSUME NEW i \in ids, NEW v \in D(i), NEW k \in 1 .. sent,
              objects[k][1] = i, objects[k][2] = v
       PROVE  <<i, v>> \in page.objects
  BY <1>4, <1>10
<1>11. ASSUME page.next = None PROVE Pairs(identity, ids) \subseteq page.objects
  <2>1. sent = Len(objects)
    <3> SUFFICES ASSUME sent < Len(objects) PROVE FALSE
      BY <1>6, <1>7
    <3>1. objects[sent + 1][1] \in ids
      BY <1>6, <1>7
    <3>2. page.next = objects[sent + 1][1]
      BY <1>4
    <3> QED BY <1>2, <1>11, <3>1, <3>2, IdentitiesAssumption
  <2> SUFFICES ASSUME NEW pair \in Pairs(identity, ids) PROVE pair \in page.objects
    OBVIOUS
  <2>2. PICK i \in ids : \E v \in D(i) : pair = <<i, v>>
    BY OutOfPairs DEF D
  <2>3. PICK v \in D(i) : pair = <<i, v>>
    BY <2>2
  <2>4. PICK k \in 1 .. Len(objects) : objects[k][1] = i /\ objects[k][2] = v
    BY <1>6
  <2> QED BY <1>10, <2>1, <2>3, <2>4
<1>12. ASSUME page.next # None
       PROVE  /\ page.next \in ids /\ Min(ids) \in ids /\ Min(ids) < page.next
              /\ Pairs(identity, {i \in ids : i < page.next}) \subseteq page.objects
  <2>1. sent < Len(objects) /\ page.next = objects[sent + 1][1]
    BY <1>4, <1>12
  <2>2. sent + 1 \in 1 .. Len(objects)
    BY <1>6, <1>7, <2>1
  <2>3. page.next \in ids
    BY <1>6, <2>1, <2>2
  <2>4. Min(ids) \in ids /\ Min(ids) <= page.next
    BY <1>2, <2>3, MinExists
  <2>5. page.next # Min(ids)
    <3> DEFINE n == Len(ObjectOf(identity, Min(ids)))
    <3>1. n \in Nat
      BY <1>2, <2>4, ObjectFacts
    <3>2. n <= sent
      BY <1>5, <2>3
    <3>3. \A k \in n + 1 .. Len(objects) : objects[k][1] # Min(ids)
      BY <1>6, <2>3
    <3> HIDE DEF n
    <3>4. sent + 1 \in n + 1 .. Len(objects)
      BY <1>6, <1>7, <2>1, <3>1, <3>2
    <3> QED BY <2>1, <3>3, <3>4
  <2>6. Min(ids) < page.next
    <3>1. Min(ids) \in Nat /\ page.next \in Nat
      BY <1>2, <2>3, <2>4
    <3> QED BY <2>4, <2>5, <3>1
  <2>7. ASSUME NEW pair \in Pairs(identity, {i \in ids : i < page.next})
        PROVE  pair \in page.objects
    <3>0. PICK i \in {j \in ids : j < page.next} : \E v \in D(i) : pair = <<i, v>>
      BY OutOfPairs DEF D
    <3>1. PICK v \in D(i) : pair = <<i, v>>
      BY <3>0
    <3>2. PICK k \in 1 .. Len(objects) : objects[k][1] = i /\ objects[k][2] = v
      BY <1>6, <3>1
    <3>3. k \in 1 .. sent
      <4> SUFFICES ASSUME k > sent PROVE FALSE
        BY <1>6, <1>7, <3>2
      <4>1. sent + 1 \in 1 .. k
        BY <1>6, <1>7
      <4>2. objects[sent + 1][1] <= objects[k][1]
        BY <1>6, <4>1
      <4>3. i < page.next /\ page.next <= i /\ i \in Nat /\ page.next \in Nat
        BY <1>2, <2>1, <2>3, <3>1, <3>2, <4>2
      <4> QED BY <4>3
    <3> QED BY <1>10, <3>1, <3>2, <3>3
  <2> QED BY <2>3, <2>4, <2>6, <2>7
<1>13. page.next = None => page.objects = Pairs(identity, ids)
  BY <1>9, <1>11
<1> QED BY <1>8, <1>9, <1>12, <1>13 DEF page, ids

\* The objects that a client asks for from the first on, and those it asks for
\* when an answer has told it to go on with one of them.
LEMMA IdsFacts ==
  ASSUME NEW identity, IsIdentity(identity), NEW code \in 1 .. 3
  PROVE  LET all == ObjectIds(identity, code, 0)
         IN  /\ all \subseteq {i \in DOMAIN identity : identity[i] # <<>>}
             /\ \A next \in all : ObjectIds(identity, code, next) = {i \in all : i >= next}
<1>1. DOMAIN identity \subseteq Nat
  BY DEF IsIdentity
<1>2. CASE code = 1
  <2>1. \A oid : ObjectIds(identity, code, oid) =
                   {i \in DOMAIN identity : identity[i] # <<>> /\ i \in oid .. 2}
    BY <1>2 DEF ObjectIds
  <2> QED BY <1>1, <2>1
<1>3. CASE code # 1
  <2> DEFINE named == {i \in DOMAIN identity : identity[i] # <<>>}
             ids == IF code = 2 THEN 0 .. 6 ELSE DOMAIN identity \ 7 .. 127
  <2>1. \A oid : ObjectIds(identity, code, oid) =
                   IF oid \in named THEN {i \in named \cap ids : i >= oid} ELSE named \cap ids
    BY <1>3 DEF ObjectIds
  <2>2. named \subseteq Nat
    BY <1>1
  <2> HIDE DEF ids
  <2>3. ObjectIds(identity, code, 0) = named \cap ids
    BY <2>1, <2>2
  <2>4. \A next \in named \cap ids :
          ObjectIds(identity, code, next) = {i \in named \cap ids : i >= next}
    BY <2>1
  <2> QED BY <2>3, <2>4
<1> QED BY <1>2, <1>3

LEMMA AnyIds ==
  ASSUME NEW identity, NEW code \in 1 .. 3, NEW oid
  PROVE  ObjectIds(identity, code, oid) \subseteq DOMAIN identity
BY DEF ObjectIds

-----------------------------------------------------------------------------
(* A client that goes on where each answer tells it to.                    *)

\* What it has after k answers, if f is what it has after fewer.
WalkBody(identity, code, oid, f, k) ==
  IF k = 0 THEN [got |-> {}, next |-> oid]
  ELSE LET before == f[k - 1]
       IN IF before.next = None THEN before
          ELSE LET page == Page(identity, code, before.next)
               IN [got |-> before.got \cup page.objects, next |-> page.next]

LEMMA WalkExists ==
  ASSUME NEW identity, NEW code, NEW oid, NEW n \in Nat
  PROVE  \E f : f = [k \in 0 .. n |-> WalkBody(identity, code, oid, f, k)]
<1> DEFINE Body(f, k) == WalkBody(identity, code, oid, f, k)
           Upto(f, m) == \A k \in 0 .. m : f[k] = Body(f, k)
           N == {m \in Nat : m <= n => \E f : f = [k \in 0 .. n |-> f[k]] /\ Upto(f, m)}
<1>1. 0 \in N
  <2> DEFINE f == [k \in 0 .. n |-> [got |-> {}, next |-> oid]]
  <2>1. f = [k \in 0 .. n |-> f[k]] /\ Upto(f, 0)
    BY DEF WalkBody
  <2> HIDE DEF f, Upto
  <2> QED BY <2>1
<1>2. ASSUME NEW m \in N PROVE m + 1 \in N
  <2> SUFFICES ASSUME m + 1 <= n
               PROVE  \E f : f = [k \in 0 .. n |-> f[k]] /\ Upto(f, m + 1)
    OBVIOUS
  <2>1. PICK f : f = [k \in 0 .. n |-> f[k]] /\ Upto(f, m)
    <3> HIDE DEF Upto
    <3> QED OBVIOUS
  <2> DEFINE g == [k \in 0 .. n |-> IF k = m + 1 THEN Body(f, k) ELSE f[k]]
  <2> HIDE DEF Body
  <2>2. ASSUME NEW k \in 0 .. m + 1 PROVE g[k] = Body(g, k)
    <3>1. k # 0 => g[k - 1] = f[k - 1]
      OBVIOUS
    <3>2. g[k] = Body(f, k)
      <4>1. CASE k = m + 1
        BY <4>1
      <4>2. CASE k # m + 1
        <5>1. k \in 0 .. m /\ g[k] = f[k]
          BY <4>2
        <5> HIDE DEF g
        <5> QED BY <2>1, <5>1
      <4> QED BY <4>1, <4>2
    <3> HIDE DEF g
    <3> QED BY <3>1, <3>2 DEF Body, WalkBody
  <2>3. g = [k \in 0 .. n |-> g[k]]
    OBVIOUS
  <2> HIDE DEF g
  <2>4. Upto(g, m + 1)
    BY <2>2
  <2> HIDE DEF Upto
  <2> QED BY <2>3, <2>4
<1>3. n \in N
  <2>1. N \in SUBSET Nat
    OBVIOUS
  <2> HIDE DEF N
  <2> QED BY <1>1, <1>2, <2>1, SetInduction
<1>4. PICK f : f = [k \in 0 .. n |-> f[k]] /\ Upto(f, n)
  <2> HIDE DEF Upto
  <2> QED BY <1>3
<1>5. \A k \in 0 .. n : f[k] = WalkBody(identity, code, oid, f, k)
  BY <1>4
<1>6. f = [k \in 0 .. n |-> WalkBody(identity, code, oid, f, k)]
  <2> HIDE DEF Upto
  <2> QED BY <1>4, <1>5
<1> QED BY <1>6

\* It has everything, or has all but what it asks for next, which is less from
\* answer to answer.
WalkGoesOn(identity, code, walk, k) ==
  LET all == ObjectIds(identity, code, 0)
      rest == ObjectIds(identity, code, walk.next)
  IN IF walk.next = None THEN walk.got = Pairs(identity, all)
     ELSE /\ rest \subseteq all /\ \A i \in all, j \in rest : i >= j => i \in rest
          /\ Pairs(identity, all \ rest) \subseteq walk.got
          /\ walk.got \subseteq Pairs(identity, all)
          /\ k # 0 => walk.next \in rest
          /\ Cardinality(rest) <= Cardinality(DOMAIN identity) - k

LEMMA NextAnswer ==
  ASSUME NEW identity, IsIdentity(identity), NEW code \in 1 .. 3, NEW walk, NEW k \in Nat,
         walk.next # None, WalkGoesOn(identity, code, walk, k)
  PROVE  LET page == Page(identity, code, walk.next)
         IN  WalkGoesOn(identity, code,
                        [got |-> walk.got \cup page.objects, next |-> page.next], k + 1)
<1> DEFINE all == ObjectIds(identity, code, 0)
           rest == ObjectIds(identity, code, walk.next)
           page == Page(identity, code, walk.next)
           left == ObjectIds(identity, code, page.next)
           new == [got |-> walk.got \cup page.objects, next |-> page.next]
           card == Cardinality(DOMAIN identity)
           P(ids) == Pairs(identity, ids)
<1>1. /\ rest \subseteq all /\ \A i \in all, j \in rest : i >= j => i \in rest
      /\ P(all \ rest) \subseteq walk.got /\ walk.got \subseteq P(all)
      /\ Cardinality(rest) <= card - k
  BY DEF WalkGoesOn
<1>2. /\ DOMAIN identity \subseteq Nat /\ IsFiniteSet(DOMAIN identity)
      /\ all \subseteq DOMAIN identity
  BY AnyIds DEF IsIdentity
<1>3. \A next \in all : ObjectIds(identity, code, next) = {i \in all : i >= next}
  BY IdsFacts
<1>4. /\ page.objects \subseteq P(rest)
      /\ page.next = None => page.objects = P(rest)
      /\ page.next # None =>
           /\ page.next \in rest /\ Min(rest) \in rest /\ Min(rest) < page.next
           /\ P({i \in rest : i < page.next}) \subseteq page.objects
  BY AnyIds, PageFacts
<1>5. \A some, others : some \subseteq others => P(some) \subseteq P(others)
  BY DEF Pairs
<1>6. \A some, others, more : some \subseteq others \cup more => P(some) \subseteq P(others) \cup P(more)
  BY DEF Pairs
<1>7. new.next = page.next /\ new.got = walk.got \cup page.objects
  OBVIOUS
<1> HIDE DEF all, rest, page, P, new
<1>8. new.got \subseteq P(all)
  BY <1>1, <1>4, <1>5, <1>7
<1>9. CASE page.next = None
  <2>1. P(all) \subseteq P(all \ rest) \cup P(rest)
    <3>1. all \subseteq (all \ rest) \cup rest
      OBVIOUS
    <3> QED BY <1>6, <3>1
  <2>2. new.got = P(all)
    BY <1>1, <1>4, <1>7, <1>8, <1>9, <2>1
  <2> QED BY <1>7, <1>9, <2>2 DEF WalkGoesOn, all, P, new, page
<1>10. CASE page.next # None
  <2>1. page.next \in all /\ page.next \in rest
    BY <1>1, <1>4, <1>10
  <2>2. left = {i \in all : i >= page.next}
    BY <1>3, <2>1
  <2> HIDE DEF left
  <2>3. all \subseteq Nat /\ rest \subseteq Nat /\ page.next \in Nat
    BY <1>1, <1>2, <2>1
  <2>4. left \subseteq rest /\ page.next \in left /\ left \subseteq all
    <3>1. ASSUME NEW i \in left PROVE i \in rest
      <4>1. i \in all /\ i >= page.next
        BY <2>2
      <4> QED BY <1>1, <2>1, <4>1
    <3>2. page.next \in left
      BY <2>1, <2>2, <2>3
    <3> QED BY <2>2, <3>1, <3>2
  <2>5. \A i \in all, j \in left : i >= j => i \in left
    BY <2>2, <2>3
  <2>6. P(all \ left) \subseteq new.got
    <3> DEFINE upto == {i \in rest : i < page.next}
    <3>1. all \ left \subseteq (all \ rest) \cup upto
      <4> SUFFICES ASSUME NEW i \in all, i \notin left, i \in rest PROVE i \in upto
        OBVIOUS
      <4>1. ~(i >= page.next)
        BY <2>2
      <4>2. i < page.next
        BY <2>3, <4>1
      <4> QED BY <4>2
    <3>2. P(upto) \subseteq page.objects
      BY <1>4, <1>10
    <3> HIDE DEF upto
    <3>3. P(all \ left) \subseteq P(all \ rest) \cup P(upto)
      BY <1>6, <3>1
    <3> QED BY <1>1, <1>7, <3>2, <3>3
  <2>7. Cardinality(left) <= card - (k + 1)
    <3>1. IsFiniteSet(rest) /\ Cardinality(rest) \in Nat /\ card \in Nat
      <4>1. rest \in SUBSET DOMAIN identity
        BY <1>1, <1>2
      <4>2. IsFiniteSet(rest)
        BY <1>2, <4>1, FS_Subset
      <4> QED BY <1>2, <4>2, FS_CardinalityType
    <3>2. Min(rest) \in rest /\ Min(rest) < page.next /\ Min(rest) \in Nat
      BY <1>4, <1>10, <2>3
    <3>3. left \in SUBSET (rest \ {Min(rest)})
      BY <2>2, <2>3, <2>4, <3>2
    <3>4. /\ IsFiniteSet(rest \ {Min(rest)})
          /\ Cardinality(rest \ {Min(rest)}) = Cardinality(rest) - 1
      BY <3>1, <3>2, FS_RemoveElement
    <3>5. IsFiniteSet(left) /\ Cardinality(left) <= Cardinality(rest) - 1
      BY <3>3, <3>4, FS_Subset
    <3>6. Cardinality(left) \in Nat
      BY <3>5, FS_CardinalityType
    <3> HIDE DEF card
    <3> QED BY <1>1, <3>1, <3>5, <3>6
  <2> QED
    BY <1>7, <1>8, <1>10, <2>4, <2>5, <2>6, <2>7 DEF WalkGoesOn, all, left, P, new, page
<1> QED BY <1>9, <1>10 DEF new, page

\* It ends with all of them, and after no more answers than there are objects.
LEMMA WalkEnds ==
  ASSUME NEW identity, IsIdentity(identity), NEW code \in 1 .. 3
  PROVE  Walked(identity, code, 0) =
           [got |-> Pairs(identity, ObjectIds(identity, code, 0)), next |-> None]
<1> DEFINE D == Cardinality(DOMAIN identity)
           all == ObjectIds(identity, code, 0)
           F == CHOOSE f : f = [k \in 0 .. D |-> WalkBody(identity, code, 0, f, k)]
           IsWalk(w) == w = [got |-> w.got, next |-> w.next]
           N == {k \in Nat : k <= D => IsWalk(F[k]) /\ WalkGoesOn(identity, code, F[k], k)}
<1>1. /\ IsFiniteSet(DOMAIN identity) /\ D \in Nat /\ D # 0
      /\ all \in SUBSET DOMAIN identity
  BY AnyIds, FS_CardinalityType, FS_EmptySet DEF IsIdentity
<1>2. F = [k \in 0 .. D |-> WalkBody(identity, code, 0, F, k)]
  <2> HIDE DEF D
  <2> QED BY <1>1, WalkExists
<1>3. Walked(identity, code, 0) = F[D]
  BY DEF Walked, WalkBody
<1> HIDE DEF F, D
<1>4. 0 \in N
  <2>1. F[0] = [got |-> {}, next |-> 0]
    BY <1>1, <1>2 DEF WalkBody
  <2>2. F[0].got = {} /\ F[0].next = 0 /\ 0 # None
    BY <2>1, IdentitiesAssumption
  <2>3. Pairs(identity, all \ all) = {}
    BY DEF Pairs
  <2>4. Cardinality(all) <= D
    BY <1>1, FS_Subset DEF D
  <2>5. 0 <= D /\ D - 0 = D
    BY <1>1
  <2>6. WalkGoesOn(identity, code, F[0], 0)
    BY <2>2, <2>3, <2>4, <2>5 DEF WalkGoesOn, D
  <2> QED BY <2>1, <2>6
<1>5. ASSUME NEW k \in N PROVE k + 1 \in N
  <2> SUFFICES ASSUME k + 1 <= D
               PROVE  IsWalk(F[k + 1]) /\ WalkGoesOn(identity, code, F[k + 1], k + 1)
    OBVIOUS
  <2>1. IsWalk(F[k]) /\ WalkGoesOn(identity, code, F[k], k)
    BY <1>1
  <2>2. k + 1 \in 0 .. D /\ k + 1 # 0 /\ (k + 1) - 1 = k
    BY <1>1
  <2> DEFINE page == Page(identity, code, F[k].next)
  <2>3. F[k + 1] = IF F[k].next = None THEN F[k]
                   ELSE [got |-> F[k].got \cup page.objects, next |-> page.next]
    BY <1>2, <2>2 DEF WalkBody
  <2>4. CASE F[k].next = None
    <3>1. WalkGoesOn(identity, code, F[k], k + 1)
      BY <2>1, <2>4 DEF WalkGoesOn
    <3> QED BY <2>1, <2>3, <2>4, <3>1
  <2>5. CASE F[k].next # None
    BY <2>1, <2>3, <2>5, NextAnswer
  <2> QED BY <2>4, <2>5
<1>6. IsWalk(F[D]) /\ WalkGoesOn(identity, code, F[D], D)
  <2>1. N \in SUBSET Nat
    OBVIOUS
  <2>2. D \in N
    <3> HIDE DEF N
    <3> QED BY <1>1, <1>4, <1>5, <2>1, SetInduction
  <2> QED BY <1>1, <2>2
<1>7. F[D].next = None
  <2> SUFFICES ASSUME F[D].next # None PROVE FALSE
    OBVIOUS
  <2> DEFINE rest == ObjectIds(identity, code, F[D].next)
  <2>1. F[D].next \in rest /\ rest \subseteq all /\ Cardinality(rest) <= D - D
    BY <1>1, <1>6 DEF WalkGoesOn, D
  <2> HIDE DEF rest
  <2>2. IsFiniteSet(rest)
    BY <1>1, <2>1, FS_Subset
  <2>3. Cardinality(rest) = 0
    BY <1>1, <2>1, <2>2, FS_CardinalityType
  <2> QED BY <2>1, <2>2, <2>3, FS_EmptySet
<1>8. F[D].got = Pairs(identity, all)
  BY <1>6, <1>7 DEF WalkGoesOn
<1> QED BY <1>3, <1>6, <1>7, <1>8

-----------------------------------------------------------------------------
(* What a client ends with.                                                *)

LEMMA GetLength ==
  ASSUME NEW s, NEW fc, fc \notin {5, 6}, NEW a, NEW n \in Nat, GetValues(s, fc, a, n).code = 0
  PROVE  Len(GetValues(s, fc, a, n).vals) = n
<1> DEFINE got == GetValues(s, fc, a, n)
<1>1. ASSUME NEW f, f = [k \in 1 .. n |-> f[k]] PROVE Len(f) = n
  BY <1>1
<1>2. CASE s.kind = "remote"
  <2>1. got = RemoteValidate(s, fc, a, n)
    BY <1>2 DEF GetValues, RemoteGet
  <2> HIDE DEF got
  <2>2. got.code = 0
    BY DEF got
  <2> DEFINE block == s.mem[TableOf(fc)]
  <2>3. got.vals = [k \in 1 .. n |-> block[a + k - 1]]
    BY <2>1, <2>2 DEF RemoteValidate, Result, SlaveFailure, IllegalAddress
  <2> HIDE DEF block
  <2> QED BY <2>3 DEF got
<1>3. CASE s.kind = "simulator"
  <2>1. got = SimulatorGet(s, fc, a, n)
    BY <1>3 DEF GetValues
  <2>2. PICK code, f, g :
          /\ f = [k \in 1 .. n |-> f[k]]
          /\ SimulatorGet(s, fc, a, n) = Result(code, IF code = 0 THEN f ELSE <<>>, g)
    BY DEF SimulatorGet
  <2> HIDE DEF got
  <2>3. got.code = 0
    BY DEF got
  <2>4. got.vals = f
    BY <2>1, <2>2, <2>3 DEF Result
  <2> QED BY <1>1, <2>2, <2>4 DEF got
<1>4. CASE s.kind \notin {"remote", "simulator"}
  <2> DEFINE f == [k \in 1 .. n |-> s.mem[TableOf(fc)][BlockAddress(s, a) + k - 1]]
  <2>1. got.vals = f
    BY <1>4 DEF GetValues, BlockGet, Result
  <2>2. f = [k \in 1 .. n |-> f[k]]
    OBVIOUS
  <2> HIDE DEF f
  <2> QED BY <1>1, <2>1, <2>2
<1> QED BY <1>2, <1>3, <1>4

LEMMA SentAsItIs ==
  ASSUME NEW result, "code" \in DOMAIN result, Sendable(result).code = 0
  PROVE  Sendable(result) = result
BY DEF Sendable, Unsendable

LEMMA CallsResult ==
  ASSUME NEW s, NEW fc, NEW a, NEW n
  PROVE  "code" \in DOMAIN Validate(s, fc, a, n) /\ "code" \in DOMAIN GetValues(s, fc, a, n)
<1>1. \A code, some, other : "code" \in DOMAIN Result(code, some, other)
  BY DEF Result
<1>2. "code" \in DOMAIN RemoteValidate(s, fc, a, n)
  BY <1>1 DEF RemoteValidate
<1>3. "code" \in DOMAIN SimulatorGet(s, fc, a, n)
  BY <1>1 DEF SimulatorGet
<1> QED BY <1>1, <1>2, <1>3 DEF Validate, GetValues, RemoteGet, BlockGet

LEMMA SetResult ==
  ASSUME NEW s, NEW fc, NEW a, NEW vals
  PROVE  "code" \in DOMAIN SetValues(s, fc, a, vals)
<1>1. \A code, some, other : "code" \in DOMAIN Result(code, some, other)
  BY DEF Result
<1>2. "code" \in DOMAIN SimulatorSet(s, fc, a, vals)
  BY <1>1 DEF SimulatorSet
<1> QED BY <1>1, <1>2 DEF SetValues, BlockSet

\* An answer with registers carries as many as were asked for.
LEMMA AnsweredInFull ==
  ASSUME NEW r \in Requests, r.fc \in {3, 4, 23}, Executed(r).code = 0
  PROVE  Len(Executed(r).vals) = r.n
<1>1. Data(r).code = 0 /\ Executed(r).vals = Data(r).vals
  BY DEF Executed, IsDiagnostic
<1>2. r.n \in Nat
  BY RequestTypes
<1>3. Refused(IllegalValue).code # 0
  BY DEF Refused, Result, IllegalValue
<1>4. CASE r.fc \in {3, 4}
  <2> DEFINE valid == Validate(store, r.fc, r.a, r.n)
             got == GetValues(valid.store, r.fc, r.a, r.n)
  <2>1. Data(r) = ReadRegisters(r)
    BY <1>4 DEF Data
  <2>2. \/ ReadRegisters(r) = Refused(IllegalValue)
        \/ valid.code # 0 /\ ReadRegisters(r) = Sendable(valid)
        \/ valid.code = 0 /\ ReadRegisters(r) = Sendable(got)
    BY DEF ReadRegisters, Then
  <2>3. "code" \in DOMAIN valid /\ "code" \in DOMAIN got
    BY CallsResult
  <2>4. got.code = 0 => Len(got.vals) = r.n
    BY <1>2, <1>4, GetLength
  <2> HIDE DEF valid, got
  <2> QED BY <1>1, <1>3, <2>1, <2>2, <2>3, <2>4, SentAsItIs
<1>5. CASE r.fc = 23
  <2> DEFINE valid == Validate(store, 23, r.a, Len(r.vals))
             read == Validate(valid.store, 23, r.ra, r.n)
             set == SetValues(read.store, 23, r.a, r.vals)
             got == GetValues(set.store, 23, r.ra, r.n)
  <2>1. Data(r) = ReadWrite(r)
    BY <1>5 DEF Data
  <2>2. ReadWrite(r) # Refused(IllegalValue)
    BY <1>1, <1>3, <2>1
  <2>3. \/ valid.code # 0 /\ ReadWrite(r) = Sendable(valid)
        \/ read.code # 0 /\ ReadWrite(r) = Sendable(read)
        \/ set.code # 0 /\ ReadWrite(r) = Sendable(set)
        \/ ReadWrite(r) = Sendable(got)
    BY <2>2, ReadWriteCalls
  <2>4. /\ "code" \in DOMAIN valid /\ "code" \in DOMAIN read
        /\ "code" \in DOMAIN set /\ "code" \in DOMAIN got
    BY CallsResult, SetResult
  <2>5. got.code = 0 => Len(got.vals) = r.n
    BY <1>2, GetLength
  <2> HIDE DEF valid, read, set, got
  <2> QED BY <1>1, <2>1, <2>3, <2>4, <2>5, SentAsItIs
<1> QED BY <1>4, <1>5

\* The arithmetic of the decoders, and the walk over an identity.
LEMMA Decoded == AllDecoded
<1>1. \A fc \in {3, 4, 23}, n \in 0 .. 125 : RegistersDecoded(fc, n) = n
  BY AllRegisters
<1>2. \A n \in 0 .. 35 : RecordsDecoded(n) = n
  BY DEF RecordsDecoded, RangeLength
<1>3. QueueDecoded(0) = 0
  BY DEF QueueDecoded, RangeLength
<1>4. ASSUME NEW identity \in Identities, NEW code \in 1 .. 3
      PROVE  /\ Walked(identity, code, 0) =
                  [got |-> UNION {{i} \X (DOMAIN identity[i]) : i \in ObjectIds(identity, code, 0)},
                   next |-> None]
             /\ \A oid \in DOMAIN identity :
                  LET page == Page(identity, code, oid)
                  IN page.pdu <= MaxPdu /\ page.frame = page.pdu + RtuOverhead
  <2>1. IsIdentity(identity)
    BY IdentitiesAssumption
  <2> DEFINE all == ObjectIds(identity, code, 0)
  <2>2. \A i \in all : ValuesOf(identity, i) = identity[i]
    BY <2>1, IdsFacts DEF ValuesOf
  <2>3. Pairs(identity, all) = UNION {{i} \X (DOMAIN identity[i]) : i \in all}
    <3> HIDE DEF all
    <3> QED BY <2>2 DEF Pairs
  <2>4. Walked(identity, code, 0) = [got |-> Pairs(identity, all), next |-> None]
    BY <2>1, WalkEnds
  <2>5. ASSUME NEW oid \in DOMAIN identity
        PROVE  LET page == Page(identity, code, oid)
               IN page.pdu <= MaxPdu /\ page.frame = page.pdu + RtuOverhead
    BY <2>1, AnyIds, PageFacts
  <2> QED BY <2>3, <2>4, <2>5
<1> QED BY <1>1, <1>2, <1>3, <1>4 DEF AllDecoded

\* A client ends with all the device has for it: with as many words as it asked
\* for, whatever the store, and with every object of an identity, in however many
\* answers they come, if each fits one (decode() of the message classes, and
\* ReadDeviceInformationResponse.encode with the object it tells the client to
\* go on with).
THEOREM NothingIsLost == Spec => []NothingLost
<1>1. NothingLost
  <2>1. ASSUME NEW r \in Requests, r.fc \in {3, 4, 23}, Executed(r).code = 0
        PROVE  RegistersDecoded(r.fc, Len(Executed(r).vals)) = r.n
    <3>1. Len(Executed(r).vals) = r.n
      BY <2>1, AnsweredInFull
    <3>2. r.n \in Nat
      BY <2>1, RequestTypes
    <3> QED BY <2>1, <3>1, <3>2, AllRegisters
  <2> QED BY <2>1, Decoded DEF NothingLost
<1> QED BY <1>1, PTL DEF Spec
=============================================================================
