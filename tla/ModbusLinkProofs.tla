--------------------------- MODULE ModbusLinkProofs ---------------------------
(***************************************************************************)
(* What a poll may rely on, proved for every list of batches, any backlog  *)
(* of the device and any number of requests: over TCP every answer is the  *)
(* request's own; on a serial line it is, for a poll that began with       *)
(* nothing owed, and it always has the size that was asked for.  A poll    *)
(* that is answered in time and whole does not fail.                       *)
(***************************************************************************)
EXTENDS ModbusLink, SequenceTheorems, TLAPS

\* Where the driver is in its poll.
ControlInv ==
  /\ pc = "ask" => batch \in Batch
  /\ pc = "write" => batch = Len(Lengths) + 1 /\ ~failed
  /\ pc = "wait" /\ size # 0 => batch \in Batch /\ size = Lengths[batch]
  /\ pc = "wait" /\ size = 0 => ~failed

\* The bytes of the frames that have arrived.
FrameInv ==
  \A i \in DOMAIN buffer :
    /\ buffer[i].bytes <= buffer[i].upto
    /\ buffer[i].kind = "data" =>
         buffer[i].size # 0 /\ buffer[i].bytes = ReadBytes(buffer[i].size)
    /\ buffer[i].kind = "written" => buffer[i].size = 0

\* Nothing is on its way but the answer to the last request, if that.
OnlyLast ==
  /\ Len(owed) + Len(buffer) <= 1
  /\ \A i \in DOMAIN owed : owed[i].id = request /\ owed[i].size = size
  /\ \A i \in DOMAIN buffer : buffer[i].id = request /\ buffer[i].size = size

\* A connection that is not waited on carries nothing; nor, in a poll that
\* began so and has not failed, does the serial line.
QuietInv ==
  /\ transport = "tcp" /\ pc \in {"idle", "ask", "write"} =>
       owed = <<>> /\ buffer = <<>>
  /\ inSync /\ ~failed /\ pc \in {"ask", "write"} => owed = <<>>
  /\ pc = "wait" /\ (transport = "tcp" \/ (inSync /\ ~failed)) => OnlyLast

\* What a poll in step with the device has taken so far.
TakenInv ==
  inSync /\ ~failed =>
    /\ pc \in {"ask", "write"} =>
         \A b \in Batch : b < batch => taken[b] = request + 1 - batch + b
    /\ pc = "wait" /\ size # 0 =>
         \A b \in Batch : b < batch => taken[b] = request - batch + b

LinkInv == TypeOK /\ ControlInv /\ FrameInv /\ QuietInv /\ TakenInv

-----------------------------------------------------------------------------
\* The batches, and where they are.
LEMMA LengthsFacts ==
  /\ Len(Lengths) \in Nat \ {0}
  /\ Batch = 1 .. Len(Lengths)
  /\ \A b \in Batch : Lengths[b] \in 1 .. 125
  BY LengthsAssumption, EmptySeq, LenProperties, ElementOfSeq DEF Batch

\* The records in the queues.
LEMMA RecordFacts ==
  /\ \A a \in Asked : a.id \in Nat /\ a.size \in 0 .. 125
  /\ \A id \in Nat, n \in 0 .. 125 : [id |-> id, size |-> n] \in Asked
  /\ \A f \in Arrived : /\ f.id \in Nat /\ f.size \in 0 .. 125 /\ f.kind \in Kind
                        /\ f.bytes \in Nat /\ f.upto \in Nat
  BY DEF Asked, Arrived

LEMMA QueueFacts ==
  ASSUME TypeOK
  PROVE  /\ Len(owed) \in Nat /\ \A i \in DOMAIN owed : owed[i] \in Asked
         /\ Len(buffer) \in Nat /\ \A i \in DOMAIN buffer : buffer[i] \in Arrived
         /\ DOMAIN owed = 1 .. Len(owed) /\ DOMAIN buffer = 1 .. Len(buffer)
         /\ buffer # <<>> => Len(buffer) # 0
         /\ owed # <<>> => Len(owed) # 0
  BY EmptySeq, LenProperties, ElementOfSeq DEF TypeOK

LEMMA InitInv == Init => LinkInv
<1> SUFFICES ASSUME Init PROVE LinkInv
  OBVIOUS
<1>1. TypeOK
  <2>1. owed \in Seq(Asked) /\ buffer \in Seq(Arrived)
    BY EmptySeq DEF Init
  <2>2. batch \in Batch /\ taken \in [Batch -> Nat]
    BY LengthsFacts DEF Init, NothingTaken
  <2>3. /\ pc = "idle" /\ size \in 0 .. 125
        /\ batch \in Batch \cup {Len(Lengths) + 1}
        /\ transport \in Transports
    BY <2>2 DEF Init
  <2>4. /\ request \in Nat /\ written \in Nat
        /\ up \in BOOLEAN /\ open \in BOOLEAN /\ noResponse \in BOOLEAN
        /\ failed \in BOOLEAN /\ inSync \in BOOLEAN /\ prompt \in BOOLEAN
    BY DEF Init
  <2> QED BY <2>1, <2>2, <2>3, <2>4 DEF TypeOK
<1>2. ControlInv /\ FrameInv /\ QuietInv /\ TakenInv
  BY DEF Init, ControlInv, FrameInv, QuietInv, TakenInv
<1> QED BY <1>1, <1>2 DEF LinkInv

\* Type correctness, in three parts.
DriverTypeOK ==
  /\ pc \in {"idle", "ask", "wait", "write", "ended"}
  /\ batch \in Batch \cup {Len(Lengths) + 1}
  /\ request \in Nat
  /\ size \in 0 .. 125
  /\ taken \in [Batch -> Nat]
  /\ failed \in BOOLEAN
  /\ written \in Nat

FlagsTypeOK ==
  /\ transport \in Transports
  /\ up \in BOOLEAN
  /\ open \in BOOLEAN
  /\ noResponse \in BOOLEAN
  /\ inSync \in BOOLEAN
  /\ prompt \in BOOLEAN

QueuesTypeOK == owed \in Seq(Asked) /\ buffer \in Seq(Arrived)

LEMMA TypeParts == TypeOK <=> DriverTypeOK /\ FlagsTypeOK /\ QueuesTypeOK
  BY DEF TypeOK, DriverTypeOK, FlagsTypeOK, QueuesTypeOK

\* The end of a batch, or of the write, keeps the driver's types.
LEMMA FinishTypes ==
  ASSUME DriverTypeOK, NEW got \in Nat, UNCHANGED <<request, size>>,
         EndWrite(got) \/ (batch \in Batch /\ NextBatch(got))
  PROVE  DriverTypeOK'
<1>1. CASE EndWrite(got)
  BY <1>1 DEF DriverTypeOK, EndWrite
<1>2. CASE batch \in Batch /\ NextBatch(got)
  <2>1. taken' \in [Batch -> Nat]
    BY <1>2 DEF DriverTypeOK, NextBatch
  <2>2. batch' \in Batch \cup {Len(Lengths) + 1}
    BY <1>2, LengthsFacts DEF NextBatch, Following
  <2>3. pc' \in {"idle", "ask", "wait", "write", "ended"}
    BY <1>2 DEF NextBatch, AfterPoll
  <2>4. failed' \in BOOLEAN /\ written' \in Nat
    BY <1>2 DEF NextBatch, DriverTypeOK
  <2> QED BY <2>1, <2>2, <2>3, <2>4 DEF DriverTypeOK
<1> QED BY <1>1, <1>2

LEMMA DriverTyping ==
  ASSUME TypeOK, ControlInv, [Next]_vars
  PROVE  DriverTypeOK'
<1>0. DriverTypeOK /\ QueuesTypeOK
  BY TypeParts
<1>1. CASE BeginPoll
  <2>1. batch' \in Batch /\ taken' \in [Batch -> Nat]
    BY <1>1, LengthsFacts DEF BeginPoll, NothingTaken
  <2> QED BY <1>0, <1>1, <2>1 DEF BeginPoll, DriverTypeOK
<1>2. CASE SkipWrite
  BY <1>0, <1>2, FinishTypes, 0 \in Nat DEF SkipWrite
<1>3. CASE CannotConnect
  BY <1>0, <1>3, FinishTypes, 0 \in Nat DEF CannotConnect, ControlInv
<1>4. CASE Send
  <2>1. size' \in 0 .. 125
    <3>1. CASE pc = "write"
      BY <1>4, <3>1 DEF Send
    <3>2. CASE pc = "ask"
      <4>1. Lengths[batch] \in 1 .. 125
        BY <3>2, LengthsFacts DEF ControlInv
      <4> QED BY <1>4, <3>2, <4>1 DEF Send
    <3> QED BY <1>4, <3>1, <3>2 DEF Send
  <2> QED BY <1>0, <1>4, <2>1 DEF Send, DriverTypeOK
<1>5. CASE Failure
  BY <1>0, <1>5, FinishTypes, 0 \in Nat DEF Failure, Finish, ControlInv
<1>6. CASE Accept
  <2>1. PICK k \in DOMAIN buffer :
          Finish(IF buffer[k].kind = "exception" \/ Truncated(buffer[k])
                 THEN 0 ELSE buffer[k].id)
    BY <1>6 DEF Accept
  <2>2. buffer[k].id \in Nat
    BY <2>1, QueueFacts, RecordFacts
  <2> DEFINE got == IF buffer[k].kind = "exception" \/ Truncated(buffer[k])
                    THEN 0 ELSE buffer[k].id
  <2>3. got \in Nat
    BY <2>2
  <2>4. Finish(got)
    BY <2>1
  <2>5. UNCHANGED <<request, size>> /\ pc = "wait"
    BY <1>6 DEF Accept
  <2> HIDE DEF got
  <2> QED BY <1>0, <2>3, <2>4, <2>5, FinishTypes DEF Finish, ControlInv
<1>7. CASE DecodeRaises
  BY <1>0, <1>7 DEF DecodeRaises, DriverTypeOK
<1>8. CASE AbruptClose
  BY <1>0, <1>8 DEF AbruptClose, DriverTypeOK
<1>9. CASE Restart
  BY <1>0, <1>9 DEF Restart, DriverTypeOK
<1>10. CASE Answer \/ Garble \/ ChangeDevice \/ UNCHANGED vars
  BY <1>0, <1>10 DEF Answer, Garble, ChangeDevice, vars, driverVars, DriverTypeOK
<1> QED
  BY <1>1, <1>2, <1>3, <1>4, <1>5, <1>6, <1>7, <1>8, <1>9, <1>10 DEF Next, Driver

LEMMA FlagsTyping ==
  ASSUME TypeOK, [Next]_vars
  PROVE  FlagsTypeOK'
<1>0. FlagsTypeOK
  BY TypeParts
<1>1. CASE BeginPoll \/ SkipWrite \/ CannotConnect \/ Send
  BY <1>0, <1>1 DEF BeginPoll, SkipWrite, CannotConnect, Send, clientVars,
       deviceVars, historyVars, FlagsTypeOK
<1>2. CASE Failure \/ Accept \/ DecodeRaises \/ AbruptClose \/ Restart
  BY <1>0, <1>2 DEF Failure, Accept, Consume, DecodeRaises, AbruptClose, Restart,
       Close, clientVars, deviceVars, historyVars, FlagsTypeOK
<1>3. CASE Answer \/ Garble \/ ChangeDevice \/ UNCHANGED vars
  BY <1>0, <1>3 DEF Answer, Garble, ChangeDevice, vars, driverVars, clientVars,
       deviceVars, historyVars, FlagsTypeOK
<1> QED BY <1>1, <1>2, <1>3 DEF Next, Driver

\* The bytes of frames.
LEMMA BytesFacts ==
  ASSUME TypeOK
  PROVE  /\ MinBytes \in Nat \ {0}
         /\ ExceptionBytes \in Nat /\ WriteBytes \in Nat
         /\ \A n \in 0 .. 125 : ReadBytes(n) \in Nat /\ ReadBytes(n) >= ExceptionBytes
         /\ \A m, n \in 0 .. 125 : ReadBytes(m) <= ReadBytes(n) => m <= n
         /\ Received \in Nat
         /\ \A asked \in Asked, kind \in Kind : AnswerBytes(asked, kind) \in Nat
<1>1. FrameBytes \in {3, 7}
  BY DEF FrameBytes
<1>2. /\ ExceptionBytes \in Nat /\ WriteBytes \in Nat
      /\ \A n \in 0 .. 125 : ReadBytes(n) \in Nat /\ ReadBytes(n) >= ExceptionBytes
      /\ \A m, n \in 0 .. 125 : ReadBytes(m) <= ReadBytes(n) => m <= n
  BY <1>1 DEF ExceptionBytes, WriteBytes, ReadBytes
<1>3. Received \in Nat
  <2>1. CASE buffer = <<>>
    BY <2>1 DEF Received
  <2>2. CASE buffer # <<>>
    <3>1. buffer[Len(buffer)] \in Arrived
      BY <2>2, QueueFacts
    <3>2. buffer[Len(buffer)].upto \in Nat
      BY <3>1, RecordFacts
    <3> QED BY <2>2, <3>2 DEF Received
  <2> QED BY <2>1, <2>2
<1>4. \A asked \in Asked, kind \in Kind : AnswerBytes(asked, kind) \in Nat
  BY <1>2 DEF AnswerBytes, Asked
<1>5. MinBytes \in Nat \ {0}
  BY DEF MinBytes
<1> QED BY <1>2, <1>3, <1>4, <1>5

\* A frame behind what has arrived.
LEMMA FrameTypes ==
  ASSUME TypeOK, NEW asked \in Asked, NEW kind \in Kind, NEW bytes \in Nat
  PROVE  Frame(asked, kind, bytes) \in Arrived
<1>1. Received \in Nat
  BY BytesFacts
<1>2. asked.id \in Nat /\ asked.size \in 0 .. 125
  BY RecordFacts
<1>3. Received + bytes \in Nat
  BY <1>1
<1> QED BY <1>2, <1>3 DEF Frame, Arrived

LEMMA QueuesTyping ==
  ASSUME TypeOK, ControlInv, [Next]_vars
  PROVE  QueuesTypeOK'
<1>0. QueuesTypeOK
  BY TypeParts
<1>1. CASE Send
  <2>1. size' \in 0 .. 125 /\ request' \in Nat
    BY <1>1, DriverTyping DEF DriverTypeOK
  <2>2. owed' \in Seq(Asked)
    <3>1. [id |-> request + 1, size |-> size'] \in Asked
      BY <1>1, <2>1, RecordFacts DEF Send
    <3>2. Append(owed, [id |-> request + 1, size |-> size']) \in Seq(Asked)
      BY <1>0, <3>1 DEF QueuesTypeOK
    <3> QED BY <1>0, <1>1, <3>2 DEF Send, QueuesTypeOK
  <2> QED BY <1>0, <1>1, <2>2, EmptySeq DEF Send, Flushed, QueuesTypeOK
<1>2. CASE Failure \/ AbruptClose \/ Restart
  BY <1>0, <1>2, EmptySeq DEF Failure, AbruptClose, Restart, Close, QueuesTypeOK
<1>3. CASE Accept
  BY <1>0, <1>3, EmptySeq DEF Accept, Consume, NothingRead, QueuesTypeOK
<1>4. CASE Answer
  <2>1. Head(owed) \in Asked /\ Tail(owed) \in Seq(Asked)
    BY <1>0, <1>4 DEF Answer, QueuesTypeOK
  <2>2. PICK kind \in Kind :
          buffer' = Append(buffer, Frame(Head(owed), kind, AnswerBytes(Head(owed), kind)))
    BY <1>4 DEF Answer
  <2>3. Frame(Head(owed), kind, AnswerBytes(Head(owed), kind)) \in Arrived
    BY <2>1, <2>2, BytesFacts, FrameTypes
  <2> QED BY <1>0, <1>4, <2>1, <2>2, <2>3 DEF Answer, QueuesTypeOK
<1>5. CASE Garble
  <2>1. Head(owed) \in Asked /\ Tail(owed) \in Seq(Asked)
    BY <1>0, <1>5 DEF Garble, QueuesTypeOK
  <2>2. \A bytes \in {MinBytes - 1, AnswerBytes(Head(owed), "data")} :
          Frame(Head(owed), "garbage", bytes) \in Arrived
    <3>1. "garbage" \in Kind /\ "data" \in Kind
      BY DEF Kind
    <3>2. MinBytes - 1 \in Nat /\ AnswerBytes(Head(owed), "data") \in Nat
      <4>1. MinBytes \in Nat \ {0}
        BY BytesFacts
      <4>2. AnswerBytes(Head(owed), "data") \in Nat
        BY <2>1, <3>1, BytesFacts
      <4> QED BY <4>1, <4>2
    <3> QED BY <2>1, <3>1, <3>2, FrameTypes
  <2>3. buffer' \in Seq(Arrived)
    <3>1. CASE buffer' = buffer
      BY <1>0, <3>1 DEF QueuesTypeOK
    <3>2. ASSUME NEW bytes \in {MinBytes - 1, AnswerBytes(Head(owed), "data")},
                 buffer' = Append(buffer, Frame(Head(owed), "garbage", bytes))
          PROVE  buffer' \in Seq(Arrived)
      BY <1>0, <2>2, <3>2 DEF QueuesTypeOK
    <3> QED BY <1>5, <3>1, <3>2 DEF Garble
  <2> QED BY <1>5, <2>1, <2>3 DEF Garble, QueuesTypeOK
<1>6. CASE ChangeDevice
  BY <1>0, <1>6, EmptySeq DEF ChangeDevice, QueuesTypeOK
<1>7. CASE BeginPoll \/ SkipWrite \/ CannotConnect \/ DecodeRaises \/ UNCHANGED vars
  BY <1>0, <1>7 DEF BeginPoll, SkipWrite, CannotConnect, DecodeRaises, vars,
       deviceVars, QueuesTypeOK
<1> QED BY <1>1, <1>2, <1>3, <1>4, <1>5, <1>6, <1>7 DEF Next, Driver

LEMMA TypingStep ==
  ASSUME TypeOK, ControlInv, [Next]_vars
  PROVE  TypeOK'
<1>1. DriverTypeOK' /\ FlagsTypeOK' /\ QueuesTypeOK'
  BY DriverTyping, FlagsTyping, QueuesTyping
<1> QED BY <1>1 DEF TypeOK, DriverTypeOK, FlagsTypeOK, QueuesTypeOK

\* The driver goes from batch to batch.
LEMMA FinishControl ==
  ASSUME TypeOK, NEW got \in Nat, UNCHANGED size,
         EndWrite(got) \/ (batch \in Batch /\ NextBatch(got))
  PROVE  ControlInv'
<1>1. CASE EndWrite(got)
  BY <1>1 DEF EndWrite, ControlInv
<1>2. CASE batch \in Batch /\ NextBatch(got)
  <2>1. batch \in 1 .. Len(Lengths) /\ Len(Lengths) \in Nat
    BY <1>2, LengthsFacts
  <2>2. CASE batch < Len(Lengths)
    <3>1. pc' = "ask" /\ batch' \in 1 .. Len(Lengths)
      BY <1>2, <2>1, <2>2 DEF NextBatch, Following
    <3> QED BY <3>1, LengthsFacts DEF ControlInv
  <2>3. CASE batch = Len(Lengths)
    <3>1. /\ pc' = AfterPoll(failed \/ got = 0) /\ failed' = (failed \/ got = 0)
          /\ batch' = Len(Lengths) + 1
      BY <1>2, <2>1, <2>3 DEF NextBatch, Following
    <3> QED BY <3>1 DEF AfterPoll, ControlInv
  <2> QED BY <2>1, <2>2, <2>3
<1> QED BY <1>1, <1>2

LEMMA ControlStep ==
  ASSUME TypeOK, ControlInv, [Next]_vars
  PROVE  ControlInv'
<1>1. CASE BeginPoll
  BY <1>1, LengthsFacts DEF BeginPoll, ControlInv
<1>2. CASE SkipWrite
  BY <1>2, FinishControl, 0 \in Nat DEF SkipWrite
<1>3. CASE CannotConnect
  BY <1>3, FinishControl, 0 \in Nat DEF CannotConnect, ControlInv
<1>4. CASE Send
  <2>1. CASE pc = "write"
    BY <1>4, <2>1 DEF Send, ControlInv
  <2>2. CASE pc = "ask"
    <3>1. batch \in Batch /\ Lengths[batch] # 0
      <4>1. batch \in Batch
        BY <2>2 DEF ControlInv
      <4>2. Lengths[batch] \in 1 .. 125
        BY <4>1, LengthsFacts
      <4> QED BY <4>1, <4>2
    <3>2. pc' = "wait" /\ batch' = batch /\ size' = Lengths[batch]
      BY <1>4, <2>2 DEF Send
    <3> QED BY <3>1, <3>2 DEF ControlInv
  <2> QED BY <1>4, <2>1, <2>2 DEF Send
<1>5. CASE Failure
  BY <1>5, FinishControl, 0 \in Nat DEF Failure, Finish, ControlInv
<1>6. CASE Accept
  <2>1. PICK k \in DOMAIN buffer :
          Finish(IF buffer[k].kind = "exception" \/ Truncated(buffer[k])
                 THEN 0 ELSE buffer[k].id)
    BY <1>6 DEF Accept
  <2>2. buffer[k].id \in Nat
    BY <2>1, QueueFacts, RecordFacts
  <2> DEFINE got == IF buffer[k].kind = "exception" \/ Truncated(buffer[k])
                    THEN 0 ELSE buffer[k].id
  <2>3. got \in Nat /\ Finish(got)
    BY <2>1, <2>2
  <2>4. UNCHANGED size /\ pc = "wait"
    BY <1>6 DEF Accept
  <2> HIDE DEF got
  <2> QED BY <2>3, <2>4, FinishControl DEF Finish, ControlInv
<1>7. CASE DecodeRaises \/ AbruptClose \/ Restart
  BY <1>7 DEF DecodeRaises, AbruptClose, Restart, ControlInv
<1>8. CASE Answer \/ Garble \/ ChangeDevice \/ UNCHANGED vars
  BY <1>8 DEF Answer, Garble, ChangeDevice, vars, driverVars, ControlInv
<1> QED
  BY <1>1, <1>2, <1>3, <1>4, <1>5, <1>6, <1>7, <1>8 DEF Next, Driver

\* What a frame appended behind the others has to be.
LEMMA AppendFrames ==
  ASSUME TypeOK, FrameInv, UNCHANGED transport,
         NEW asked \in Asked, NEW kind \in Kind, NEW bytes \in Nat,
         kind = "data" => asked.size # 0 /\ bytes = ReadBytes(asked.size),
         kind = "written" => asked.size = 0,
         buffer' = Append(buffer, Frame(asked, kind, bytes))
  PROVE  FrameInv'
<1> DEFINE f == Frame(asked, kind, bytes)
<1>1. buffer \in Seq(Arrived) /\ f \in Arrived
  BY FrameTypes DEF TypeOK
<1>2. /\ DOMAIN buffer' = 1 .. Len(buffer) + 1 /\ Len(buffer) \in Nat
      /\ \A i \in 1 .. Len(buffer) : buffer'[i] = buffer[i]
      /\ buffer'[Len(buffer) + 1] = f
  BY <1>1
<1>3. /\ f.bytes = bytes /\ f.upto = Received + bytes
      /\ f.kind = kind /\ f.size = asked.size
  BY DEF Frame
<1>4. f.bytes <= f.upto
  <2>1. Received \in Nat
    BY BytesFacts
  <2> QED BY <1>3, <2>1
<1>5. \A n : ReadBytes(n)' = ReadBytes(n)
  BY DEF ReadBytes, FrameBytes
<1>6. ASSUME NEW i \in DOMAIN buffer'
      PROVE  /\ buffer'[i].bytes <= buffer'[i].upto
             /\ buffer'[i].kind = "data" =>
                  buffer'[i].size # 0 /\ buffer'[i].bytes = ReadBytes(buffer'[i].size)
             /\ buffer'[i].kind = "written" => buffer'[i].size = 0
  <2>1. CASE i \in 1 .. Len(buffer)
    BY <1>2, <2>1, QueueFacts DEF FrameInv
  <2>2. CASE i = Len(buffer) + 1
    BY <1>2, <1>3, <1>4, <2>2
  <2> QED BY <1>2, <1>6, <2>1, <2>2
<1> QED BY <1>5, <1>6 DEF FrameInv, ReadBytes, FrameBytes

LEMMA FrameStep ==
  ASSUME TypeOK, FrameInv, [Next]_vars
  PROVE  FrameInv'
<1>1. UNCHANGED transport
  BY DEF Next, Driver, BeginPoll, SkipWrite, CannotConnect, Send, Failure, Accept,
         DecodeRaises, AbruptClose, Restart, Answer, Garble, ChangeDevice, vars
<1>2. CASE UNCHANGED buffer
  BY <1>1, <1>2 DEF FrameInv, ReadBytes, FrameBytes
<1>3. CASE buffer' = <<>>
  BY <1>3 DEF FrameInv
<1>4. CASE Answer
  <2>1. Head(owed) \in Asked
    BY <1>4 DEF Answer, TypeOK
  <2>2. PICK kind \in Kind \ {"garbage"} :
          /\ kind = "written" => Head(owed).size = 0
          /\ kind = "data" => Head(owed).size # 0
          /\ buffer' = Append(buffer, Frame(Head(owed), kind, AnswerBytes(Head(owed), kind)))
    BY <1>4 DEF Answer
  <2>3. AnswerBytes(Head(owed), kind) \in Nat
    BY <2>1, <2>2, BytesFacts
  <2>4. kind = "data" => AnswerBytes(Head(owed), kind) = ReadBytes(Head(owed).size)
    BY <2>2 DEF AnswerBytes
  <2> QED BY <1>1, <2>1, <2>2, <2>3, <2>4, AppendFrames
<1>5. CASE Garble
  <2>1. Head(owed) \in Asked
    BY <1>5 DEF Garble, TypeOK
  <2>2. "garbage" \in Kind /\ "data" \in Kind
    BY DEF Kind
  <2>3. \A bytes \in {MinBytes - 1, AnswerBytes(Head(owed), "data")} : bytes \in Nat
    <3>1. MinBytes \in Nat \ {0}
      BY BytesFacts
    <3>2. AnswerBytes(Head(owed), "data") \in Nat
      BY <2>1, <2>2, BytesFacts
    <3> QED BY <3>1, <3>2
  <2>4. ASSUME NEW bytes \in {MinBytes - 1, AnswerBytes(Head(owed), "data")},
               buffer' = Append(buffer, Frame(Head(owed), "garbage", bytes))
        PROVE  FrameInv'
    BY <1>1, <2>1, <2>2, <2>3, <2>4, AppendFrames
  <2> QED BY <1>2, <1>5, <2>4 DEF Garble
<1>6. CASE Accept /\ buffer' = Tail(buffer)
  <2>1. buffer # <<>> /\ buffer \in Seq(Arrived)
    BY <1>6 DEF Accept, NothingRead, TypeOK
  <2>2. /\ DOMAIN buffer' = 1 .. Len(buffer) - 1
        /\ \A i \in 1 .. Len(buffer) - 1 : buffer'[i] = buffer[i + 1]
    BY <1>6, <2>1
  <2>3. \A i \in 1 .. Len(buffer) - 1 : i + 1 \in DOMAIN buffer
    BY QueueFacts
  <2> QED BY <1>1, <2>2, <2>3 DEF FrameInv, ReadBytes, FrameBytes
<1>7. buffer' \in {buffer, <<>>} \/ Answer \/ Garble \/ (Accept /\ buffer' = Tail(buffer))
  <2>1. CASE BeginPoll \/ SkipWrite \/ CannotConnect \/ Send \/ DecodeRaises
    BY <2>1 DEF BeginPoll, SkipWrite, CannotConnect, Send, Flushed, DecodeRaises, deviceVars
  <2>2. CASE Failure \/ Accept \/ AbruptClose \/ Restart
    BY <2>2 DEF Failure, Accept, Consume, AbruptClose, Restart, Close
  <2>3. CASE ChangeDevice \/ UNCHANGED vars
    BY <2>3 DEF ChangeDevice, vars, deviceVars
  <2> QED BY <2>1, <2>2, <2>3 DEF Next, Driver
<1> QED BY <1>2, <1>3, <1>4, <1>5, <1>6, <1>7
\* The driver's part of each action, for what follows: it goes on from the
\* batch with what was got, which is 0 when the request failed.
LEMMA AcceptFacts ==
  ASSUME TypeOK, Accept
  PROVE  \E k \in DOMAIN buffer :
           /\ IsResponse(k)
           /\ size # 0 => buffer[k].kind # "written"
           /\ \E got \in {0, buffer[k].id} :
                /\ Finish(got)
                /\ got # 0 => buffer[k].kind # "exception" /\ ~Truncated(buffer[k])
  BY DEF Accept

LEMMA OnlyLastAppend ==
  ASSUME TypeOK, OnlyLast, owed # <<>>, UNCHANGED <<request, size>>,
         owed' = Tail(owed),
         NEW kind \in Kind, NEW bytes \in Nat,
         \/ buffer' = buffer
         \/ buffer' = Append(buffer, Frame(Head(owed), kind, bytes))
  PROVE  OnlyLast'
<1>1. Len(owed) = 1 /\ Len(buffer) = 0
  BY QueueFacts DEF OnlyLast
<1>2. owed \in Seq(Asked) /\ buffer = <<>>
  BY <1>1, QueueFacts DEF TypeOK
<1>3. Len(owed') = 0 /\ DOMAIN owed' = {}
  BY <1>1, <1>2
<1>4. Head(owed).id = request /\ Head(owed).size = size
  <2>1. Head(owed) = owed[1] /\ 1 \in DOMAIN owed
    BY <1>1, <1>2
  <2> QED BY <2>1 DEF OnlyLast
<1> DEFINE f == Frame(Head(owed), kind, bytes)
<1>5. f.id = request /\ f.size = size
  BY <1>4 DEF Frame
<1> HIDE DEF f
<1>6. CASE buffer' = buffer
  BY <1>2, <1>3, <1>6 DEF OnlyLast
<1>7. CASE buffer' = Append(buffer, f)
  <2>1. buffer' = <<f>>
    BY <1>2, <1>7
  <2>2. Len(buffer') = 1 /\ DOMAIN buffer' = {1} /\ buffer'[1] = f
    BY <2>1
  <2> QED BY <1>3, <1>5, <2>2 DEF OnlyLast
<1> QED BY <1>6, <1>7 DEF f

\* The end of a batch that got nothing, and the end of a write: no claim on
\* the line is left.
LEMMA FinishQuiet ==
  ASSUME TypeOK, UNCHANGED <<transport, inSync>>,
         EndWrite(0) \/ NextBatch(0),
         transport = "tcp" => owed' = <<>> /\ buffer' = <<>>
  PROVE  QuietInv'
<1>1. pc' # "wait"
  BY DEF EndWrite, NextBatch, AfterPoll
<1>2. pc' \in {"ask", "write"} => failed'
  BY DEF EndWrite, NextBatch, AfterPoll
<1> QED BY <1>1, <1>2 DEF QuietInv

LEMMA QuietStep ==
  ASSUME TypeOK, ControlInv, QuietInv, [Next]_vars
  PROVE  QuietInv'
<1>1. CASE BeginPoll
  BY <1>1 DEF BeginPoll, QuietInv, deviceVars
<1>2. CASE SkipWrite
  BY <1>2, FinishQuiet DEF SkipWrite, historyVars, deviceVars, QuietInv
<1>3. CASE CannotConnect
  BY <1>3, FinishQuiet DEF CannotConnect, historyVars, deviceVars, QuietInv
<1>4. CASE Send
  <2>1. pc' = "wait" /\ transport' = transport /\ inSync' = inSync /\ failed' = failed
    BY <1>4 DEF Send, historyVars
  <2>2. buffer' = <<>> \/ transport = "tcp"
    <3>1. transport \in {"rtu", "tcp"}
      BY TransportsAssumption DEF TypeOK
    <3> QED BY <1>4, <3>1 DEF Send, Flushed
  <2>3. ASSUME transport = "tcp" \/ (inSync /\ ~failed)
        PROVE  OnlyLast'
    <3>1. owed = <<>>
      BY <1>4, <2>3 DEF Send, QuietInv
    <3>2. buffer' = <<>>
      BY <1>4, <2>2 DEF Send, Flushed, QuietInv
    <3>3. owed' = <<>> \/ owed' = <<[id |-> request', size |-> size']>>
      BY <1>4, <3>1 DEF Send
    <3>4. CASE owed' = <<>>
      BY <3>2, <3>4 DEF OnlyLast
    <3>5. CASE owed' = <<[id |-> request', size |-> size']>>
      <4>1. /\ Len(owed') = 1 /\ DOMAIN owed' = {1}
            /\ owed'[1].id = request' /\ owed'[1].size = size'
        BY <3>5
      <4> QED BY <3>2, <4>1 DEF OnlyLast
    <3> QED BY <3>3, <3>4, <3>5
  <2> QED BY <2>1, <2>3 DEF QuietInv
<1>5. CASE Failure
  <2>1. UNCHANGED <<transport, inSync>> /\ (EndWrite(0) \/ NextBatch(0))
    BY <1>5 DEF Failure, Finish
  <2>2. transport = "tcp" => owed' = <<>> /\ buffer' = <<>>
    BY <1>5 DEF Failure, Close
  <2> QED BY <2>1, <2>2, FinishQuiet
<1>6. CASE Accept
  <2>1. PICK k \in DOMAIN buffer : \E got \in {0, buffer[k].id} : Finish(got)
    BY <1>6, AcceptFacts
  <2>2. /\ UNCHANGED <<transport, inSync, owed>> /\ pc = "wait"
        /\ buffer' = Tail(buffer) \/ buffer' = <<>>
    BY <1>6 DEF Accept, Consume, historyVars
  <2>3. pc' # "wait"
    BY <2>1 DEF Finish, EndWrite, NextBatch, AfterPoll
  <2>4. ~failed' => ~failed
    BY <2>1 DEF Finish, EndWrite, NextBatch
  <2>5. ASSUME OnlyLast PROVE owed' = <<>> /\ buffer' = <<>>
    <3>1. Len(buffer) = 1 /\ Len(owed) = 0
      BY <2>1, <2>5, QueueFacts DEF OnlyLast
    <3>2. owed = <<>> /\ Tail(buffer) = <<>>
      <4>1. owed = <<>>
        BY <3>1, QueueFacts
      <4>2. Tail(buffer) \in Seq(Arrived) /\ Len(Tail(buffer)) = 0
        <5>1. buffer \in Seq(Arrived)
          BY DEF TypeOK
        <5>2. buffer # <<>>
          BY <2>1
        <5> QED BY <3>1, <5>1, <5>2, HeadTailProperties
      <4> QED BY <4>1, <4>2, EmptySeq
    <3> QED BY <2>2, <3>2
  <2> QED BY <2>2, <2>3, <2>4, <2>5 DEF QuietInv
<1>7. CASE DecodeRaises
  BY <1>7 DEF DecodeRaises, QuietInv
<1>8. CASE AbruptClose
  BY <1>8 DEF AbruptClose, QuietInv
<1>9. CASE Restart
  BY <1>9 DEF Restart, Close, QuietInv
<1>10. CASE Answer \/ Garble
  <2>1. /\ owed # <<>> /\ owed' = Tail(owed)
        /\ UNCHANGED <<transport, inSync, failed, pc, request, size>>
    BY <1>10 DEF Answer, Garble, driverVars
  <2>2. ASSUME OnlyLast PROVE OnlyLast'
    <3>1. Head(owed) \in Asked
      BY <2>1 DEF TypeOK
    <3>2. CASE Answer
      <4>1. PICK kind \in Kind \ {"garbage"} :
              buffer' = Append(buffer, Frame(Head(owed), kind, AnswerBytes(Head(owed), kind)))
        BY <3>2 DEF Answer
      <4>2. AnswerBytes(Head(owed), kind) \in Nat
        BY <3>1, <4>1, BytesFacts
      <4> QED BY <2>1, <2>2, <4>1, <4>2, OnlyLastAppend
    <3>3. CASE Garble
      <4>1. "garbage" \in Kind /\ "data" \in Kind
        BY DEF Kind
      <4>2. MinBytes - 1 \in Nat
        <5>1. MinBytes \in Nat \ {0}
          BY BytesFacts
        <5> QED BY <5>1
      <4>3. AnswerBytes(Head(owed), "data") \in Nat
        BY <3>1, <4>1, BytesFacts
      <4>4. PICK bytes \in Nat : \/ buffer' = buffer
                                 \/ buffer' = Append(buffer, Frame(Head(owed), "garbage", bytes))
        BY <3>3, <4>2, <4>3 DEF Garble
      <4> QED BY <2>1, <2>2, <4>1, <4>4, OnlyLastAppend
    <3> QED BY <1>10, <3>2, <3>3
  <2> QED BY <2>1, <2>2 DEF QuietInv
<1>11. CASE ChangeDevice
  <2>1. UNCHANGED <<transport, inSync, failed, pc, request, size, buffer>> /\ owed' \in {owed, <<>>}
    BY <1>11 DEF ChangeDevice, driverVars
  <2>2. ASSUME OnlyLast PROVE OnlyLast'
    <3>1. CASE owed' = owed
      BY <2>1, <2>2, <3>1 DEF OnlyLast
    <3>2. CASE owed' = <<>>
      BY <2>1, <2>2, <3>2, QueueFacts DEF OnlyLast
    <3> QED BY <2>1, <3>1, <3>2
  <2> QED BY <2>1, <2>2 DEF QuietInv
<1>12. CASE UNCHANGED vars
  BY <1>12 DEF vars, driverVars, deviceVars, historyVars, QuietInv, OnlyLast
<1> QED
  BY <1>1, <1>2, <1>3, <1>4, <1>5, <1>6, <1>7, <1>8, <1>9, <1>10, <1>11, <1>12
     DEF Next, Driver
LEMMA TakenStep ==
  ASSUME TypeOK, ControlInv, QuietInv, TakenInv, [Next]_vars
  PROVE  TakenInv'
<1>0. /\ Batch = 1 .. Len(Lengths) /\ Len(Lengths) \in Nat
      /\ request \in Nat /\ batch \in 1 .. Len(Lengths) + 1
  BY LengthsFacts DEF TypeOK
<1>1. CASE BeginPoll
  <2>1. batch' = 1 /\ pc' = "ask"
    BY <1>1 DEF BeginPoll
  <2> QED BY <1>0, <2>1 DEF TakenInv
<1>2. CASE SkipWrite
  BY <1>2 DEF SkipWrite, EndWrite, TakenInv
<1>3. CASE CannotConnect
  <2>1. EndWrite(0) \/ NextBatch(0)
    BY <1>3 DEF CannotConnect
  <2>2. pc' = "idle" \/ failed'
    BY <2>1 DEF EndWrite, NextBatch
  <2> QED BY <2>2 DEF TakenInv
<1>4. CASE Send
  <2>1. /\ pc' = "wait" /\ request' = request + 1
        /\ UNCHANGED <<batch, taken, failed, inSync>>
        /\ pc \in {"ask", "write"}
    BY <1>4 DEF Send, historyVars
  <2> QED BY <1>0, <2>1 DEF TakenInv
<1>5. CASE Failure
  <2>1. EndWrite(0) \/ NextBatch(0)
    BY <1>5 DEF Failure, Finish
  <2>2. pc' = "idle" \/ failed'
    BY <2>1 DEF EndWrite, NextBatch
  <2> QED BY <2>2 DEF TakenInv
<1>6. CASE Accept
  <2>1. /\ pc = "wait" /\ UNCHANGED <<request, size, inSync>>
    BY <1>6 DEF Accept, historyVars
  <2>2. PICK k \in DOMAIN buffer : \E got \in {0, buffer[k].id} : Finish(got)
    BY <1>6, AcceptFacts
  <2>3. PICK got \in {0, buffer[k].id} : Finish(got)
    BY <2>2
  <2>4. CASE size = 0
    BY <2>3, <2>4 DEF Finish, EndWrite, TakenInv
  <2>5. CASE size # 0
    <3>1. /\ taken' = [taken EXCEPT ![batch] = got]
          /\ failed' = (failed \/ got = 0)
          /\ batch' = batch + 1
          /\ pc' # "wait"
      BY <2>3, <2>5 DEF Finish, NextBatch, Following, AfterPoll
    <3>2. SUFFICES ASSUME inSync, ~failed, got # 0, NEW b \in Batch, b < batch'
                   PROVE  taken'[b] = request' + 1 - batch' + b
      BY <2>1, <3>1 DEF TakenInv
    <3>3. got = request
      <4>1. OnlyLast
        BY <2>1, <3>2 DEF QuietInv
      <4> QED BY <2>2, <2>3, <3>2, <4>1 DEF OnlyLast
    <3>4. batch \in Batch /\ taken \in [Batch -> Nat]
      BY <2>1, <2>5 DEF ControlInv, TypeOK
    <3>5. CASE b = batch
      BY <1>0, <2>1, <3>1, <3>3, <3>4, <3>5
    <3>6. CASE b # batch
      <4>1. b < batch /\ taken'[b] = taken[b]
        BY <1>0, <3>1, <3>2, <3>4, <3>6
      <4>2. taken[b] = request - batch + b
        BY <2>1, <2>5, <3>2, <4>1 DEF TakenInv
      <4> QED BY <1>0, <2>1, <3>1, <4>1, <4>2
    <3> QED BY <3>5, <3>6
  <2> QED BY <2>4, <2>5
<1>7. CASE DecodeRaises \/ AbruptClose \/ Restart
  BY <1>7 DEF DecodeRaises, AbruptClose, Restart, TakenInv
<1>8. CASE Answer \/ Garble \/ ChangeDevice \/ UNCHANGED vars
  BY <1>8 DEF Answer, Garble, ChangeDevice, vars, driverVars, historyVars, TakenInv
<1> QED
  BY <1>1, <1>2, <1>3, <1>4, <1>5, <1>6, <1>7, <1>8 DEF Next, Driver

THEOREM LinkInvariant == Spec => []LinkInv
<1>1. ASSUME LinkInv, [Next]_vars PROVE LinkInv'
  BY <1>1, TypingStep, ControlStep, FrameStep, QuietStep, TakenStep DEF LinkInv
<1> QED BY InitInv, <1>1, PTL DEF Spec

\* Every variable keeps its type, whatever arrives and whenever.
THEOREM Typing == Spec => []TypeOK
<1>1. LinkInv => TypeOK
  BY DEF LinkInv
<1> QED BY LinkInvariant, <1>1, PTL

\* A poll of any number of batches that began with nothing owed, and got all of
\* them, got for each the answer to its own request: on a line without
\* transaction ids a late answer cannot get into it.
THEOREM InSyncOwn == Spec => []InSyncPollIsOwn
<1>1. LinkInv => InSyncPollIsOwn
  <2> SUFFICES ASSUME LinkInv, pc = "write", inSync, NEW b \in Batch
               PROVE  taken[b] = request - Len(Lengths) + b
    BY DEF InSyncPollIsOwn, OwnAnswers
  <2>1. batch = Len(Lengths) + 1 /\ ~failed
    BY DEF LinkInv, ControlInv
  <2>2. b \in 1 .. Len(Lengths) /\ Len(Lengths) \in Nat /\ request \in Nat
    BY LengthsFacts DEF LinkInv, TypeOK
  <2>3. taken[b] = request + 1 - batch + b
    BY <2>1, <2>2 DEF LinkInv, TakenInv
  <2> QED BY <2>1, <2>2, <2>3
<1> QED BY LinkInvariant, <1>1, PTL

\* Over TCP, where the client compares no identifier either, every answer taken
\* is that of the last request.
THEOREM TcpOwn == Spec => TcpTakesOwn
<1>1. ASSUME LinkInv, [Next]_vars
      PROVE  [transport = "tcp" /\ Accept =>
                \A k \in DOMAIN buffer : IsResponse(k) => buffer[k].id = request]_vars
  <2> SUFFICES ASSUME transport = "tcp", Accept, NEW k \in DOMAIN buffer
               PROVE  buffer[k].id = request
    OBVIOUS
  <2>1. OnlyLast
    BY <1>1 DEF Accept, LinkInv, QuietInv
  <2> QED BY <2>1 DEF OnlyLast
<1> QED BY LinkInvariant, <1>1, PTL DEF Spec, TcpTakesOwn

\* Whatever was late, lost or garbled, the registers a batch takes were read
\* for as many registers as it asked for.
THEOREM OwnSize == Spec => TakenHaveItsSize
<1>1. ASSUME LinkInv, [Next]_vars
      PROVE  [\A b \in Batch : taken'[b] \notin {0, taken[b]} =>
                \E k \in DOMAIN buffer : /\ buffer[k].id = taken'[b]
                                         /\ buffer[k].size = Lengths[b]]_vars
  <2> SUFFICES ASSUME NEW b \in Batch, taken'[b] \notin {0, taken[b]}
               PROVE  \E k \in DOMAIN buffer : /\ buffer[k].id = taken'[b]
                                               /\ buffer[k].size = Lengths[b]
    OBVIOUS
  <2>0. TypeOK /\ taken \in [Batch -> Nat]
    BY <1>1 DEF LinkInv, TypeOK
  <2>1. CASE BeginPoll
    BY <2>1 DEF BeginPoll, NothingTaken
  <2>2. ASSUME EndWrite(0) \/ NextBatch(0) PROVE FALSE
    <3>1. taken' = taken \/ taken' = [taken EXCEPT ![batch] = 0]
      BY <2>2 DEF EndWrite, NextBatch
    <3> QED BY <2>0, <3>1
  <2>3. CASE Accept
    <3>1. PICK k \in DOMAIN buffer :
            /\ IsResponse(k)
            /\ size # 0 => buffer[k].kind # "written"
            /\ \E got \in {0, buffer[k].id} :
                 /\ Finish(got)
                 /\ got # 0 => buffer[k].kind # "exception" /\ ~Truncated(buffer[k])
      BY <2>0, <2>3, AcceptFacts
    <3>2. PICK got \in {0, buffer[k].id} :
            /\ Finish(got)
            /\ got # 0 => buffer[k].kind # "exception" /\ ~Truncated(buffer[k])
      BY <3>1
    <3>3. size # 0 /\ taken' = [taken EXCEPT ![batch] = got]
      BY <3>2 DEF Finish, EndWrite, NextBatch
    <3>4. b = batch /\ got # 0 /\ taken'[b] = got /\ got = buffer[k].id
      BY <2>0, <3>2, <3>3
    <3>5. size = Lengths[b]
      BY <1>1, <2>3, <3>3, <3>4 DEF Accept, LinkInv, ControlInv
    <3>6. buffer[k].size = size
      <4>1. CASE transport = "tcp"
        <5>1. OnlyLast
          BY <1>1, <2>3, <4>1 DEF Accept, LinkInv, QuietInv
        <5> QED BY <5>1 DEF OnlyLast
      <4>2. CASE transport = "rtu"
        <5>1. buffer[k].kind = "data"
          <6>1. buffer[k].kind \in Kind /\ k \in 1 .. k
            <7>1. k \in DOMAIN buffer /\ DOMAIN buffer = 1 .. Len(buffer) /\ Len(buffer) \in Nat
              BY <2>0, <3>1, QueueFacts
            <7>2. buffer[k] \in Arrived
              BY <2>0, <3>1, QueueFacts
            <7>3. buffer[k].kind \in Kind
              BY <7>2, RecordFacts
            <7> QED BY <7>1, <7>3
          <6>2. buffer[k].kind # "garbage"
            BY <3>1, <6>1 DEF IsResponse, Answers
          <6> QED BY <3>1, <3>2, <3>3, <3>4, <6>1, <6>2 DEF Kind
        <5>2. buffer[k].bytes <= buffer[k].upto /\ buffer[k].bytes = ReadBytes(buffer[k].size)
          BY <1>1, <5>1 DEF LinkInv, FrameInv
        <5>3. buffer[k].upto <= Wanted
          BY <3>1, <4>2 DEF IsResponse, Answers, WithinRead
        <5>4. buffer[k].size \in 0 .. 125 /\ size \in 0 .. 125 /\ buffer[k].upto \in Nat
          BY <2>0, QueueFacts, RecordFacts DEF TypeOK
        <5>5. ReadBytes(size) \in Nat /\ ExceptionBytes \in Nat /\ ExceptionBytes <= ReadBytes(size)
          BY <2>0, <5>4, BytesFacts
        <5>6. Wanted \in Nat /\ Wanted <= ReadBytes(size)
          BY <3>3, <5>5 DEF Wanted, ExpectedBytes
        <5>7. ReadBytes(buffer[k].size) <= ReadBytes(size)
          <6>1. ReadBytes(buffer[k].size) \in Nat
            BY <2>0, <5>4, BytesFacts
          <6> HIDE DEF Wanted, ReadBytes
          <6> QED BY <5>2, <5>3, <5>4, <5>5, <5>6, <6>1
        <5>8. buffer[k].size <= size
          BY <2>0, <5>4, <5>7, BytesFacts
        <5> QED BY <3>2, <3>4, <5>4, <5>8 DEF Truncated
      <4> QED BY <2>0, <4>1, <4>2, TransportsAssumption DEF TypeOK
    <3> QED BY <3>4, <3>5, <3>6
  <2>4. CASE SkipWrite \/ CannotConnect \/ Failure
    BY <2>2, <2>4 DEF SkipWrite, CannotConnect, Failure, Finish
  <2>5. CASE UNCHANGED taken
    BY <2>5
  <2> QED
    BY <1>1, <2>1, <2>3, <2>4, <2>5 DEF Next, Driver, Send, DecodeRaises, AbruptClose,
       Restart, Answer, Garble, ChangeDevice, vars, driverVars
<1> QED BY LinkInvariant, <1>1, PTL DEF Spec, TakenHaveItsSize

\* In a poll that began with nothing owed, a write is only taken for done by
\* its own answer.
THEOREM WriteOwn == Spec => WriteIsOwn
<1>1. ASSUME LinkInv, [Next]_vars
      PROVE  [inSync /\ written' # written => written' \in {0, request}]_vars
  <2> SUFFICES ASSUME inSync, written' # written, written' # 0
               PROVE  written' = request
    OBVIOUS
  <2>1. Accept
    BY <1>1 DEF Next, Driver, BeginPoll, SkipWrite, CannotConnect, Send, Failure,
       Finish, EndWrite, NextBatch, DecodeRaises, AbruptClose, Restart, Answer,
       Garble, ChangeDevice, vars, driverVars
  <2>2. PICK k \in DOMAIN buffer : \E got \in {0, buffer[k].id} : Finish(got)
    BY <1>1, <2>1, AcceptFacts DEF LinkInv
  <2>3. PICK got \in {0, buffer[k].id} : Finish(got)
    BY <2>2
  <2>4. size = 0 /\ got = written'
    BY <2>3 DEF Finish, EndWrite, NextBatch
  <2>5. OnlyLast
    BY <1>1, <2>1, <2>4 DEF Accept, LinkInv, ControlInv, QuietInv
  <2> QED BY <2>2, <2>3, <2>4, <2>5 DEF OnlyLast
<1> QED BY LinkInvariant, <1>1, PTL DEF Spec, WriteIsOwn

-----------------------------------------------------------------------------
\* The answer that is waited for, whole.
RightAnswer(f) ==
  /\ f.id = request /\ f.size = size /\ f.upto = ExpectedBytes
  /\ f.kind = IF size = 0 THEN "written" ELSE "data"

\* While the device is prompt, the line carries nothing but the request that
\* is waited on, or its answer.
PromptInv ==
  prompt =>
    /\ up /\ ~failed /\ pc # "ended"
    /\ IF pc = "wait"
         THEN /\ request # 0
              /\ \/ owed = <<[id |-> request, size |-> size]>> /\ buffer = <<>>
                 \/ owed = <<>> /\ Len(buffer) = 1 /\ RightAnswer(buffer[1])
         ELSE owed = <<>>

\* The right answer is read, is the only response, and is no exception.
LEMMA RightFacts ==
  ASSUME TypeOK, Len(buffer) = 1, RightAnswer(buffer[1])
  PROVE  /\ ~NothingRead /\ Answers = {1} /\ ~Undecodable
         /\ buffer[1].kind # "exception" /\ ~Truncated(buffer[1])
         /\ Tail(buffer) = <<>>
<1>1. buffer \in Seq(Arrived) /\ DOMAIN buffer = {1} /\ buffer # <<>> /\ size \in 0 .. 125
      /\ transport \in {"rtu", "tcp"}
  <2>1. buffer \in Seq(Arrived) /\ size \in 0 .. 125 /\ transport \in {"rtu", "tcp"}
    BY TransportsAssumption DEF TypeOK
  <2>2. DOMAIN buffer = {1}
    BY QueueFacts
  <2>3. Len(<<>>) = 0
    OBVIOUS
  <2> QED BY <2>1, <2>2, <2>3
<1>2. buffer[1].kind \in {"data", "written"} /\ buffer[1].upto = ExpectedBytes
      /\ buffer[1].size = size /\ (size = 0 <=> buffer[1].kind = "written")
  BY DEF RightAnswer
<1>3. ExpectedBytes \in Nat /\ MinBytes <= ExpectedBytes /\ MinBytes \in Nat
  <2>1. ReadBytes(size) \in Nat /\ MinBytes <= ReadBytes(size) /\ MinBytes <= WriteBytes
        /\ WriteBytes \in Nat /\ MinBytes \in Nat
    BY <1>1 DEF ReadBytes, WriteBytes, MinBytes, FrameBytes
  <2> QED BY <2>1 DEF ExpectedBytes
<1>4. ~NothingRead
  <2>1. Received = ExpectedBytes
    BY <1>1, <1>2 DEF Received
  <2> QED BY <1>1, <1>3, <2>1 DEF NothingRead
<1>5. Answers = {1}
  <2>1. Wanted = ExpectedBytes
    BY <1>2 DEF Wanted
  <2>2. WithinRead(1)
    BY <1>1, <1>2, <1>3, <2>1 DEF WithinRead
  <2>3. \A j \in 1 .. 1 : buffer[j].kind # "garbage"
    BY <1>2
  <2> QED BY <1>1, <2>2, <2>3 DEF Answers
<1>6. ~Undecodable
  BY <1>1, <1>2 DEF Undecodable
<1>7. ~Truncated(buffer[1])
  BY <1>1, <1>2 DEF Truncated
<1>8. Tail(buffer) = <<>>
  <2>1. Tail(buffer) \in Seq(Arrived) /\ Len(Tail(buffer)) = 0
    BY <1>1, HeadTailProperties
  <2> QED BY <2>1, EmptySeq
<1> QED BY <1>2, <1>4, <1>5, <1>6, <1>7, <1>8

LEMMA PromptStep ==
  ASSUME TypeOK, ControlInv, QuietInv, PromptInv, [Next]_vars
  PROVE  PromptInv'
<1>0. /\ request \in Nat /\ size \in 0 .. 125 /\ up \in BOOLEAN /\ prompt \in BOOLEAN
      /\ transport \in {"rtu", "tcp"} /\ Backlog \in Nat \ {0}
      /\ failed \in BOOLEAN
  BY TransportsAssumption, BacklogAssumption DEF TypeOK
<1>1. CASE BeginPoll
  BY <1>1 DEF BeginPoll, PromptInv, deviceVars
<1>2. CASE SkipWrite
  BY <1>2 DEF SkipWrite, EndWrite, PromptInv, deviceVars, historyVars
<1>3. CASE CannotConnect
  BY <1>3 DEF CannotConnect, PromptInv, historyVars
<1>4. CASE Send
  <2> SUFFICES ASSUME prompt PROVE PromptInv'
    BY <1>4 DEF Send, PromptInv, historyVars
  <2>1. /\ pc \in {"ask", "write"} /\ pc' = "wait" /\ request' = request + 1
        /\ up /\ ~failed /\ owed = <<>> /\ UNCHANGED <<up, failed, prompt, transport>>
    BY <1>4 DEF Send, PromptInv, historyVars
  <2>2. buffer' = <<>>
    BY <1>0, <1>4, <2>1 DEF Send, Flushed, QuietInv
  <2>3. owed' = <<[id |-> request', size |-> size']>>
    BY <1>0, <1>4, <2>1 DEF Send
  <2> QED BY <1>0, <2>1, <2>2, <2>3 DEF PromptInv
<1>5. CASE Failure
  <2>1. prompt' => prompt /\ owed = <<>> /\ pc = "wait" /\ (Answers = {} \/ NothingRead)
    BY <1>5 DEF Failure
  <2>2. ~prompt'
    BY <2>1, RightFacts DEF PromptInv
  <2> QED BY <2>2 DEF PromptInv
<1>6. CASE Accept
  <2> SUFFICES ASSUME prompt PROVE PromptInv'
    BY <1>6 DEF Accept, PromptInv, historyVars
  <2>1. /\ pc = "wait" /\ ~NothingRead /\ UNCHANGED <<up, owed, prompt, request, size>>
    BY <1>6 DEF Accept, Consume, historyVars
  <2>2. /\ up /\ ~failed /\ request # 0
        /\ owed = <<>> /\ Len(buffer) = 1 /\ RightAnswer(buffer[1])
    BY <2>1 DEF PromptInv, NothingRead
  <2>3. PICK k \in DOMAIN buffer :
          /\ IsResponse(k)
          /\ Finish(IF buffer[k].kind = "exception" \/ Truncated(buffer[k])
                    THEN 0 ELSE buffer[k].id)
    BY <1>6 DEF Accept
  <2>4. k = 1
    BY <2>2, <2>3, RightFacts DEF IsResponse
  <2>5. Finish(request)
    BY <2>2, <2>3, <2>4, RightFacts DEF RightAnswer
  <2>6. pc' \notin {"wait", "ended"} /\ ~failed'
    BY <1>0, <2>2, <2>5, Zenon DEF Finish, EndWrite, NextBatch, AfterPoll
  <2> QED BY <2>1, <2>2, <2>6 DEF PromptInv
<1>7. CASE DecodeRaises
  <2>1. prompt => FALSE
    <3> SUFFICES ASSUME prompt PROVE FALSE
      OBVIOUS
    <3>1. pc = "wait" /\ ~NothingRead /\ Undecodable
      BY <1>7 DEF DecodeRaises
    <3>2. Len(buffer) = 1 /\ RightAnswer(buffer[1])
      BY <3>1 DEF PromptInv, NothingRead
    <3> QED BY <3>1, <3>2, RightFacts
  <2> QED BY <1>7, <2>1 DEF DecodeRaises, PromptInv, historyVars
<1>8. CASE AbruptClose \/ Restart \/ Garble \/ ChangeDevice
  BY <1>8 DEF AbruptClose, Restart, Garble, ChangeDevice, PromptInv
<1>9. CASE Answer
  <2> SUFFICES ASSUME prompt' PROVE PromptInv'
    BY DEF PromptInv
  <2>1. PICK kind \in Kind \ {"garbage"} :
          /\ kind = "written" => Head(owed).size = 0
          /\ kind = "data" => Head(owed).size # 0
          /\ buffer' = Append(buffer, Frame(Head(owed), kind, AnswerBytes(Head(owed), kind)))
          /\ prompt /\ kind # "exception"
    BY <1>9 DEF Answer
  <2>2. /\ owed # <<>> /\ up /\ owed' = Tail(owed) /\ UNCHANGED <<up, pc, failed, request, size, transport>>
    BY <1>9 DEF Answer, driverVars
  <2> DEFINE asked == [id |-> request, size |-> size]
  <2>3. pc = "wait" /\ owed = <<asked>> /\ buffer = <<>> /\ request # 0 /\ ~failed
    BY <2>1, <2>2 DEF PromptInv
  <2>4. Head(owed) = asked /\ Tail(owed) = <<>>
    BY <2>3
  <2>5. kind = IF size = 0 THEN "written" ELSE "data"
    BY <2>1, <2>4 DEF Kind
  <2>6. Received = 0
    BY <2>3 DEF Received
  <2>7. AnswerBytes(asked, kind) = ExpectedBytes /\ ExpectedBytes \in Nat
    BY <1>0, <2>5 DEF AnswerBytes, ExpectedBytes, ReadBytes, WriteBytes, FrameBytes
  <2> DEFINE f == Frame(asked, kind, AnswerBytes(asked, kind))
  <2>8. /\ f.id = request /\ f.size = size /\ f.upto = ExpectedBytes /\ f.kind = kind
    BY <2>6, <2>7 DEF Frame
  <2> HIDE DEF f
  <2>9. buffer' = <<f>>
    BY <2>1, <2>3, <2>4 DEF f
  <2>10. ExpectedBytes' = ExpectedBytes
    BY <2>2 DEF ExpectedBytes, ReadBytes, WriteBytes, FrameBytes
  <2>11. Len(buffer') = 1 /\ RightAnswer(buffer[1])'
    BY <2>2, <2>5, <2>8, <2>9, <2>10 DEF RightAnswer
  <2> QED BY <2>2, <2>3, <2>4, <2>11 DEF PromptInv
<1>10. CASE UNCHANGED vars
  <2>1. ExpectedBytes' = ExpectedBytes
    BY <1>10 DEF vars, driverVars, ExpectedBytes, ReadBytes, WriteBytes, FrameBytes
  <2> QED BY <1>10, <2>1 DEF vars, driverVars, deviceVars, historyVars, PromptInv, RightAnswer
<1> QED
  BY <1>1, <1>2, <1>3, <1>4, <1>5, <1>6, <1>7, <1>8, <1>9, <1>10 DEF Next, Driver

\* Whatever was late or lost before, a poll that begins with nothing owed, and is
\* answered in time and whole, gets all its batches and does not raise.
THEOREM PromptSucceeds == Spec => []PromptPollSucceeds
<1>1. Init => PromptInv
  BY DEF Init, PromptInv
<1>2. LinkInv /\ PromptInv /\ [Next]_vars => PromptInv'
  BY PromptStep DEF LinkInv
<1>3. PromptInv => PromptPollSucceeds
  BY DEF PromptInv, PromptPollSucceeds
<1> QED BY LinkInvariant, <1>1, <1>2, <1>3, PTL DEF Spec
=============================================================================
