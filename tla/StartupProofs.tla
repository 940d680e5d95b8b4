---------------------------- MODULE StartupProofs ----------------------------
(***************************************************************************)
(* Which driver is found, and when the port is given up, proved for every  *)
(* configuration, port and device, whatever tests are lost.                *)
(***************************************************************************)
EXTENDS Startup, SequenceTheorems, TLAPS

\* The drivers of this round that have been begun, and whether the test of one
\* of them is over.
Begun == Len(Candidates) - Len(left)
Over(j) == j < Begun \/ (j = Begun /\ driver = "none")

Typed ==
  /\ round \in 0 .. Rounds
  /\ left \in Seq(Name)
  /\ driver \in Name \cup {"none"}
  /\ clients \in Nat
  /\ failed \in [Name -> Nat]
  /\ lost \in BOOLEAN

\* Before the first round.
BeforeInv ==
  pc \in {"config", "port"} =>
    driver = "none" /\ clients = 0 /\ round = Rounds /\ failed = [d \in Name |-> 0]

\* In a round, the drivers before the one at hand have failed in this round too,
\* and each has left a client; the device's own among them had it been asked.
RoundInv ==
  pc = "try" =>
    /\ round # 0 /\ Len(left) <= Len(Candidates)
    /\ \A i \in 1 .. Len(left) : left[i] = Candidates[Begun + i]
    /\ driver # "none" => Begun # 0 /\ driver = Candidates[Begun]
    /\ \A j \in DOMAIN Candidates :
         /\ failed[Candidates[j]] = Rounds - round + (IF Over(j) THEN 1 ELSE 0)
         /\ Over(j) /\ Asks(Candidates[j]) /\ device = Serves(Candidates[j]) => lost
    /\ clients = IF type \in Synthetic THEN 0 ELSE (Rounds - round) * Len(Candidates) + Begun

\* Between the rounds, all have failed as often as there were rounds.
SleepInv ==
  pc = "sleep" =>
    /\ driver = "none"
    /\ \A j \in DOMAIN Candidates : failed[Candidates[j]] = Rounds - round
    /\ clients = IF type \in Synthetic THEN 0 ELSE (Rounds - round) * Len(Candidates)

StartupInv ==
  /\ Typed /\ BeforeInv /\ RoundInv /\ SleepInv
  /\ pc \in {"setup", "running"} => driver \in Name
  /\ RightDriver /\ GivesUpAfterThree

-----------------------------------------------------------------------------
\* No driver is twice among the candidates, and Solis is tried before Samlex.
Orderly(c) ==
  /\ c \in Seq(Name) /\ Len(c) \in 0 .. 2 /\ DOMAIN c = 1 .. Len(c)
  /\ \A j \in DOMAIN c : c[j] \in Name /\ (c[j] \in Synthetic <=> type \in Synthetic)
  /\ \A j, k \in DOMAIN c : c[j] = c[k] => j = k
  /\ \A j, k \in DOMAIN c : Serves(c[j]) = "Solis" /\ Serves(c[k]) = "Samlex" => j < k

LEMMA PairIsSeq ==
  ASSUME NEW S, NEW a \in S, NEW b \in S
  PROVE  <<a, b>> \in Seq(S)
OBVIOUS

LEMMA CandidateFacts == Orderly(Candidates)
<1>1. ASSUME NEW d \in Name, d \in Synthetic <=> type \in Synthetic
      PROVE  Orderly(<<d>>)
  BY <1>1 DEF Orderly, Serves
<1>2. type = "" => Orderly(<<"Solis", "Samlex">>)
  <2> DEFINE c == <<"Solis", "Samlex">>
  <2>1. Len(c) = 2 /\ DOMAIN c = 1 .. 2 /\ c[1] = "Solis" /\ c[2] = "Samlex"
    OBVIOUS
  <2>2. "Solis" \in Name \ Synthetic /\ "Samlex" \in Name \ Synthetic /\ "" \notin Synthetic
    BY DEF Name, Synthetic
  <2>3. c \in Seq(Name)
    BY <2>2, PairIsSeq
  <2> HIDE DEF c
  <2>4. \A j \in DOMAIN c : j \in {1, 2}
    BY <2>1
  <2>5. Serves(c[1]) = "Solis" /\ Serves(c[2]) = "Samlex"
    BY <2>1 DEF Serves
  <2>6. \A j \in DOMAIN c : c[j] \in Name \ Synthetic
    BY <2>1, <2>2, <2>4
  <2>7. \A j, k \in DOMAIN c : c[j] = c[k] => j = k
    BY <2>1, <2>4
  <2>8. \A j, k \in DOMAIN c : Serves(c[j]) = "Solis" /\ Serves(c[k]) = "Samlex" => j < k
    BY <2>4, <2>5
  <2>9. Len(c) \in 0 .. 2 /\ DOMAIN c = 1 .. Len(c)
    BY <2>1
  <2>10. type = "" =>
           \A j \in DOMAIN c : c[j] \in Name /\ (c[j] \in Synthetic <=> type \in Synthetic)
    BY <2>2, <2>6
  <2>11. type = "" => Orderly(c)
    BY <2>3, <2>7, <2>8, <2>9, <2>10 DEF Orderly
  <2> QED BY <2>11 DEF c
<1>3. Orderly(<<>>)
  BY DEF Orderly
<1> QED
  BY <1>1, <1>2, <1>3 DEF Candidates, Name, Synthetic

LEMMA SameInstallation ==
  ASSUME UNCHANGED installation
  PROVE  /\ Candidates' = Candidates /\ UNCHANGED <<type, port, registers, device>>
         /\ \A d : Asks(d)' = Asks(d)
BY DEF installation, Candidates, IsTcp, Asks

LEMMA InitInv == Init => StartupInv
<1> SUFFICES ASSUME Init PROVE StartupInv
  OBVIOUS
<1>1. Typed /\ BeforeInv
  <2>1. left \in Seq(Name)
    BY EmptySeq DEF Init
  <2>2. failed \in [Name -> Nat]
    BY DEF Init
  <2>4. round = 3 /\ clients = 0 /\ lost = FALSE /\ driver = "none"
    BY DEF Init, Rounds
  <2>5. round \in 0 .. Rounds /\ clients \in Nat
    BY <2>4 DEF Rounds
  <2>6. lost \in BOOLEAN /\ driver \in Name \cup {"none"}
    BY <2>4, Zenon
  <2>3. Typed
    BY <2>1, <2>2, <2>5, <2>6 DEF Typed
  <2> QED BY <2>3 DEF Init, BeforeInv
<1> QED
  BY <1>1 DEF Init, StartupInv, RoundInv, SleepInv, RightDriver, GivesUpAfterThree

\* The next driver has been begun.
LEMMA ConstructStep ==
  ASSUME StartupInv, Construct
  PROVE  StartupInv'
<1>1. /\ pc = "try" /\ left # <<>> /\ driver = "none" /\ Typed /\ RoundInv
      /\ UNCHANGED <<installation, round, failed, lost>>
  BY DEF StartupInv, Construct
<1>2. Candidates' = Candidates /\ Orderly(Candidates) /\ UNCHANGED <<type, device>>
  BY <1>1, CandidateFacts, SameInstallation
<1>3. /\ Len(left) \in Nat \ {0} /\ left' \in Seq(Name) /\ Len(left') = Len(left) - 1
      /\ \A i \in 1 .. Len(left') : left'[i] = left[i + 1]
      /\ Head(left) = left[1] /\ Head(left) \in Name
  BY <1>1, HeadTailProperties, EmptySeq DEF Construct, Typed
<1>4. /\ Begun \in 0 .. 2 /\ Begun' = Begun + 1 /\ Begun' <= Len(Candidates)
      /\ driver' = Candidates[Begun'] /\ driver' \in Name
  <2>1. Len(left) <= Len(Candidates) /\ left[1] = Candidates[Begun + 1]
    BY <1>1, <1>3 DEF RoundInv
  <2>2. driver' = Head(left)
    BY DEF Construct
  <2>3. Len(Candidates) \in 0 .. 2 /\ Begun \in 0 .. 1 /\ Begun' = Begun + 1
    <3>1. Begun = Len(Candidates) - Len(left) /\ Begun' = Len(Candidates') - Len(left')
      BY DEF Begun
    <3>2. Len(Candidates) \in 0 .. 2 /\ Len(Candidates') = Len(Candidates)
      BY <1>2 DEF Orderly
    <3>3. Len(left) \in Nat \ {0} /\ Len(left') = Len(left) - 1 /\ Len(left) <= Len(Candidates)
      BY <1>3, <2>1
    <3>4. Begun \in 0 .. 1
      <4>1. Begun = Len(Candidates) - Len(left)
        BY <3>1
      <4> QED BY <3>2, <3>3, <4>1
    <3>5. Begun' = Begun + 1
      <4>1. Begun' = Len(Candidates) - (Len(left) - 1)
        BY <3>1, <3>2, <3>3
      <4>2. Len(Candidates) \in Int /\ Len(left) \in Int
        BY <3>2, <3>3
      <4> QED BY <3>1, <4>1, <4>2
    <3> QED BY <3>2, <3>4, <3>5
  <2>4. Begun' <= Len(Candidates)
    BY <1>3, <2>1, <2>3 DEF Begun
  <2>5. driver' = Candidates[Begun']
    BY <1>3, <2>1, <2>2, <2>3
  <2> QED BY <1>3, <2>2, <2>3, <2>4, <2>5
<1>5. \A j \in DOMAIN Candidates : Over(j)' <=> Over(j)
  <2>1. driver' # "none"
    BY <1>4 DEF Name
  <2> QED BY <1>1, <1>2, <1>4, <2>1 DEF Over, Orderly
<1>6. clients' \in Nat /\ clients' = IF type \in Synthetic THEN clients ELSE clients + 1
  <2>1. Begun' \in DOMAIN Candidates
    BY <1>2, <1>4 DEF Orderly
  <2>2. driver' = Head(left) /\ (driver' \in Synthetic <=> type \in Synthetic)
    BY <1>2, <1>4, <2>1 DEF Orderly, Construct
  <2> QED BY <1>1, <2>2 DEF Construct, Typed
<1>7. Typed'
  BY <1>1, <1>3, <1>4, <1>6 DEF Typed
<1>8. RoundInv'
  <2>1. round # 0 /\ clients =
          IF type \in Synthetic THEN 0 ELSE (Rounds - round) * Len(Candidates) + Begun
    BY <1>1 DEF RoundInv
  <2>2. \A i \in 1 .. Len(left') : left'[i] = Candidates[Begun' + i]
    <3> SUFFICES ASSUME NEW i \in 1 .. Len(left') PROVE left'[i] = Candidates[Begun' + i]
      OBVIOUS
    <3>1. i + 1 \in 1 .. Len(left) /\ left'[i] = left[i + 1] /\ Begun' + i = Begun + (i + 1)
      BY <1>3, <1>4
    <3> QED BY <1>1, <3>1 DEF RoundInv
  <2>3. \A j \in DOMAIN Candidates :
          /\ failed'[Candidates[j]] = Rounds - round + (IF Over(j)' THEN 1 ELSE 0)
          /\ Over(j)' /\ Asks(Candidates[j])' /\ device = Serves(Candidates[j]) => lost'
    <3> SUFFICES ASSUME NEW j \in DOMAIN Candidates
                 PROVE  /\ failed'[Candidates[j]] = Rounds - round + (IF Over(j)' THEN 1 ELSE 0)
                        /\ Over(j)' /\ Asks(Candidates[j])' /\ device = Serves(Candidates[j])
                             => lost'
      OBVIOUS
    <3>1. /\ failed[Candidates[j]] = Rounds - round + (IF Over(j) THEN 1 ELSE 0)
          /\ Over(j) /\ Asks(Candidates[j]) /\ device = Serves(Candidates[j]) => lost
      BY <1>1 DEF RoundInv
    <3>2. Asks(Candidates[j])' = Asks(Candidates[j]) /\ (Over(j)' <=> Over(j))
      BY <1>1, <1>5, SameInstallation
    <3> QED BY <1>1, <3>1, <3>2
  <2>4. clients' = IF type \in Synthetic THEN 0 ELSE (Rounds - round) * Len(Candidates) + Begun'
    <3> DEFINE so == (Rounds - round) * Len(Candidates)
    <3>1. so \in Int
      BY <1>1, <1>2 DEF Typed, Orderly, Rounds
    <3> HIDE DEF so
    <3>2. clients = IF type \in Synthetic THEN 0 ELSE so + Begun
      BY <2>1 DEF so
    <3>3. clients' = IF type \in Synthetic THEN 0 ELSE so + Begun'
      BY <1>4, <1>6, <3>1, <3>2
    <3> QED BY <3>3 DEF so
  <2>5. Begun' # 0 /\ Len(left') <= Len(Candidates)
    BY <1>1, <1>3, <1>4 DEF RoundInv
  <2> QED BY <1>1, <1>2, <1>4, <2>1, <2>2, <2>3, <2>4, <2>5 DEF RoundInv
<1>9. pc' \in {"try", "crashed"}
  BY DEF Construct
<1> QED
  BY <1>7, <1>8, <1>9 DEF StartupInv, BeforeInv, SleepInv, RightDriver, GivesUpAfterThree

\* A device that is taken for another has left the test of its own driver
\* unanswered, if there was one.
LEMMA FoundStep ==
  ASSUME StartupInv, Found
  PROVE  StartupInv'
<1>1. /\ pc = "try" /\ driver # "none" /\ Typed /\ RoundInv /\ pc' = "setup"
      /\ UNCHANGED <<installation, round, left, driver, clients, failed, lost>>
  BY DEF StartupInv, Found
<1>2. /\ Candidates' = Candidates /\ Orderly(Candidates)
      /\ UNCHANGED <<type, port, registers, device>>
  BY <1>1, CandidateFacts, SameInstallation
<1>3. /\ driver = Candidates[Begun] /\ Begun \in DOMAIN Candidates /\ driver \in Name
  BY <1>1, <1>2 DEF RoundInv, Typed, Begun, Orderly
<1>4. RightDriver'
  <2> SUFFICES ASSUME driver \notin Synthetic, device # Serves(driver),
                      NEW j \in DOMAIN Candidates, Serves(Candidates[j]) = device
               PROVE  lost
    BY <1>1, <1>2 DEF RightDriver
  <2>1. device = "Solis" /\ Serves(driver) = "Samlex"
    BY DEF Found, Finds
  <2>2. j < Begun
    BY <1>2, <1>3, <2>1 DEF Orderly
  <2>3. Asks(Candidates[j])
    BY <2>1 DEF Asks
  <2> QED BY <1>1, <2>2, <2>3 DEF RoundInv, Over
<1>5. Typed'
  BY <1>1 DEF Typed
<1> QED
  BY <1>1, <1>3, <1>4, <1>5
    DEF StartupInv, BeforeInv, RoundInv, SleepInv, GivesUpAfterThree

\* The test of one more driver is over.
LEMMA NotFoundStep ==
  ASSUME StartupInv, NotFound
  PROVE  StartupInv'
<1>1. /\ pc = "try" /\ pc' = "try" /\ Typed /\ RoundInv
      /\ driver \in Name /\ driver' = "none" /\ driver # "none"
      /\ UNCHANGED <<installation, round, left, clients>>
  BY DEF StartupInv, NotFound, Name
<1>2. Candidates' = Candidates /\ Orderly(Candidates) /\ UNCHANGED <<type, device>>
  BY <1>1, CandidateFacts, SameInstallation
<1>3. /\ driver = Candidates[Begun] /\ Begun \in DOMAIN Candidates /\ Begun' = Begun
  BY <1>1, <1>2 DEF RoundInv, Typed, Begun, Orderly
<1>4. /\ failed' \in [Name -> Nat] /\ failed'[driver] = failed[driver] + 1
      /\ \A d \in Name \ {driver} : failed'[d] = failed[d]
  <2>1. failed' = [failed EXCEPT ![driver] = failed[driver] + 1] /\ failed \in [Name -> Nat]
    BY <1>1 DEF NotFound, Typed
  <2> QED BY <1>1, <2>1
<1>5. lost' \in BOOLEAN /\ (lost => lost')
      /\ (Asks(driver) /\ device = Serves(driver) => lost')
  BY <1>1 DEF NotFound, Typed
<1>6. \A j \in DOMAIN Candidates : j # Begun => (Over(j)' <=> Over(j))
  BY <1>1, <1>2, <1>3 DEF Over, Orderly
<1>7. Over(Begun)' /\ ~Over(Begun)
  BY <1>1, <1>2, <1>3 DEF Over, Orderly
<1>8. RoundInv'
  <2>1. ASSUME NEW j \in DOMAIN Candidates
        PROVE  /\ failed'[Candidates[j]] = Rounds - round + (IF Over(j)' THEN 1 ELSE 0)
               /\ Over(j)' /\ Asks(Candidates[j])' /\ device = Serves(Candidates[j]) => lost'
    <3>1. /\ failed[Candidates[j]] = Rounds - round + (IF Over(j) THEN 1 ELSE 0)
          /\ Over(j) /\ Asks(Candidates[j]) /\ device = Serves(Candidates[j]) => lost
      BY <1>1 DEF RoundInv
    <3>2. Asks(Candidates[j])' = Asks(Candidates[j])
      BY <1>1, SameInstallation
    <3>3. CASE j = Begun
      <4>1. failed[driver] = Rounds - round /\ Over(j)'
        BY <1>1, <1>3, <1>7, <3>1, <3>3 DEF Typed, Rounds
      <4>2. Rounds - round \in Int
        BY <1>1 DEF Typed, Rounds
      <4> QED BY <1>3, <1>4, <1>5, <3>2, <3>3, <4>1, <4>2
    <3>4. CASE j # Begun
      <4>1. Candidates[j] \in Name \ {driver}
        BY <1>2, <1>3, <3>4 DEF Orderly
      <4> QED BY <1>4, <1>5, <1>6, <3>1, <3>2, <3>4, <4>1
    <3> QED BY <3>3, <3>4
  <2>2. \A j \in DOMAIN Candidates' :
          /\ failed'[Candidates'[j]] = Rounds - round' + (IF Over(j)' THEN 1 ELSE 0)
          /\ Over(j)' /\ Asks(Candidates[j])' /\ device' = Serves(Candidates[j])' => lost'
    BY <1>1, <1>2, <2>1 DEF Serves
  <2>3. /\ round' # 0 /\ Len(left') <= Len(Candidates')
        /\ \A i \in 1 .. Len(left') : left'[i] = Candidates'[Begun' + i]
        /\ clients' = IF type' \in Synthetic THEN 0
                      ELSE (Rounds - round') * Len(Candidates') + Begun'
    BY <1>1, <1>2, <1>3 DEF RoundInv
  <2> QED BY <1>1, <2>2, <2>3 DEF RoundInv
<1>9. Typed'
  BY <1>1, <1>4, <1>5 DEF Typed
<1> QED
  BY <1>1, <1>8, <1>9
    DEF StartupInv, BeforeInv, SleepInv, RightDriver, GivesUpAfterThree

\* Every driver of the round has failed once more.
LEMMA EndRoundStep ==
  ASSUME StartupInv, EndRound
  PROVE  StartupInv'
<1>1. /\ pc = "try" /\ pc' = "sleep" /\ Typed /\ RoundInv
      /\ left = <<>> /\ driver = "none" /\ round' = round - 1
      /\ UNCHANGED <<installation, left, driver, clients, failed, lost>>
  BY DEF StartupInv, EndRound
<1>2. Candidates' = Candidates /\ Orderly(Candidates) /\ UNCHANGED type
  BY <1>1, CandidateFacts, SameInstallation
<1>3. round \in 1 .. 3 /\ round' \in 0 .. 2 /\ Rounds = 3
  BY <1>1 DEF Typed, RoundInv, Rounds
<1>4. Len(left) = 0 /\ Begun = Len(Candidates)
  BY <1>1, <1>2, EmptySeq DEF Begun, Orderly
<1>5. \A j \in DOMAIN Candidates : Over(j)
  BY <1>1, <1>2, <1>4 DEF Over, Orderly
<1>6. \A j \in DOMAIN Candidates : failed[Candidates[j]] = Rounds - round'
  BY <1>1, <1>3, <1>5 DEF RoundInv
<1>7. (Rounds - round) * Len(Candidates) + Begun = (Rounds - round') * Len(Candidates)
  <2>1. Len(Candidates) \in 0 .. 2
    BY <1>2 DEF Orderly
  <2> QED BY <1>1, <1>3, <1>4, <2>1
<1>8. SleepInv'
  BY <1>1, <1>2, <1>6, <1>7 DEF SleepInv, RoundInv
<1>9. Typed'
  BY <1>1, <1>3 DEF Typed
<1> QED
  BY <1>1, <1>8, <1>9
    DEF StartupInv, BeforeInv, RoundInv, RightDriver, GivesUpAfterThree

\* A round begins, the first or another, or all of them are over.
LEMMA BeginsRound ==
  ASSUME Typed, round # 0, driver = "none",
         \A j \in DOMAIN Candidates : failed[Candidates[j]] = Rounds - round,
         clients = IF type \in Synthetic THEN 0 ELSE (Rounds - round) * Len(Candidates),
         left' = Candidates, UNCHANGED <<installation, round, driver, clients, failed, lost>>
  PROVE  RoundInv' /\ Typed'
<1>1. Candidates' = Candidates /\ Orderly(Candidates) /\ UNCHANGED type
  BY CandidateFacts, SameInstallation
<1>2. Begun' = 0 /\ Len(Candidates) \in Nat
  BY <1>1 DEF Begun, Orderly
<1>3. \A j \in DOMAIN Candidates : ~Over(j)'
  BY <1>1, <1>2 DEF Over, Orderly
<1>4. /\ Rounds - round \in Int
      /\ (Rounds - round) * Len(Candidates) \in Int
  BY <1>2 DEF Typed, Rounds
<1>5. RoundInv'
  <2>1. \A i \in 1 .. Len(left') : left'[i] = Candidates[Begun' + i]
    BY <1>2
  <2>2. clients' = IF type \in Synthetic THEN 0
                   ELSE (Rounds - round) * Len(Candidates) + Begun'
    BY <1>2, <1>4
  <2>3. \A j \in DOMAIN Candidates :
          failed'[Candidates[j]] = Rounds - round + (IF Over(j)' THEN 1 ELSE 0)
    BY <1>3, <1>4
  <2> QED BY <1>1, <1>2, <1>3, <2>1, <2>2, <2>3 DEF RoundInv
<1> QED BY <1>1, <1>5 DEF Typed, Orderly

LEMMA GoOnStep ==
  ASSUME StartupInv, GoOn
  PROVE  StartupInv'
<1>1. /\ pc = "sleep" /\ Typed /\ SleepInv /\ driver = "none"
      /\ UNCHANGED <<installation, round, driver, clients, failed, lost>>
  BY DEF StartupInv, SleepInv, GoOn
<1>2. CASE round > 0
  <2>1. pc' = "try" /\ left' = Candidates
    BY <1>2 DEF GoOn
  <2>2. RoundInv' /\ Typed'
    BY <1>1, <1>2, <2>1, BeginsRound DEF SleepInv
  <2> QED
    BY <2>1, <2>2 DEF StartupInv, BeforeInv, SleepInv, RightDriver, GivesUpAfterThree
<1>3. CASE ~(round > 0)
  <2>1. pc' = "exited" /\ left' = <<>> /\ round = 0 /\ Rounds = 3
    BY <1>1, <1>3 DEF GoOn, Typed, Rounds
  <2>2. Typed'
    BY <1>1, <2>1, EmptySeq DEF Typed
  <2>3. Candidates' = Candidates /\ Len(Candidates) \in Nat
    BY <1>1, CandidateFacts, SameInstallation DEF Orderly
  <2>4. GivesUpAfterThree'
    BY <1>1, <2>1, <2>3 DEF SleepInv, GivesUpAfterThree
  <2> QED
    BY <2>1, <2>2, <2>4 DEF StartupInv, BeforeInv, RoundInv, SleepInv, RightDriver
<1> QED BY <1>2, <1>3

LEMMA GetPortStep ==
  ASSUME StartupInv, GetPort
  PROVE  StartupInv'
<1>1. /\ Typed /\ driver = "none" /\ clients = 0 /\ round = Rounds
      /\ failed = [d \in Name |-> 0] /\ Orderly(Candidates)
      /\ UNCHANGED <<installation, round, driver, clients, failed, lost>>
  BY CandidateFacts DEF StartupInv, BeforeInv, GetPort
<1>2. CASE port = "other"
  <2>1. pc' = "exited" /\ left' = <<>>
    BY <1>2 DEF GetPort
  <2> QED
    BY <1>1, <2>1, EmptySeq
      DEF StartupInv, Typed, BeforeInv, RoundInv, SleepInv, RightDriver, GivesUpAfterThree
<1>3. CASE port # "other"
  <2>1. pc' = "try" /\ left' = Candidates
    BY <1>3 DEF GetPort
  <2>2. \A j \in DOMAIN Candidates : failed[Candidates[j]] = Rounds - round
    BY <1>1 DEF Orderly, Rounds
  <2>3. clients = (Rounds - round) * Len(Candidates)
    BY <1>1 DEF Orderly, Rounds
  <2>4. RoundInv' /\ Typed'
    BY <1>1, <2>1, <2>2, <2>3, BeginsRound DEF Rounds
  <2> QED
    BY <2>1, <2>4 DEF StartupInv, BeforeInv, SleepInv, RightDriver, GivesUpAfterThree
<1> QED BY <1>2, <1>3

\* What leaves the search alone.
LEMMA OtherStep ==
  ASSUME StartupInv, LoadConfig \/ TestRaises \/ Setup \/ Ask \/ PollDummy \/ PollMock \/ UNCHANGED vars
  PROVE  StartupInv'
<1>1. UNCHANGED <<installation, round, left, driver, clients, failed, lost>>
  BY DEF LoadConfig, TestRaises, Setup, Ask, PollDummy, PollMock, vars, mockVars
<1>2. Candidates' = Candidates /\ UNCHANGED <<type, device>> /\ \A d : Asks(d)' = Asks(d)
  BY <1>1, SameInstallation
<1>3. Typed'
  BY <1>1 DEF StartupInv, Typed
<1>4. CASE LoadConfig
  BY <1>1, <1>3, <1>4 DEF LoadConfig, StartupInv, BeforeInv, RoundInv, SleepInv, RightDriver,
    GivesUpAfterThree
<1>5. CASE TestRaises
  BY <1>3, <1>5 DEF TestRaises, StartupInv, BeforeInv, RoundInv, SleepInv, RightDriver,
    GivesUpAfterThree
<1>6. CASE Setup
  <2>1. driver \in Name /\ pc' \in {"running", "exited"} /\ pc = "setup"
    BY <1>6 DEF StartupInv, Setup
  <2>2. driver # "none"
    BY <2>1 DEF Name
  <2>3. RightDriver'
    BY <1>1, <1>2, <2>1 DEF StartupInv, RightDriver
  <2> QED
    BY <1>1, <1>3, <2>1, <2>2, <2>3
      DEF StartupInv, BeforeInv, RoundInv, SleepInv, GivesUpAfterThree
<1>7. CASE Ask \/ PollDummy \/ PollMock
  <2>1. pc = "running" /\ pc' = "running"
    BY <1>7 DEF Ask, PollDummy, PollMock
  <2>2. RightDriver'
    BY <1>1, <1>2, <2>1 DEF StartupInv, RightDriver
  <2> QED
    BY <1>1, <1>3, <2>1, <2>2
      DEF StartupInv, BeforeInv, RoundInv, SleepInv, GivesUpAfterThree
<1>8. CASE UNCHANGED vars
  <2>1. UNCHANGED pc /\ Begun' = Begun /\ \A j : Over(j)' <=> Over(j)
    BY <1>1, <1>2, <1>8 DEF vars, Begun, Over
  <2>2. BeforeInv' /\ SleepInv' /\ RightDriver' /\ GivesUpAfterThree'
    BY <1>1, <1>2, <2>1 DEF StartupInv, BeforeInv, SleepInv, RightDriver, GivesUpAfterThree
  <2>3. RoundInv'
    BY <1>1, <1>2, <2>1 DEF StartupInv, RoundInv
  <2> QED
    BY <1>1, <1>3, <2>1, <2>2, <2>3 DEF StartupInv
<1> QED BY <1>4, <1>5, <1>6, <1>7, <1>8

LEMMA Step == StartupInv /\ [Next]_vars => StartupInv'
BY ConstructStep, FoundStep, NotFoundStep, EndRoundStep, GoOnStep, GetPortStep, OtherStep
    DEF Next, Main

\* Another driver is taken only for a device whose own driver's test was lost, or
\* is not tried.
THEOREM FindsTheRightOne == Spec => []RightDriver
<1>1. StartupInv => RightDriver
  BY DEF StartupInv
<1> QED BY InitInv, Step, <1>1, PTL DEF Spec

\* The port is given up only after three failed tests of each driver.
THEOREM GivesUpLate == Spec => []GivesUpAfterThree
<1>1. StartupInv => GivesUpAfterThree
  BY DEF StartupInv
<1> QED BY InitInv, Step, <1>1, PTL DEF Spec
=============================================================================
