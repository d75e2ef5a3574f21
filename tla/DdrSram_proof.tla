----------------------------- MODULE DdrSram_proof -----------------------------
(***************************************************************************)
(* Proofs about the SRAM device, for any number of credits, any length of  *)
(* a burst, memories and queues of any size and any settings of the        *)
(* debugging method.                                                       *)
(*                                                                         *)
(* SramInv counts: credits and beats that are owed, writes and their data. *)
(* With it, no queue overflows and no data get ahead of their write.       *)
(*                                                                         *)
(* StreamInv, on top of it, puts the queues one behind the other: they     *)
(* hold the last of the requests that were issued, and the last of the     *)
(* beats, those of the initialisation first.  What is in front of them is  *)
(* done, and the memory and the beats that came back are what it makes of  *)
(* them.                                                                   *)
(*                                                                         *)
(* MemoryOf is a recursive function: what it computes comes from           *)
(* Recursion, which builds a function step by step.                        *)
(***************************************************************************)
EXTENDS DdrSram, FiniteSetTheorems, FunctionTheorems, SequenceTheorems, WellFoundedInduction,
        TLAPS

(* Entries of a queue that are in a set.                                   *)
CountIn(q, S) == Cardinality({i \in DOMAIN q : q[i] \in S})

ReadRequests  == {r \in Requests : r.op = "READ"}
WriteRequests == {r \in Requests : r.op = "WRITE"}

(* Reads that the controller has not done, wherever they wait.             *)
ReadsWaiting ==
  CountIn(mergeReqQ, ReadRequests) + CountIn(syncRequestQ, ReadRequests)
    + CountIn(addrQ, ReadRequests)

(* Beats the device owes to whoever asked for them.                        *)
BeatsOwed == BurstLength * ReadsWaiting + Len(readBuffer) + Len(syncReadDataQ)

(* A credit is a burst that is owed; of the one being taken, readBurstCnt  *)
(* knows how much is left.  Before the device is ready there are no        *)
(* credits: the first phase of the initialisation owes itself one burst.   *)
CreditInv ==
  IF state = "READY"
  THEN BeatsOwed = BurstLength * nInflightReads - (LastBeat - readBurstCnt)
  ELSE /\ nInflightReads = 0 /\ readBurstCnt = LastBeat /\ mergeReqQ = << >>
       /\ BeatsOwed = IF initPhase = 0 /\ init0Stage > 0
                      THEN BurstLength - initBurstIdx ELSE 0
       /\ initPhase = 0 /\ init0Stage < 2 => initBurstIdx = 0
       /\ initPhase = 1 => init0Stage = 2

(* Whole bursts follow the writes the controller was given, but for the    *)
(* one whose beats are on their way.                                       *)
WriteInv ==
  /\ writePending => writeBurstIdx \in 1 .. LastBeat
  /\ Len(dataQ) = BurstLength * CountIn(addrQ, WriteRequests)
                    - IF writePending THEN BurstLength - writeBurstIdx ELSE 0

SramInv == TypeOK /\ CreditInv /\ WriteInv

-----------------------------------------------------------------------------
(* Counting entries.                                                       *)

(* A queue has a number of such entries, no larger than its length.        *)
LEMMA CountType ==
  ASSUME NEW T, NEW q \in Seq(T), NEW S
  PROVE  /\ IsFiniteSet({i \in DOMAIN q : q[i] \in S})
         /\ CountIn(q, S) \in Nat /\ CountIn(q, S) <= Len(q)
<1>1. DOMAIN q = 1 .. Len(q) /\ Len(q) \in Nat
  OBVIOUS
<1>2. IsFiniteSet(1 .. Len(q)) /\ Cardinality(1 .. Len(q)) = Len(q)
  BY <1>1, FS_Interval
<1>3. IsFiniteSet({i \in DOMAIN q : q[i] \in S})
      /\ Cardinality({i \in DOMAIN q : q[i] \in S}) <= Cardinality(1 .. Len(q))
  BY <1>1, <1>2, FS_Subset
<1> QED BY <1>2, <1>3, FS_CardinalityType DEF CountIn

(* An empty queue has none.                                                *)
LEMMA CountEmpty == ASSUME NEW S PROVE CountIn(<< >>, S) = 0
<1>1. {i \in DOMAIN << >> : << >>[i] \in S} = {}
  OBVIOUS
<1> QED BY <1>1, FS_EmptySet DEF CountIn

(* An entry put into the queue counts if it is in the set ...              *)
LEMMA CountAppend ==
  ASSUME NEW T, NEW q \in Seq(T), NEW x \in T, NEW S
  PROVE  CountIn(Append(q, x), S) = CountIn(q, S) + IF x \in S THEN 1 ELSE 0
<1> DEFINE I == {i \in DOMAIN q : q[i] \in S}
           J == {i \in DOMAIN Append(q, x) : Append(q, x)[i] \in S}
<1>1. IsFiniteSet(I) /\ Len(q) + 1 \notin I /\ CountIn(q, S) \in Nat
  BY CountType
<1>2. J = IF x \in S THEN I \cup {Len(q) + 1} ELSE I
  OBVIOUS
<1>3. Cardinality(I \cup {Len(q) + 1}) = Cardinality(I) + 1
  <2> HIDE DEF I
  <2> QED BY <1>1, FS_AddElement
<1>4. CountIn(q, S) = Cardinality(I) /\ CountIn(Append(q, x), S) = Cardinality(J)
  BY DEF CountIn
<1> HIDE DEF I, J
<1> QED BY <1>1, <1>2, <1>3, <1>4

(* ... and so does the one at the head.                                    *)
LEMMA CountHead ==
  ASSUME NEW T, NEW q \in Seq(T), q # << >>, NEW S
  PROVE  CountIn(q, S) = CountIn(Tail(q), S) + IF Head(q) \in S THEN 1 ELSE 0
<1> DEFINE I == {i \in DOMAIN q : q[i] \in S}
           J == {i \in DOMAIN Tail(q) : Tail(q)[i] \in S}
           K == {i + 1 : i \in J}
<1>0. Tail(q) \in Seq(T) /\ Len(Tail(q)) = Len(q) - 1 /\ Len(q) \in Nat /\ Len(q) > 0
  OBVIOUS
<1>1. IsFiniteSet(J) /\ CountIn(Tail(q), S) \in Nat
  BY <1>0, CountType
<1>2. IsFiniteSet(K) /\ Cardinality(K) = Cardinality(J)
  <2> DEFINE f == [i \in J |-> i + 1]
  <2>1. J \subseteq Int
    BY <1>0
  <2> HIDE DEF J
  <2>2. f \in Bijection(J, K)
    BY <2>1 DEF Bijection, Injection, Surjection, IsInjective
  <2> QED BY <2>2, <1>1, FS_Bijection DEF ExistsBijection
<1>3. I = IF Head(q) \in S THEN K \cup {1} ELSE K
  <2>1. ASSUME NEW i \in Nat, i > 1 PROVE i \in I <=> i - 1 \in J
    BY <1>0, <2>1
  <2>2. \A i \in K : i \in Nat /\ i > 1 /\ i - 1 \in J
    BY <1>0
  <2>3. \A i \in Nat : i > 1 /\ i - 1 \in J => i \in K
    OBVIOUS
  <2>4. 1 \in I <=> Head(q) \in S
    BY <1>0
  <2>5. \A i \in I : i \in Nat /\ (i = 1 \/ i > 1)
    BY <1>0
  <2> HIDE DEF I, J, K
  <2>6. ASSUME NEW i \in I PROVE (i = 1 /\ Head(q) \in S) \/ i \in K
    BY <2>1, <2>3, <2>4, <2>5
  <2>7. ASSUME NEW i \in K PROVE i \in I
    BY <2>1, <2>2
  <2> QED BY <2>4, <2>6, <2>7
<1>4. 1 \notin K
  BY <1>0
<1>5. Cardinality(K \cup {1}) = Cardinality(K) + 1
  <2> HIDE DEF K
  <2> QED BY <1>2, <1>4, FS_AddElement
<1>6. CountIn(q, S) = Cardinality(I) /\ CountIn(Tail(q), S) = Cardinality(J)
  BY DEF CountIn
<1> HIDE DEF K, I, J
<1> QED BY <1>1, <1>2, <1>3, <1>5, <1>6
-----------------------------------------------------------------------------
(* What the assumption says of each constant.                              *)
LEMMA SramConstants ==
  /\ MaxReads \in Nat /\ MaxReads >= 1 /\ BurstLength \in Nat /\ BurstLength >= 1
  /\ NumAddrs \in Nat /\ NumAddrs >= 1 /\ SyncDepth \in Nat /\ MergeDepth \in Nat
  /\ CtrlDepth \in Nat /\ LastBeat \in Nat /\ LastBeat = BurstLength - 1
  /\ 0 \in Addrs /\ 0 \in Beats /\ LastBeat \in Beats
  /\ MaxReadSettings \subseteq 0 .. MaxReads
BY SramAssumption DEF LastBeat, Addrs, Beats

(* A read counts as a read and a write as a write.                         *)
LEMMA RequestTypes ==
  /\ \A a \in Addrs : /\ Read(a) \in Requests /\ Read(a) \in ReadRequests
                      /\ Read(a) \notin WriteRequests /\ Write(a) \in Requests
                      /\ Write(a) \in WriteRequests /\ Write(a) \notin ReadRequests
  /\ \A r \in Requests : /\ r.op = "READ" <=> r \in ReadRequests
                         /\ r.op = "WRITE" <=> r \in WriteRequests
                         /\ r \in ReadRequests <=> r \notin WriteRequests
                         /\ r.addr \in Addrs
BY DEF Read, Write, Requests, ReadRequests, WriteRequests

(* The types of the queues at the start.                                   *)
LEMMA InitType == Init => TypeOK
<1> SUFFICES ASSUME Init PROVE TypeOK
  OBVIOUS
<1> USE SramConstants
<1>1. /\ state \in {"INIT", "READY"} /\ initPhase \in {0, 1} /\ init0Stage \in 0 .. 2
      /\ initBurstIdx \in Beats /\ initAddr \in Addrs
      /\ writePending \in BOOLEAN /\ writeBurstIdx \in 0 .. BurstLength
      /\ nInflightReads \in 0 .. MaxReads /\ readBurstCnt \in Beats
      /\ calibrateMaxReads \in 0 .. MaxReads
      /\ ramClkLocked \in BOOLEAN /\ calDone \in BOOLEAN
  BY DEF Init
<1>2. /\ mergeReqQ \in Seq(Requests) /\ Len(mergeReqQ) <= MergeDepth
      /\ syncRequestQ \in Seq(Requests) /\ Len(syncRequestQ) <= SyncDepth
      /\ addrQ \in Seq(Requests) /\ Len(addrQ) <= CtrlDepth /\ requests \in Seq(Requests)
  BY DEF Init
<1>3. /\ syncWriteDataQ \in Seq(BeatType) /\ Len(syncWriteDataQ) <= SyncDepth
      /\ writeBuffer \in Seq(BeatType) /\ Len(writeBuffer) <= 1 /\ dataQ \in Seq(BeatType)
  BY DEF Init
<1>4. /\ readBuffer \in Seq(Nat \cup {Unknown}) /\ syncReadDataQ \in Seq(Nat \cup {Unknown})
      /\ responses \in Seq(Nat \cup {Unknown}) /\ masks \in Seq(BOOLEAN)
  BY DEF Init
<1>5. writeValue \in [Beats -> BeatType]
  BY DEF Init, Beat, BeatType
<1>6. mem \in [Addrs -> [Beats -> Nat \cup {Unknown}]]
  BY DEF Init
<1> QED BY <1>1, <1>2, <1>3, <1>4, <1>5, <1>6 DEF TypeOK

LEMMA InitSram == Init => SramInv
<1> SUFFICES ASSUME Init PROVE SramInv
  OBVIOUS
<1>1. TypeOK
  BY InitType
<1>2. BeatsOwed = 0
  BY CountEmpty, SramConstants DEF Init, BeatsOwed, ReadsWaiting
<1>3. CreditInv
  BY <1>2 DEF Init, CreditInv
<1>4. WriteInv
  BY CountEmpty, SramConstants DEF Init, WriteInv
<1> QED BY <1>1, <1>3, <1>4 DEF SramInv
-----------------------------------------------------------------------------
(* Putting a request into a queue ...                                      *)
LEMMA PutRequest ==
  ASSUME NEW q \in Seq(Requests), NEW r \in Requests
  PROVE  /\ Append(q, r) \in Seq(Requests) /\ Len(Append(q, r)) = Len(q) + 1
         /\ CountIn(Append(q, r), ReadRequests)
              = CountIn(q, ReadRequests) + IF r.op = "READ" THEN 1 ELSE 0
         /\ CountIn(Append(q, r), WriteRequests)
              = CountIn(q, WriteRequests) + IF r.op = "WRITE" THEN 1 ELSE 0
<1>1. r \in ReadRequests <=> r.op = "READ"
  BY RequestTypes
<1>2. r \in WriteRequests <=> r.op = "WRITE"
  BY RequestTypes
<1>3. Append(q, r) \in Seq(Requests) /\ Len(Append(q, r)) = Len(q) + 1
  OBVIOUS
<1> QED BY <1>1, <1>2, <1>3, CountAppend

(* ... and taking one from it.                                             *)
LEMMA TakeRequest ==
  ASSUME NEW q \in Seq(Requests), q # << >>
  PROVE  /\ Head(q) \in Requests /\ Tail(q) \in Seq(Requests)
         /\ Len(q) \in Nat /\ Len(q) >= 1 /\ Len(Tail(q)) = Len(q) - 1
         /\ CountIn(q, ReadRequests)
              = CountIn(Tail(q), ReadRequests) + IF Head(q).op = "READ" THEN 1 ELSE 0
         /\ CountIn(q, WriteRequests)
              = CountIn(Tail(q), WriteRequests) + IF Head(q).op = "WRITE" THEN 1 ELSE 0
<1>1. /\ Head(q) \in Requests /\ Tail(q) \in Seq(Requests)
      /\ Len(q) \in Nat /\ Len(q) >= 1 /\ Len(Tail(q)) = Len(q) - 1
  OBVIOUS
<1>2. Head(q) \in ReadRequests <=> Head(q).op = "READ"
  BY <1>1, RequestTypes
<1>3. Head(q) \in WriteRequests <=> Head(q).op = "WRITE"
  BY <1>1, RequestTypes
<1> QED BY <1>1, <1>2, <1>3, CountHead

(* The numbers of the invariants are natural numbers.                      *)
LEMMA Counts ==
  ASSUME TypeOK
  PROVE  /\ CountIn(mergeReqQ, ReadRequests) \in Nat /\ CountIn(syncRequestQ, ReadRequests) \in Nat
         /\ CountIn(addrQ, ReadRequests) \in Nat /\ ReadsWaiting \in Nat
         /\ CountIn(addrQ, WriteRequests) \in Nat
         /\ CountIn(addrQ, WriteRequests) <= Len(addrQ)
         /\ Len(readBuffer) \in Nat /\ Len(syncReadDataQ) \in Nat
         /\ Len(dataQ) \in Nat /\ Len(addrQ) \in Nat
         /\ BurstLength * ReadsWaiting \in Nat /\ BeatsOwed \in Nat
<1>1. /\ mergeReqQ \in Seq(Requests) /\ syncRequestQ \in Seq(Requests)
      /\ addrQ \in Seq(Requests) /\ dataQ \in Seq(BeatType)
      /\ readBuffer \in Seq(Nat \cup {Unknown}) /\ syncReadDataQ \in Seq(Nat \cup {Unknown})
  BY DEF TypeOK
<1>2. /\ CountIn(mergeReqQ, ReadRequests) \in Nat /\ CountIn(syncRequestQ, ReadRequests) \in Nat
      /\ CountIn(addrQ, ReadRequests) \in Nat /\ CountIn(addrQ, WriteRequests) \in Nat
      /\ CountIn(addrQ, WriteRequests) <= Len(addrQ)
  BY <1>1, CountType
<1>3. ReadsWaiting \in Nat
  BY <1>2 DEF ReadsWaiting
<1>4. BurstLength * ReadsWaiting \in Nat
  BY <1>3, SramConstants
<1>5. /\ Len(readBuffer) \in Nat /\ Len(syncReadDataQ) \in Nat
      /\ Len(dataQ) \in Nat /\ Len(addrQ) \in Nat
  BY <1>1
<1>6. BeatsOwed \in Nat
  BY <1>4, <1>5 DEF BeatsOwed
<1> QED BY <1>2, <1>3, <1>4, <1>5, <1>6

(* What the credits are for: with the types, they bound what may come.     *)
LEMMA CreditsCover == SramInv => ReadPathNeverBlocks
<1> SUFFICES ASSUME TypeOK, CreditInv PROVE ReadPathNeverBlocks
  BY DEF SramInv
<1> USE SramConstants
<1>1. Len(readBuffer) + Len(syncReadDataQ) <= BeatsOwed
  BY Counts DEF BeatsOwed
<1>2. nInflightReads \in 0 .. MaxReads /\ readBurstCnt \in 0 .. LastBeat /\ initBurstIdx \in 0 .. LastBeat
  BY DEF TypeOK, Beats
<1>3. BurstLength * nInflightReads <= MaxReads * BurstLength
  BY <1>2
<1>4. BurstLength <= MaxReads * BurstLength /\ BurstLength * nInflightReads \in Nat
  BY <1>2
<1>5. BeatsOwed <= MaxReads * BurstLength
  <2> DEFINE m == BurstLength * nInflightReads
             n == MaxReads * BurstLength
  <2>1. n \in Nat /\ m \in Nat /\ m <= n /\ BurstLength <= n
    BY <1>2, <1>3, <1>4
  <2>2. BeatsOwed = m - (LastBeat - readBurstCnt) \/ BeatsOwed = 0
        \/ BeatsOwed = BurstLength - initBurstIdx
    BY DEF CreditInv
  <2> HIDE DEF m, n
  <2> SUFFICES BeatsOwed <= n
    BY DEF n
  <2> QED BY <2>1, <2>2, <1>2
<1> QED
  <2> DEFINE n == MaxReads * BurstLength
  <2>1. n \in Nat /\ BeatsOwed <= n /\ BeatsOwed \in Nat
    BY <1>5, Counts
  <2> HIDE DEF n
  <2>2. Len(readBuffer) + Len(syncReadDataQ) <= n
    BY <2>1, <1>1, Counts
  <2> QED BY <2>2 DEF n, ReadPathNeverBlocks

(* The data of the controller belong to the writes it was given.           *)
LEMMA DataCovered == SramInv => DataFollowsRequest
<1> SUFFICES ASSUME TypeOK, WriteInv PROVE DataFollowsRequest
  BY DEF SramInv
<1> DEFINE w == CountIn(addrQ, WriteRequests)
<1>1. w \in Nat /\ w <= Len(addrQ) /\ Len(addrQ) \in Nat /\ Len(dataQ) \in Nat
  BY Counts
<1>2. Len(dataQ) <= BurstLength * w
  <2>1. BurstLength * w \in Nat
    BY <1>1, SramConstants
  <2>2. Len(dataQ) = BurstLength * w - IF writePending THEN BurstLength - writeBurstIdx ELSE 0
    BY DEF WriteInv
  <2>3. writeBurstIdx \in 0 .. BurstLength /\ writePending \in BOOLEAN
    BY DEF TypeOK
  <2> HIDE DEF w
  <2> DEFINE m == BurstLength * w
  <2>4. m \in Nat /\ Len(dataQ) = m - IF writePending THEN BurstLength - writeBurstIdx ELSE 0
    BY <2>1, <2>2
  <2> HIDE DEF m
  <2>5. Len(dataQ) <= m
    BY <2>3, <2>4, SramConstants
  <2> QED BY <2>5 DEF m
<1> HIDE DEF w
<1>3. BurstLength * w <= BurstLength * Len(addrQ)
  BY <1>1, SramConstants
<1>4. BurstLength * w \in Nat /\ BurstLength * Len(addrQ) \in Nat
  BY <1>1, SramConstants
<1> QED BY <1>1, <1>2, <1>3, <1>4 DEF DataFollowsRequest
-----------------------------------------------------------------------------
(* The rules of the initialisation.                                        *)
LEMMA InitRulesStep == ASSUME SramInv, InitRules PROVE SramInv'
<1> USE SramConstants
<1>0. TypeOK /\ CreditInv /\ WriteInv
  BY DEF SramInv
<1>1. CASE InitRequest
  <2> DEFINE r == IF init0Stage = 0 THEN Read(0) ELSE Write(0)
  <2>1. /\ r \in Requests /\ syncRequestQ \in Seq(Requests)
        /\ syncRequestQ' = Append(syncRequestQ, r) /\ Len(syncRequestQ) < SyncDepth
        /\ init0Stage' = init0Stage + 1 /\ init0Stage \in {0, 1}
        /\ r.op = "READ" <=> init0Stage = 0
    BY <1>0, <1>1, RequestTypes DEF InitRequest, EnqRequest, TypeOK, Read, Write
  <2> HIDE DEF r
  <2>2. TypeOK'
    BY SMTT(30), <1>0, <1>1, <2>1, PutRequest DEF InitRequest, TypeOK, initVars, writeVars, countVars,
       ctrlVars, userVars
  <2>3. ReadsWaiting' = ReadsWaiting + IF init0Stage = 0 THEN 1 ELSE 0
    <3>1. CountIn(syncRequestQ', ReadRequests)
            = CountIn(syncRequestQ, ReadRequests) + IF init0Stage = 0 THEN 1 ELSE 0
      BY <2>1, PutRequest
    <3>2. mergeReqQ' = mergeReqQ /\ addrQ' = addrQ
      BY <1>1 DEF InitRequest
    <3> QED BY SMTT(30), <1>0, <3>1, <3>2, Counts DEF ReadsWaiting
  <2>4. BeatsOwed' = BeatsOwed + IF init0Stage = 0 THEN BurstLength ELSE 0
    <3>1. readBuffer' = readBuffer /\ syncReadDataQ' = syncReadDataQ
      BY <1>1 DEF InitRequest
    <3>2. BurstLength * (ReadsWaiting + 1) = BurstLength * ReadsWaiting + BurstLength
      BY <1>0, Counts
    <3>3. CASE init0Stage = 0
      <4>1. BurstLength * ReadsWaiting' = BurstLength * ReadsWaiting + BurstLength
        BY <2>3, <3>2, <3>3
      <4> QED BY SMTT(30), <1>0, <3>1, <3>3, <4>1, Counts DEF BeatsOwed
    <3>4. CASE init0Stage # 0
      <4>1. ReadsWaiting' = ReadsWaiting
        BY <1>0, <2>3, <3>4, Counts
      <4> QED BY <1>0, <3>1, <3>4, <4>1, Counts DEF BeatsOwed
    <3> QED BY <3>3, <3>4
  <2>5. CreditInv'
    <3>1. /\ state = "INIT" /\ initPhase = 0 /\ state' = state /\ initPhase' = initPhase
          /\ initBurstIdx' = initBurstIdx /\ mergeReqQ' = mergeReqQ
          /\ nInflightReads' = nInflightReads /\ readBurstCnt' = readBurstCnt
      BY <1>1 DEF InitRequest, countVars
    <3>2. /\ nInflightReads = 0 /\ readBurstCnt = LastBeat /\ mergeReqQ = << >> /\ initBurstIdx = 0
          /\ BeatsOwed = IF init0Stage > 0 THEN BurstLength ELSE 0
      BY <1>0, <2>1, <3>1 DEF CreditInv
    <3>3. init0Stage' > 0 /\ BeatsOwed' = BurstLength
      BY <2>1, <2>4, <3>2
    <3> QED BY <2>1, <3>1, <3>2, <3>3 DEF CreditInv
  <2>6. WriteInv'
    BY <1>0, <1>1 DEF InitRequest, WriteInv, writeVars
  <2> QED BY <2>2, <2>5, <2>6 DEF SramInv
<1>2. CASE InitLoopBack
  <2>1. /\ syncReadDataQ \in Seq(Nat \cup {Unknown}) /\ syncReadDataQ # << >>
        /\ syncReadDataQ' = Tail(syncReadDataQ)
        /\ Beat(Head(syncReadDataQ), FALSE) \in BeatType
        /\ syncWriteDataQ \in Seq(BeatType) /\ Len(syncWriteDataQ) < SyncDepth
        /\ syncWriteDataQ' = Append(syncWriteDataQ, Beat(Head(syncReadDataQ), FALSE))
    BY SMTT(30), <1>0, <1>2 DEF InitLoopBack, EnqWriteData, TypeOK, Beat, BeatType
  <2>2. /\ syncReadDataQ' \in Seq(Nat \cup {Unknown}) /\ syncWriteDataQ' \in Seq(BeatType)
        /\ Len(syncReadDataQ') = Len(syncReadDataQ) - 1 /\ Len(syncReadDataQ) \in Nat
        /\ Len(syncWriteDataQ') <= SyncDepth
    <3>1. /\ Tail(syncReadDataQ) \in Seq(Nat \cup {Unknown})
          /\ Len(Tail(syncReadDataQ)) = Len(syncReadDataQ) - 1 /\ Len(syncReadDataQ) \in Nat
      BY <2>1
    <3> DEFINE b == Beat(Head(syncReadDataQ), FALSE)
    <3>2. b \in BeatType /\ syncWriteDataQ' = Append(syncWriteDataQ, b)
          /\ syncWriteDataQ \in Seq(BeatType) /\ Len(syncWriteDataQ) < SyncDepth
      BY <2>1
    <3> HIDE DEF b
    <3>3. syncWriteDataQ' \in Seq(BeatType) /\ Len(syncWriteDataQ') <= SyncDepth
      BY <3>2
    <3> QED BY <2>1, <3>1, <3>3
  <2>3. TypeOK'
    BY SMTT(30), <1>0, <1>2, <2>2 DEF InitLoopBack, TypeOK, Beats, initVars, writeVars, countVars,
       ctrlVars, userVars
  <2>4. ReadsWaiting' = ReadsWaiting
    BY <1>2 DEF InitLoopBack, ReadsWaiting
  <2>5. BeatsOwed' = BeatsOwed - 1
    BY SMTT(30), <1>0, <1>2, <2>2, <2>4, Counts DEF InitLoopBack, BeatsOwed
  <2>6. CreditInv'
    <3>1. /\ state = "INIT" /\ initPhase = 0 /\ init0Stage = 2 /\ state' = state
          /\ init0Stage' = 2 /\ mergeReqQ' = mergeReqQ
          /\ nInflightReads' = nInflightReads /\ readBurstCnt' = readBurstCnt
      BY <1>2 DEF InitLoopBack, countVars
    <3>2. /\ nInflightReads = 0 /\ readBurstCnt = LastBeat /\ mergeReqQ = << >>
          /\ BeatsOwed = BurstLength - initBurstIdx
      BY <1>0, <3>1 DEF CreditInv
    <3>3. initBurstIdx \in 0 .. LastBeat
      BY <1>0 DEF TypeOK, Beats
    <3>4. CASE initBurstIdx = LastBeat
      <4>1. initPhase' = 1 /\ initBurstIdx' = 0 /\ BeatsOwed' = 0
        BY <1>2, <2>5, <3>2, <3>4 DEF InitLoopBack
      <4> QED BY <3>1, <3>2, <4>1 DEF CreditInv
    <3>5. CASE initBurstIdx # LastBeat
      <4>1. initPhase' = 0 /\ initBurstIdx' = initBurstIdx + 1
            /\ BeatsOwed' = BurstLength - initBurstIdx'
        BY <1>2, <2>5, <3>1, <3>2, <3>3, <3>5 DEF InitLoopBack
      <4> QED BY <3>1, <3>2, <4>1 DEF CreditInv
    <3> QED BY <3>4, <3>5
  <2>7. WriteInv'
    BY <1>0, <1>2 DEF InitLoopBack, WriteInv, writeVars
  <2> QED BY <2>3, <2>6, <2>7 DEF SramInv
<1>3. CASE InitPhase1
  <2>1. /\ Beat(Pattern, FALSE) \in BeatType
        /\ syncWriteDataQ' \in Seq(BeatType) /\ Len(syncWriteDataQ') <= SyncDepth
    BY <1>0, <1>3 DEF InitPhase1, EnqWriteData, TypeOK, Beat, BeatType, Pattern
  <2>2. /\ syncRequestQ' \in Seq(Requests) /\ Len(syncRequestQ') <= SyncDepth
        /\ CountIn(syncRequestQ', ReadRequests) = CountIn(syncRequestQ, ReadRequests)
    <3>1. CASE initBurstIdx = 0
      <4>1. /\ Write(initAddr) \in Requests /\ Write(initAddr).op = "WRITE"
            /\ syncRequestQ \in Seq(Requests) /\ Len(syncRequestQ) < SyncDepth
            /\ syncRequestQ' = Append(syncRequestQ, Write(initAddr))
        BY <1>0, <1>3, <3>1, RequestTypes DEF InitPhase1, EnqRequest, TypeOK, Write
      <4>2. CountIn(syncRequestQ, ReadRequests) \in Nat
        BY <1>0, Counts
      <4> HIDE DEF Write
      <4> QED BY <4>1, <4>2, PutRequest
    <3>2. CASE initBurstIdx # 0
      BY <1>0, <1>3, <3>2 DEF InitPhase1, TypeOK
    <3> QED BY <3>1, <3>2
  <2>3. initBurstIdx' \in Beats /\ initAddr' \in Addrs /\ state' \in {"INIT", "READY"}
    <3>1. (initAddr + 1) % NumAddrs \in Addrs
      BY SMTT(30), <1>0 DEF TypeOK, Addrs
    <3> QED BY <1>0, <1>3, <3>1 DEF InitPhase1, TypeOK, Beats
  <2>4. TypeOK'
    BY <1>0, <1>3, <2>1, <2>2, <2>3 DEF InitPhase1, TypeOK, writeVars, countVars, ctrlVars, userVars
  <2>5. BeatsOwed' = BeatsOwed
    BY <1>0, <1>3, <2>2 DEF InitPhase1, BeatsOwed, ReadsWaiting
  <2>6. CreditInv'
    <3>1. BurstLength * 0 = 0
      OBVIOUS
    <3>2. initPhase = 1 /\ initPhase' = 1 /\ init0Stage' = init0Stage /\ state = "INIT"
          /\ nInflightReads' = nInflightReads /\ readBurstCnt' = readBurstCnt
          /\ mergeReqQ' = mergeReqQ
      BY <1>3 DEF InitPhase1, countVars
    <3>3. nInflightReads = 0 /\ readBurstCnt = LastBeat /\ mergeReqQ = << >> /\ init0Stage = 2
          /\ BeatsOwed = 0
      BY <1>0, <3>2 DEF CreditInv
    <3> QED BY <2>5, <3>1, <3>2, <3>3 DEF CreditInv
  <2>7. WriteInv'
    BY <1>0, <1>3 DEF InitPhase1, WriteInv, writeVars
  <2> QED BY <2>4, <2>6, <2>7 DEF SramInv
<1> QED BY <1>1, <1>2, <1>3 DEF InitRules
(* The rules that carry requests and data.                                 *)
LEMMA RulesStep == ASSUME SramInv, Rules PROVE SramInv'
<1> USE SramConstants
<1>0. TypeOK /\ CreditInv /\ WriteInv
  BY DEF SramInv
<1>1. CASE ForwardIncomingReq
  <2>1. /\ mergeReqQ \in Seq(Requests) /\ mergeReqQ # << >> /\ mergeReqQ' = Tail(mergeReqQ)
        /\ syncRequestQ \in Seq(Requests) /\ Len(syncRequestQ) < SyncDepth
        /\ syncRequestQ' = Append(syncRequestQ, Head(mergeReqQ))
    BY <1>0, <1>1 DEF ForwardIncomingReq, EnqRequest, TypeOK
  <2>2. TypeOK'
    BY SMTT(30), <1>0, <1>1, <2>1, PutRequest, TakeRequest DEF ForwardIncomingReq, TypeOK, initVars,
       writeVars, countVars, ctrlVars, userVars
  <2>3. ReadsWaiting' = ReadsWaiting
    <3>1. /\ CountIn(mergeReqQ, ReadRequests) = CountIn(mergeReqQ', ReadRequests)
               + IF Head(mergeReqQ).op = "READ" THEN 1 ELSE 0
          /\ CountIn(syncRequestQ', ReadRequests) = CountIn(syncRequestQ, ReadRequests)
               + IF Head(mergeReqQ).op = "READ" THEN 1 ELSE 0
          /\ mergeReqQ' \in Seq(Requests)
      BY <2>1, PutRequest, TakeRequest
    <3>2. CountIn(mergeReqQ', ReadRequests) \in Nat
      BY <3>1, CountType
    <3> QED BY <1>0, <1>1, <3>1, <3>2, Counts DEF ForwardIncomingReq, ReadsWaiting
  <2>4. CreditInv'
    <3>1. state = "READY" /\ state' = state /\ nInflightReads' = nInflightReads
          /\ readBurstCnt' = readBurstCnt /\ BeatsOwed' = BeatsOwed
      BY <1>1, <2>3 DEF ForwardIncomingReq, initVars, countVars, BeatsOwed
    <3> QED BY <1>0, <3>1 DEF CreditInv
  <2>5. WriteInv'
    BY <1>0, <1>1 DEF ForwardIncomingReq, WriteInv, writeVars
  <2> QED BY <2>2, <2>4, <2>5 DEF SramInv
<1>2. CASE ProcessReadRequest
  <2>1. /\ syncRequestQ \in Seq(Requests) /\ syncRequestQ # << >>
        /\ Head(syncRequestQ).op = "READ" /\ syncRequestQ' = Tail(syncRequestQ)
        /\ addrQ \in Seq(Requests) /\ Len(addrQ) < CtrlDepth
        /\ addrQ' = Append(addrQ, Head(syncRequestQ))
    BY <1>0, <1>2 DEF ProcessReadRequest, EnqueueAddress, TypeOK
  <2>2. TypeOK'
    BY SMTT(30), <1>0, <1>2, <2>1, PutRequest, TakeRequest DEF ProcessReadRequest, TypeOK, initVars,
       writeVars, countVars, ctrlVars, userVars
  <2>3. /\ CountIn(syncRequestQ, ReadRequests) = CountIn(syncRequestQ', ReadRequests) + 1
        /\ CountIn(addrQ', ReadRequests) = CountIn(addrQ, ReadRequests) + 1
        /\ CountIn(addrQ', WriteRequests) = CountIn(addrQ, WriteRequests)
        /\ CountIn(syncRequestQ', ReadRequests) \in Nat
    <3>1. Head(syncRequestQ) \in Requests /\ syncRequestQ' \in Seq(Requests)
      BY <2>1, TakeRequest
    <3>2. Head(syncRequestQ).op # "WRITE"
      BY <2>1
    <3>3. CountIn(syncRequestQ, ReadRequests) = CountIn(syncRequestQ', ReadRequests) + 1
      BY <2>1, TakeRequest
    <3>4. CountIn(addrQ', ReadRequests) = CountIn(addrQ, ReadRequests) + 1
      BY <2>1, <3>1, PutRequest
    <3>5. CountIn(addrQ', WriteRequests) = CountIn(addrQ, WriteRequests) + 0
      BY <2>1, <3>1, <3>2, PutRequest
    <3>6. CountIn(syncRequestQ', ReadRequests) \in Nat
      BY <3>1, CountType
    <3> QED BY <1>0, <3>3, <3>4, <3>5, <3>6, Counts
  <2>4. ReadsWaiting' = ReadsWaiting
    BY SMTT(30), <1>0, <1>2, <2>3, Counts DEF ProcessReadRequest, ReadsWaiting
  <2>5. CreditInv'
    <3>1. BeatsOwed' = BeatsOwed
      BY <1>2, <2>4 DEF ProcessReadRequest, BeatsOwed
    <3> QED BY <1>0, <1>2, <3>1 DEF ProcessReadRequest, CreditInv, initVars, countVars
  <2>6. WriteInv'
    BY <1>0, <1>2, <2>3 DEF ProcessReadRequest, WriteInv, writeVars
  <2> QED BY <2>2, <2>5, <2>6 DEF SramInv
<1>3. CASE WriteDataToBuffer
  <2>1. /\ syncWriteDataQ' \in Seq(BeatType) /\ Len(syncWriteDataQ') <= SyncDepth
        /\ writeBuffer' \in Seq(BeatType) /\ Len(writeBuffer') <= 1
    <3>1. syncWriteDataQ \in Seq(BeatType) /\ syncWriteDataQ # << >> /\ Len(syncWriteDataQ) <= SyncDepth
          /\ syncWriteDataQ' = Tail(syncWriteDataQ) /\ writeBuffer' = <<Head(syncWriteDataQ)>>
      BY <1>0, <1>3 DEF WriteDataToBuffer, TypeOK
    <3> QED BY <3>1
  <2>2. TypeOK'
    BY <1>0, <1>3, <2>1 DEF WriteDataToBuffer, TypeOK, initVars, countVars, ctrlVars, userVars
  <2>3. CreditInv'
    BY <1>0, <1>3 DEF WriteDataToBuffer, CreditInv, BeatsOwed, ReadsWaiting, initVars, countVars
  <2>4. WriteInv'
    BY <1>0, <1>3 DEF WriteDataToBuffer, WriteInv
  <2> QED BY <2>2, <2>3, <2>4 DEF SramInv
<1>4. CASE CopyWriteData
  <2>1. /\ writeBuffer' \in Seq(BeatType) /\ Len(writeBuffer') <= 1
        /\ writeValue' \in [Beats -> BeatType]
        /\ writeBurstIdx' \in 0 .. BurstLength /\ writeBurstIdx' = writeBurstIdx + 1
    <3>1. writeBuffer \in Seq(BeatType) /\ writeBuffer # << >> /\ writeBuffer' = << >>
          /\ writeValue \in [Beats -> BeatType] /\ writeBurstIdx \in 0 .. BurstLength
          /\ writeValue' = [writeValue EXCEPT ![writeBurstIdx] = Head(writeBuffer)]
          /\ writeBurstIdx # BurstLength /\ writeBurstIdx' = writeBurstIdx + 1
      BY <1>0, <1>4 DEF CopyWriteData, TypeOK
    <3>2. Head(writeBuffer) \in BeatType
      BY <3>1
    <3>3. writeBurstIdx' \in 0 .. BurstLength /\ writeBurstIdx' = writeBurstIdx + 1
      BY <3>1
    <3>4. writeBuffer' \in Seq(BeatType) /\ Len(writeBuffer') <= 1
      BY <3>1
    <3>5. writeValue' \in [Beats -> BeatType]
      BY <3>1, <3>2
    <3> QED BY <3>3, <3>4, <3>5
  <2>2. TypeOK'
    BY <1>0, <1>4, <2>1 DEF CopyWriteData, TypeOK, initVars, countVars, ctrlVars, userVars
  <2>3. CreditInv'
    BY <1>0, <1>4 DEF CopyWriteData, CreditInv, BeatsOwed, ReadsWaiting, initVars, countVars
  <2>4. WriteInv'
    BY <1>0, <1>4 DEF CopyWriteData, WriteInv
  <2> QED BY <2>2, <2>3, <2>4 DEF SramInv
<1>5. CASE ProcessWriteRequest0
  <2>1. /\ syncRequestQ \in Seq(Requests) /\ syncRequestQ # << >>
        /\ Head(syncRequestQ).op = "WRITE" /\ syncRequestQ' = Tail(syncRequestQ)
        /\ addrQ \in Seq(Requests) /\ Len(addrQ) < CtrlDepth
        /\ addrQ' = Append(addrQ, Head(syncRequestQ))
        /\ dataQ \in Seq(BeatType) /\ writeValue[0] \in BeatType
        /\ dataQ' = Append(dataQ, writeValue[0])
    BY <1>0, <1>5 DEF ProcessWriteRequest0, EnqueueAddress, TypeOK
  <2>2. /\ dataQ' \in Seq(BeatType) /\ Len(dataQ') = Len(dataQ) + 1
        /\ writePending' \in BOOLEAN /\ writeBurstIdx' \in 0 .. BurstLength
    <3>1. dataQ' \in Seq(BeatType) /\ Len(dataQ') = Len(dataQ) + 1
      BY <2>1
    <3>2. writePending' \in BOOLEAN
      <4>1. writePending \in BOOLEAN /\ writePending' \in {TRUE, writePending}
        BY <1>0, <1>5 DEF ProcessWriteRequest0, TypeOK
      <4> QED BY <4>1
    <3>3. writeBurstIdx' \in 0 .. BurstLength
      BY SMTT(30), <1>0, <1>5 DEF ProcessWriteRequest0, TypeOK
    <3> QED BY <3>1, <3>2, <3>3
  <2>3. TypeOK'
    <3>1. /\ syncRequestQ' \in Seq(Requests) /\ Len(syncRequestQ') <= SyncDepth
          /\ addrQ' \in Seq(Requests) /\ Len(addrQ') <= CtrlDepth
      <4>1. Head(syncRequestQ) \in Requests /\ syncRequestQ' \in Seq(Requests)
            /\ Len(syncRequestQ') = Len(syncRequestQ) - 1 /\ Len(syncRequestQ) \in Nat
        BY <2>1, TakeRequest
      <4>2. addrQ' \in Seq(Requests) /\ Len(addrQ') = Len(addrQ) + 1 /\ Len(addrQ) \in Nat
        BY <2>1, <4>1, PutRequest
      <4>3. Len(syncRequestQ) <= SyncDepth
        BY <1>0 DEF TypeOK
      <4> QED BY <2>1, <4>1, <4>2, <4>3
    <3> QED BY <1>0, <1>5, <2>2, <3>1 DEF ProcessWriteRequest0, TypeOK, initVars,
               countVars, ctrlVars, userVars
  <2>4. /\ CountIn(syncRequestQ, ReadRequests) = CountIn(syncRequestQ', ReadRequests)
        /\ CountIn(addrQ', ReadRequests) = CountIn(addrQ, ReadRequests)
        /\ CountIn(addrQ', WriteRequests) = CountIn(addrQ, WriteRequests) + 1
    <3>1. Head(syncRequestQ) \in Requests /\ syncRequestQ' \in Seq(Requests)
      BY <2>1, TakeRequest
    <3>2. Head(syncRequestQ).op # "READ"
      BY <2>1
    <3>3. CountIn(syncRequestQ, ReadRequests) = CountIn(syncRequestQ', ReadRequests) + 0
      BY <2>1, <3>2, TakeRequest
    <3>4. CountIn(addrQ', ReadRequests) = CountIn(addrQ, ReadRequests) + 0
      BY <2>1, <3>1, <3>2, PutRequest
    <3>5. CountIn(addrQ', WriteRequests) = CountIn(addrQ, WriteRequests) + 1
      BY <2>1, <3>1, PutRequest
    <3>6. CountIn(syncRequestQ', ReadRequests) \in Nat
      BY <3>1, CountType
    <3> QED BY <1>0, <3>3, <3>4, <3>5, <3>6, Counts
  <2>5. ReadsWaiting' = ReadsWaiting
    BY <1>5, <2>4 DEF ProcessWriteRequest0, ReadsWaiting
  <2>6. CreditInv'
    <3>1. BeatsOwed' = BeatsOwed
      BY <1>5, <2>5 DEF ProcessWriteRequest0, BeatsOwed
    <3> QED BY <1>0, <1>5, <3>1 DEF ProcessWriteRequest0, CreditInv, initVars, countVars
  <2>7. WriteInv'
    <3>1. Len(dataQ) = BurstLength * CountIn(addrQ, WriteRequests)
      BY <1>0, <1>5, Counts DEF ProcessWriteRequest0, WriteInv
    <3>2. BurstLength * CountIn(addrQ', WriteRequests)
            = BurstLength * CountIn(addrQ, WriteRequests) + BurstLength
      BY <1>0, <2>4, Counts
    <3> DEFINE m == BurstLength * CountIn(addrQ, WriteRequests)
    <3>3. m \in Nat
      BY <1>0, Counts
    <3>4. m' = m + BurstLength /\ Len(dataQ) = m
      BY <3>1, <3>2
    <3>5. CASE LastBeat = 0
      <4>1. writePending' = FALSE
        BY <1>5, <3>5 DEF ProcessWriteRequest0
      <4> HIDE DEF m
      <4>2. Len(dataQ') = m'
        BY <2>2, <3>3, <3>4, <3>5
      <4> QED BY <4>1, <4>2 DEF WriteInv, m
    <3>6. CASE LastBeat # 0
      <4>1. writePending' = TRUE /\ writeBurstIdx' = 1
        BY <1>5, <3>6 DEF ProcessWriteRequest0
      <4> HIDE DEF m
      <4>2. Len(dataQ') = m' - (BurstLength - writeBurstIdx') /\ writeBurstIdx' \in 1 .. LastBeat
        BY <2>2, <3>3, <3>4, <3>6, <4>1
      <4> QED BY <4>1, <4>2 DEF WriteInv, m
    <3> QED BY <3>5, <3>6
  <2> QED BY <2>3, <2>6, <2>7 DEF SramInv
<1>6. CASE ProcessWriteRequest1
  <2>1. writeBurstIdx \in 1 .. LastBeat /\ writePending = TRUE
    BY <1>0, <1>6 DEF ProcessWriteRequest1, WriteInv, TypeOK
  <2>2. /\ dataQ' \in Seq(BeatType) /\ Len(dataQ') = Len(dataQ) + 1
        /\ writePending' \in BOOLEAN /\ writeBurstIdx' \in 0 .. BurstLength
    <3>1. dataQ \in Seq(BeatType) /\ writeValue[writeBurstIdx] \in BeatType
          /\ dataQ' = Append(dataQ, writeValue[writeBurstIdx])
      BY <1>0, <1>6, <2>1 DEF ProcessWriteRequest1, TypeOK, Beats
    <3>2. dataQ' \in Seq(BeatType) /\ Len(dataQ') = Len(dataQ) + 1
      BY <3>1
    <3>3. writePending' \in BOOLEAN
      <4>1. writePending' \in {FALSE, writePending} /\ writePending \in BOOLEAN
        BY <1>0, <1>6 DEF ProcessWriteRequest1, TypeOK
      <4> QED BY <4>1
    <3>4. writeBurstIdx' \in 0 .. BurstLength
      <4>1. writeBurstIdx' = IF writeBurstIdx = LastBeat THEN 0 ELSE writeBurstIdx + 1
        BY <1>6 DEF ProcessWriteRequest1
      <4> QED BY <2>1, <4>1
    <3> QED BY <3>2, <3>3, <3>4
  <2>3. TypeOK'
    BY <1>0, <1>6, <2>2 DEF ProcessWriteRequest1, TypeOK, initVars, countVars, ctrlVars, userVars
  <2>4. CreditInv'
    BY <1>0, <1>6 DEF ProcessWriteRequest1, CreditInv, BeatsOwed, ReadsWaiting, initVars, countVars
  <2>5. WriteInv'
    <3> DEFINE m == BurstLength * CountIn(addrQ, WriteRequests)
    <3>1. Len(dataQ) = m - (BurstLength - writeBurstIdx) /\ m \in Nat /\ addrQ' = addrQ
      BY SMTT(30), <1>0, <1>6, <2>1, Counts DEF WriteInv, ProcessWriteRequest1
    <3>2. m' = m
      BY <3>1
    <3> HIDE DEF m
    <3>3. CASE writeBurstIdx = LastBeat
      <4>1. writePending' = FALSE /\ Len(dataQ') = m'
        BY <1>6, <2>1, <2>2, <3>1, <3>2, <3>3 DEF ProcessWriteRequest1
      <4> QED BY <4>1 DEF WriteInv, m
    <3>4. CASE writeBurstIdx # LastBeat
      <4>1. writePending' = TRUE /\ writeBurstIdx' = writeBurstIdx + 1
        BY <1>6, <2>1, <3>4 DEF ProcessWriteRequest1
      <4>2. Len(dataQ') = m' - (BurstLength - writeBurstIdx') /\ writeBurstIdx' \in 1 .. LastBeat
        BY <2>1, <2>2, <3>1, <3>2, <3>4, <4>1
      <4> QED BY <4>1, <4>2 DEF WriteInv, m
    <3> QED BY <3>3, <3>4
  <2> QED BY <2>3, <2>4, <2>5 DEF SramInv
<1>7. CASE ReadRAMBufferToModel
  <2>1. /\ readBuffer' \in Seq(Nat \cup {Unknown}) /\ syncReadDataQ' \in Seq(Nat \cup {Unknown})
        /\ Len(readBuffer') = Len(readBuffer) - 1 /\ Len(syncReadDataQ') = Len(syncReadDataQ) + 1
    <3>1. readBuffer \in Seq(Nat \cup {Unknown}) /\ syncReadDataQ \in Seq(Nat \cup {Unknown})
          /\ readBuffer # << >> /\ readBuffer' = Tail(readBuffer)
          /\ syncReadDataQ' = Append(syncReadDataQ, Head(readBuffer))
      BY <1>0, <1>7 DEF ReadRAMBufferToModel, TypeOK
    <3> QED BY <3>1
  <2>2. TypeOK'
    BY <1>0, <1>7, <2>1 DEF ReadRAMBufferToModel, TypeOK, initVars, writeVars, countVars, ctrlVars,
       userVars
  <2>3. BeatsOwed' = BeatsOwed
    <3>1. ReadsWaiting' = ReadsWaiting
      BY <1>7 DEF ReadRAMBufferToModel, ReadsWaiting
    <3>2. BurstLength * ReadsWaiting \in Nat
      BY <1>0, Counts
    <3> QED BY SMTT(30), <1>0, <2>1, <3>1, <3>2, Counts DEF BeatsOwed
  <2>4. CreditInv'
    BY <1>0, <1>7, <2>3 DEF ReadRAMBufferToModel, CreditInv, initVars, countVars
  <2>5. WriteInv'
    BY <1>0, <1>7 DEF ReadRAMBufferToModel, WriteInv, writeVars
  <2> QED BY <2>2, <2>4, <2>5 DEF SramInv
<1> QED BY <1>1, <1>2, <1>3, <1>4, <1>5, <1>6, <1>7 DEF Rules
(* The controller and the clocks.                                          *)
LEMMA ControllerStep == ASSUME SramInv, Controller PROVE SramInv'
<1> USE SramConstants
<1>0. TypeOK /\ CreditInv /\ WriteInv
  BY DEF SramInv
<1>1. CASE ClockLocks
  <2>1. TypeOK'
    BY <1>0, <1>1 DEF ClockLocks, TypeOK, initVars, writeVars, countVars, userVars
  <2>2. CreditInv'
    BY <1>0, <1>1 DEF ClockLocks, CreditInv, BeatsOwed, ReadsWaiting, initVars, countVars
  <2>3. WriteInv'
    BY <1>0, <1>1 DEF ClockLocks, WriteInv, writeVars
  <2> QED BY <2>1, <2>2, <2>3 DEF SramInv
<1>2. CASE Calibrated
  <2>1. TypeOK'
    BY <1>0, <1>2 DEF Calibrated, TypeOK, initVars, writeVars, countVars, userVars
  <2>2. CreditInv'
    BY <1>0, <1>2 DEF Calibrated, CreditInv, BeatsOwed, ReadsWaiting, initVars, countVars
  <2>3. WriteInv'
    BY <1>0, <1>2 DEF Calibrated, WriteInv, writeVars
  <2> QED BY <2>1, <2>2, <2>3 DEF SramInv
<1>3. CASE ControllerRead
  <2>1. /\ addrQ \in Seq(Requests) /\ addrQ # << >> /\ Head(addrQ).op = "READ"
        /\ addrQ' = Tail(addrQ) /\ Len(addrQ) <= CtrlDepth
        /\ readBuffer' = readBuffer \o Burst(Head(addrQ).addr)
    BY <1>0, <1>3 DEF ControllerRead, TypeOK
  <2>2. Head(addrQ).addr \in Addrs
    BY <2>1, TakeRequest, RequestTypes
  <2>3. /\ readBuffer' \in Seq(Nat \cup {Unknown})
        /\ Len(readBuffer') = Len(readBuffer) + BurstLength
    <3> DEFINE b == Burst(Head(addrQ).addr)
    <3>1. \A i \in 1 .. BurstLength : mem[Head(addrQ).addr][i - 1] \in Nat \cup {Unknown}
      <4>1. mem[Head(addrQ).addr] \in [Beats -> Nat \cup {Unknown}]
        BY <1>0, <2>2 DEF TypeOK
      <4> QED BY <4>1 DEF Beats
    <3>2. b \in Seq(Nat \cup {Unknown}) /\ Len(b) = BurstLength
      <4>1. b \in [1 .. BurstLength -> Nat \cup {Unknown}]
        BY <3>1 DEF Burst
      <4> HIDE DEF b
      <4> QED BY <4>1
    <3>3. readBuffer \in Seq(Nat \cup {Unknown}) /\ readBuffer' = readBuffer \o b
      BY <1>0, <2>1 DEF TypeOK
    <3> HIDE DEF b
    <3> QED BY <3>2, <3>3, ConcatProperties
  <2>4. /\ addrQ' \in Seq(Requests) /\ Len(addrQ') <= CtrlDepth
        /\ CountIn(addrQ, ReadRequests) = CountIn(addrQ', ReadRequests) + 1
        /\ CountIn(addrQ, WriteRequests) = CountIn(addrQ', WriteRequests)
        /\ CountIn(addrQ', ReadRequests) \in Nat
    <3>1. /\ addrQ' \in Seq(Requests) /\ Len(addrQ') = Len(addrQ) - 1 /\ Len(addrQ) \in Nat
          /\ CountIn(addrQ, ReadRequests) = CountIn(addrQ', ReadRequests) + 1
      BY <2>1, TakeRequest
    <3>2. Head(addrQ).op # "WRITE"
      BY <2>1
    <3>3. CountIn(addrQ, WriteRequests) = CountIn(addrQ', WriteRequests) + 0
      BY <2>1, <3>2, TakeRequest
    <3>4. CountIn(addrQ', ReadRequests) \in Nat /\ CountIn(addrQ', WriteRequests) \in Nat
      BY <3>1, CountType
    <3> QED BY <2>1, <3>1, <3>3, <3>4
  <2>5. TypeOK'
    BY <1>0, <1>3, <2>3, <2>4 DEF ControllerRead, TypeOK, initVars, writeVars, countVars, ctrlVars,
       userVars
  <2>6. BeatsOwed' = BeatsOwed
    <3>1. ReadsWaiting = ReadsWaiting' + 1 /\ ReadsWaiting' \in Nat
      <4>1. mergeReqQ' = mergeReqQ /\ syncRequestQ' = syncRequestQ
        BY <1>3 DEF ControllerRead
      <4>2. ReadsWaiting' = CountIn(mergeReqQ, ReadRequests) + CountIn(syncRequestQ, ReadRequests)
                              + CountIn(addrQ', ReadRequests)
        BY <4>1 DEF ReadsWaiting
      <4>3. /\ CountIn(mergeReqQ, ReadRequests) \in Nat /\ CountIn(syncRequestQ, ReadRequests) \in Nat
            /\ CountIn(addrQ', ReadRequests) \in Nat
            /\ CountIn(addrQ, ReadRequests) = CountIn(addrQ', ReadRequests) + 1
        BY <1>0, <2>4, Counts
      <4> QED BY <4>2, <4>3 DEF ReadsWaiting
    <3>2. BurstLength * ReadsWaiting = BurstLength * ReadsWaiting' + BurstLength
          /\ BurstLength * ReadsWaiting' \in Nat
      <4> DEFINE n == ReadsWaiting'
      <4>1. n \in Nat /\ ReadsWaiting = n + 1
        BY <3>1
      <4> HIDE DEF n
      <4>2. BurstLength * ReadsWaiting = BurstLength * n + BurstLength /\ BurstLength * n \in Nat
        BY <4>1
      <4> QED BY <4>2 DEF n
    <3>3. syncReadDataQ' = syncReadDataQ
      BY <1>3 DEF ControllerRead
    <3> QED BY <1>0, <2>3, <3>2, <3>3, Counts DEF BeatsOwed
  <2>7. CreditInv'
    BY <1>0, <1>3, <2>6 DEF ControllerRead, CreditInv, initVars, countVars
  <2>8. WriteInv'
    BY <1>0, <1>3, <2>4 DEF ControllerRead, WriteInv, writeVars
  <2> QED BY <2>5, <2>7, <2>8 DEF SramInv
<1>4. CASE ControllerWrite
  <2>1. /\ addrQ \in Seq(Requests) /\ addrQ # << >> /\ Head(addrQ).op = "WRITE"
        /\ addrQ' = Tail(addrQ) /\ Len(addrQ) <= CtrlDepth
        /\ dataQ \in Seq(BeatType) /\ Len(dataQ) >= BurstLength /\ Len(dataQ) \in Nat
        /\ dataQ' = SubSeq(dataQ, BurstLength + 1, Len(dataQ))
    BY <1>0, <1>4 DEF ControllerWrite, TypeOK
  <2>2. /\ addrQ' \in Seq(Requests) /\ Len(addrQ') <= CtrlDepth
        /\ CountIn(addrQ, ReadRequests) = CountIn(addrQ', ReadRequests)
        /\ CountIn(addrQ, WriteRequests) = CountIn(addrQ', WriteRequests) + 1
        /\ CountIn(addrQ', WriteRequests) \in Nat
    <3>1. /\ addrQ' \in Seq(Requests) /\ Len(addrQ') = Len(addrQ) - 1 /\ Len(addrQ) \in Nat
          /\ CountIn(addrQ, WriteRequests) = CountIn(addrQ', WriteRequests) + 1
      BY <2>1, TakeRequest
    <3>2. Head(addrQ).op # "READ"
      BY <2>1
    <3>3. CountIn(addrQ, ReadRequests) = CountIn(addrQ', ReadRequests) + 0
      BY <2>1, <3>2, TakeRequest
    <3>4. CountIn(addrQ', ReadRequests) \in Nat /\ CountIn(addrQ', WriteRequests) \in Nat
      BY <3>1, CountType
    <3> QED BY <2>1, <3>1, <3>3, <3>4
  <2>3. dataQ' \in Seq(BeatType) /\ Len(dataQ') = Len(dataQ) - BurstLength
    BY <2>1
  <2>4. mem' \in [Addrs -> [Beats -> Nat \cup {Unknown}]]
    <3> DEFINE a == Head(addrQ).addr
               new == [b \in Beats |-> IF dataQ[b + 1].masked THEN mem[a][b] ELSE dataQ[b + 1].value]
    <3>1. a \in Addrs
      BY <2>1, TakeRequest, RequestTypes
    <3>2. mem \in [Addrs -> [Beats -> Nat \cup {Unknown}]] /\ mem' = [mem EXCEPT ![a] = new]
      BY <1>0, <1>4 DEF ControllerWrite, TypeOK
    <3>3. \A b \in Beats : dataQ[b + 1] \in BeatType
      BY <2>1 DEF Beats
    <3>4. \A b \in Beats : dataQ[b + 1].value \in Nat \cup {Unknown}
      BY <3>3 DEF BeatType
    <3>5. \A b \in Beats : mem[a][b] \in Nat \cup {Unknown}
      BY <3>1, <3>2
    <3>6. new \in [Beats -> Nat \cup {Unknown}]
      BY <3>4, <3>5
    <3> HIDE DEF new, a
    <3> QED BY <3>1, <3>2, <3>6
  <2>5. TypeOK'
    BY <1>0, <1>4, <2>2, <2>3, <2>4 DEF ControllerWrite, TypeOK, initVars, writeVars, countVars,
       userVars
  <2>6. CreditInv'
    <3>1. BeatsOwed' = BeatsOwed
      BY <1>4, <2>2 DEF ControllerWrite, BeatsOwed, ReadsWaiting
    <3> QED BY <1>0, <1>4, <3>1 DEF ControllerWrite, CreditInv, initVars, countVars
  <2>7. WriteInv'
    <3> DEFINE m == BurstLength * CountIn(addrQ, WriteRequests)
               k == IF writePending THEN BurstLength - writeBurstIdx ELSE 0
    <3>1. m = m' + BurstLength /\ m' \in Nat
      BY <2>2
    <3>2. k' = k /\ k \in Int
      BY <1>0, <1>4 DEF ControllerWrite, writeVars, TypeOK
    <3>3. Len(dataQ) = m - k
      BY <1>0 DEF WriteInv
    <3> HIDE DEF m, k
    <3>4. Len(dataQ') = m' - k'
      <4>1. Len(dataQ') = Len(dataQ) - BurstLength /\ Len(dataQ) \in Nat
        BY <2>1, <2>3
      <4> QED BY <4>1, <3>1, <3>2, <3>3
    <3>5. writePending' => writeBurstIdx' \in 1 .. LastBeat
      BY <1>0, <1>4 DEF ControllerWrite, writeVars, WriteInv
    <3> QED BY <3>4, <3>5 DEF WriteInv, m, k
  <2> QED BY <2>5, <2>6, <2>7 DEF SramInv
<1> QED BY <1>1, <1>2, <1>3, <1>4 DEF Controller

(* The methods, as the client calls them.                                  *)
LEMMA ClientStep == ASSUME SramInv, Client PROVE SramInv'
<1> USE SramConstants
<1>0. TypeOK /\ CreditInv /\ WriteInv
  BY DEF SramInv
<1>1. ASSUME NEW a \in Addrs, ReadReq(a) PROVE SramInv'
  <2>1. /\ mergeReqQ \in Seq(Requests) /\ Len(mergeReqQ) < MergeDepth /\ requests \in Seq(Requests)
        /\ mergeReqQ' = Append(mergeReqQ, Read(a)) /\ requests' = Append(requests, Read(a))
        /\ nInflightReads' = nInflightReads + 1 /\ nInflightReads < MaxReads
        /\ nInflightReads \in Nat
    BY <1>0, <1>1 DEF ReadReq, TypeOK
  <2>2. Read(a) \in Requests /\ Read(a).op = "READ"
    BY RequestTypes DEF Read
  <2>3. /\ mergeReqQ' \in Seq(Requests) /\ Len(mergeReqQ') <= MergeDepth
        /\ requests' \in Seq(Requests) /\ nInflightReads' \in 0 .. MaxReads
        /\ CountIn(mergeReqQ', ReadRequests) = CountIn(mergeReqQ, ReadRequests) + 1
    <3> HIDE DEF Read
    <3>1. /\ mergeReqQ' \in Seq(Requests) /\ Len(mergeReqQ') = Len(mergeReqQ) + 1
          /\ CountIn(mergeReqQ', ReadRequests) = CountIn(mergeReqQ, ReadRequests) + 1
      BY <2>1, <2>2, PutRequest
    <3>2. requests' \in Seq(Requests)
      BY <2>1, <2>2, PutRequest
    <3> QED BY <2>1, <3>1, <3>2
  <2>4. TypeOK'
    BY <1>0, <1>1, <2>3 DEF ReadReq, TypeOK, initVars, writeVars, ctrlVars
  <2>5. BeatsOwed' = BeatsOwed + BurstLength
    <3>1. ReadsWaiting' = ReadsWaiting + 1
      <4>1. addrQ' = addrQ /\ syncRequestQ' = syncRequestQ
        BY <1>1 DEF ReadReq
      <4> QED BY SMTT(30), <1>0, <2>3, <4>1, Counts DEF ReadsWaiting
    <3>2. BurstLength * ReadsWaiting' = BurstLength * ReadsWaiting + BurstLength
      BY <1>0, <3>1, Counts
    <3>3. readBuffer' = readBuffer /\ syncReadDataQ' = syncReadDataQ
      BY <1>1 DEF ReadReq
    <3> QED BY SMTT(30), <1>0, <3>2, <3>3, Counts DEF BeatsOwed
  <2>6. CreditInv'
    <3> DEFINE m == BurstLength * nInflightReads
    <3>1. state = "READY" /\ state' = "READY" /\ readBurstCnt' = readBurstCnt
      BY <1>1 DEF ReadReq, initVars
    <3>2. BeatsOwed = m - (LastBeat - readBurstCnt) /\ readBurstCnt \in 0 .. LastBeat
      BY <1>0, <3>1 DEF CreditInv, TypeOK, Beats
    <3>3. m' = m + BurstLength /\ m \in Nat
      BY <2>1
    <3> HIDE DEF m
    <3>4. BeatsOwed' = m' - (LastBeat - readBurstCnt')
      BY <2>5, <3>1, <3>2, <3>3
    <3> QED BY <3>1, <3>4 DEF CreditInv, m
  <2>7. WriteInv'
    BY <1>0, <1>1 DEF ReadReq, WriteInv, writeVars
  <2> QED BY <2>4, <2>6, <2>7 DEF SramInv
<1>2. ASSUME NEW a \in Addrs, WriteReq(a) PROVE SramInv'
  <2>1. /\ mergeReqQ \in Seq(Requests) /\ Len(mergeReqQ) < MergeDepth /\ requests \in Seq(Requests)
        /\ mergeReqQ' = Append(mergeReqQ, Write(a)) /\ requests' = Append(requests, Write(a))
    BY <1>0, <1>2 DEF WriteReq, TypeOK
  <2>2. Write(a) \in Requests /\ Write(a).op # "READ"
    BY RequestTypes DEF Write
  <2>3. /\ mergeReqQ' \in Seq(Requests) /\ Len(mergeReqQ') <= MergeDepth
        /\ requests' \in Seq(Requests)
        /\ CountIn(mergeReqQ', ReadRequests) = CountIn(mergeReqQ, ReadRequests)
    <3> HIDE DEF Write
    <3>1. /\ mergeReqQ' \in Seq(Requests) /\ Len(mergeReqQ') = Len(mergeReqQ) + 1
          /\ CountIn(mergeReqQ', ReadRequests) = CountIn(mergeReqQ, ReadRequests) + 0
      BY <2>1, <2>2, PutRequest
    <3>2. requests' \in Seq(Requests)
      BY <2>1, <2>2, PutRequest
    <3> QED BY SMTT(30), <1>0, <2>1, <3>1, <3>2, Counts
  <2>4. TypeOK'
    BY <1>0, <1>2, <2>3 DEF WriteReq, TypeOK, initVars, writeVars, countVars, ctrlVars
  <2>5. CreditInv'
    <3>1. BeatsOwed' = BeatsOwed
      BY <1>2, <2>3 DEF WriteReq, BeatsOwed, ReadsWaiting
    <3>2. state = "READY" /\ state' = "READY" /\ readBurstCnt' = readBurstCnt
          /\ nInflightReads' = nInflightReads
      BY <1>2 DEF WriteReq, initVars, countVars
    <3> QED BY <1>0, <3>1, <3>2 DEF CreditInv
  <2>6. WriteInv'
    BY <1>0, <1>2 DEF WriteReq, WriteInv, writeVars
  <2> QED BY <2>4, <2>5, <2>6 DEF SramInv
<1>3. ASSUME NEW masked \in BOOLEAN, WriteData(masked) PROVE SramInv'
  <2>1. /\ syncWriteDataQ' \in Seq(BeatType) /\ Len(syncWriteDataQ') <= SyncDepth
        /\ masks' \in Seq(BOOLEAN)
    <3> DEFINE b == Beat(Len(masks) + 1, masked)
    <3>1. masks \in Seq(BOOLEAN) /\ masks' = Append(masks, masked)
          /\ syncWriteDataQ \in Seq(BeatType) /\ Len(syncWriteDataQ) < SyncDepth
          /\ syncWriteDataQ' = Append(syncWriteDataQ, b)
      BY <1>0, <1>3 DEF WriteData, EnqWriteData, TypeOK
    <3>2. Len(masks) + 1 \in Nat
      BY <3>1
    <3>3. b \in BeatType
      BY <3>2 DEF Beat, BeatType
    <3> HIDE DEF b
    <3>4. syncWriteDataQ' \in Seq(BeatType) /\ Len(syncWriteDataQ') <= SyncDepth
      BY <3>1, <3>3
    <3>5. masks' \in Seq(BOOLEAN)
      BY <3>1
    <3> QED BY <3>4, <3>5
  <2>2. TypeOK'
    BY <1>0, <1>3, <2>1 DEF WriteData, TypeOK, initVars, writeVars, countVars, ctrlVars
  <2>3. CreditInv'
    BY <1>0, <1>3 DEF WriteData, CreditInv, BeatsOwed, ReadsWaiting, initVars, countVars
  <2>4. WriteInv'
    BY <1>0, <1>3 DEF WriteData, WriteInv, writeVars
  <2> QED BY <2>2, <2>3, <2>4 DEF SramInv
<1>4. CASE ReadRsp
  <2>1. /\ syncReadDataQ' \in Seq(Nat \cup {Unknown}) /\ responses' \in Seq(Nat \cup {Unknown})
        /\ Len(syncReadDataQ') = Len(syncReadDataQ) - 1 /\ Len(syncReadDataQ) \in Nat
        /\ Len(syncReadDataQ) >= 1
    <3>1. /\ syncReadDataQ \in Seq(Nat \cup {Unknown}) /\ syncReadDataQ # << >>
          /\ syncReadDataQ' = Tail(syncReadDataQ) /\ responses \in Seq(Nat \cup {Unknown})
          /\ responses' = Append(responses, Head(syncReadDataQ))
      BY <1>0, <1>4 DEF ReadRsp, TypeOK
    <3>2. /\ syncReadDataQ' \in Seq(Nat \cup {Unknown}) /\ Head(syncReadDataQ) \in Nat \cup {Unknown}
          /\ Len(syncReadDataQ') = Len(syncReadDataQ) - 1 /\ Len(syncReadDataQ) \in Nat
          /\ Len(syncReadDataQ) >= 1
      BY <3>1
    <3>3. responses' \in Seq(Nat \cup {Unknown})
      BY <3>1, <3>2
    <3> QED BY <3>2, <3>3
  <2>2. BeatsOwed' = BeatsOwed - 1 /\ BeatsOwed >= 1 /\ BeatsOwed \in Nat
    <3>1. ReadsWaiting' = ReadsWaiting /\ readBuffer' = readBuffer
      BY <1>4 DEF ReadRsp, ReadsWaiting
    <3> QED BY SMTT(30), <1>0, <2>1, <3>1, Counts DEF BeatsOwed
  <2>3. /\ state = "READY" /\ state' = "READY" /\ calibrateMaxReads' = calibrateMaxReads
        /\ nInflightReads \in 0 .. MaxReads /\ readBurstCnt \in 0 .. LastBeat
        /\ BeatsOwed = BurstLength * nInflightReads - (LastBeat - readBurstCnt)
    BY <1>0, <1>4 DEF ReadRsp, CreditInv, TypeOK, Beats, initVars
  <2>4. CASE readBurstCnt = 0
    <3>1. nInflightReads' = nInflightReads - 1 /\ readBurstCnt' = LastBeat
      BY <1>4, <2>4 DEF ReadRsp
    <3>2. nInflightReads >= 1
      <4>1. nInflightReads = 0 => BeatsOwed <= 0
        BY <2>3
      <4> QED BY <2>2, <2>3, <4>1
    <3>3. TypeOK'
      BY <1>0, <1>4, <2>1, <2>3, <3>1, <3>2 DEF ReadRsp, TypeOK, Beats, initVars, writeVars, ctrlVars
    <3>4. BeatsOwed' = BurstLength * nInflightReads' - (LastBeat - readBurstCnt')
      <4>1. BurstLength * nInflightReads' = BurstLength * nInflightReads - BurstLength
        BY <2>3, <3>1
      <4>2. BurstLength * nInflightReads \in Nat
        BY <2>3
      <4> QED BY <2>2, <2>3, <2>4, <3>1, <4>1, <4>2
    <3>5. CreditInv'
      BY <2>3, <3>4 DEF CreditInv
    <3>6. WriteInv'
      BY <1>0, <1>4 DEF ReadRsp, WriteInv, writeVars
    <3> QED BY <3>3, <3>5, <3>6 DEF SramInv
  <2>5. CASE readBurstCnt # 0
    <3>1. nInflightReads' = nInflightReads /\ readBurstCnt' = readBurstCnt - 1
      BY <1>4, <2>5 DEF ReadRsp
    <3>2. TypeOK'
      BY <1>0, <1>4, <2>1, <2>3, <2>5, <3>1 DEF ReadRsp, TypeOK, Beats, initVars, writeVars, ctrlVars
    <3>3. BeatsOwed' = BurstLength * nInflightReads' - (LastBeat - readBurstCnt')
      <4>1. BurstLength * nInflightReads \in Nat
        BY <2>3
      <4> QED BY <2>2, <2>3, <3>1, <4>1
    <3>4. CreditInv'
      BY <2>3, <3>3 DEF CreditInv
    <3>5. WriteInv'
      BY <1>0, <1>4 DEF ReadRsp, WriteInv, writeVars
    <3> QED BY <3>2, <3>4, <3>5 DEF SramInv
  <2> QED BY <2>4, <2>5
<1>5. ASSUME NEW n \in MaxReadSettings, SetMaxReads(n) PROVE SramInv'
  <2>1. TypeOK'
    BY <1>0, <1>5 DEF SetMaxReads, TypeOK, initVars, writeVars, ctrlVars, userVars
  <2>2. CreditInv'
    BY <1>0, <1>5 DEF SetMaxReads, CreditInv, BeatsOwed, ReadsWaiting, initVars
  <2>3. WriteInv'
    BY <1>0, <1>5 DEF SetMaxReads, WriteInv, writeVars
  <2> QED BY <2>1, <2>2, <2>3 DEF SramInv
<1> QED BY <1>1, <1>2, <1>3, <1>4, <1>5 DEF Client

-----------------------------------------------------------------------------
(* The invariant holds in every reachable state.                           *)
THEOREM SramInvariant == Spec => []SramInv
<1>1. SramInv /\ [Next]_vars => SramInv'
  <2> SUFFICES ASSUME SramInv, [Next]_vars PROVE SramInv'
    OBVIOUS
  <2>1. CASE Next
    BY <2>1, InitRulesStep, RulesStep, ControllerStep, ClientStep DEF Next
  <2>2. CASE UNCHANGED vars
    BY <2>2 DEF vars, SramInv, TypeOK, CreditInv, WriteInv, BeatsOwed, ReadsWaiting, initVars,
       writeVars, countVars, ctrlVars, userVars
  <2> QED BY <2>1, <2>2
<1> QED BY <1>1, InitSram, PTL DEF Spec

(* The variables keep their types and the queues of the device their       *)
(* capacities; above all the credits neither run out of range when a burst *)
(* is given back (readRsp) nor when one is taken (readReq).                *)
THEOREM TypeCorrect == Spec => []TypeOK
BY SramInvariant, PTL DEF SramInv

(* Every beat that the controller has read finds room in syncReadDataQ:    *)
(* rule readRAMBufferToModel is never held up by the queue it is to fill.  *)
THEOREM ReadPathNeverBlocksCorrect == Spec => []ReadPathNeverBlocks
BY SramInvariant, CreditsCover, PTL

(* The data given to the controller never get ahead of the writes they     *)
(* belong to (processWriteRequest0 and 1).                                 *)
THEOREM DataFollowsRequestCorrect == Spec => []DataFollowsRequest
BY SramInvariant, DataCovered, PTL

-----------------------------------------------------------------------------
(* A set of numbers has a least one.                                       *)
LEMMA LeastNumber ==
  ASSUME NEW T, T \subseteq Nat, T # {}
  PROVE  \E x \in T : \A y \in T : ~ (y < x)
<1> DEFINE I == {0 .. n - 1 : n \in T}
<1>1. IsWellFoundedOn(StrictSubsetOrdering(Nat), FiniteSubsetsOf(Nat))
  BY FS_StrictSubsetOrderingWellFounded
<1>2. I \subseteq FiniteSubsetsOf(Nat) /\ I # {}
  <2>1. ASSUME NEW n \in T PROVE 0 .. n - 1 \subseteq Nat /\ IsFiniteSet(0 .. n - 1)
    BY FS_Interval
  <2> QED BY <2>1 DEF FiniteSubsetsOf
<1> HIDE DEF I
<1>3. PICK i \in I : \A j \in I : ~ (<<j, i>> \in StrictSubsetOrdering(Nat))
  BY <1>1, <1>2, WFMin
<1>4. PICK x \in T : i = 0 .. x - 1
  BY <1>3 DEF I
<1>5. ASSUME NEW y \in T, y < x PROVE FALSE
  <2> DEFINE j == 0 .. y - 1
  <2>1. j \in I
    BY DEF I
  <2>2. j \subseteq i /\ j # i /\ j \subseteq Nat /\ i \subseteq Nat
    <3>1. y \in i /\ y \notin j
      BY <1>4, <1>5
    <3> QED BY <3>1, <1>4, <1>5
  <2> HIDE DEF j
  <2>3. <<j, i>> \in StrictSubsetOrdering(Nat)
    BY <2>2 DEF StrictSubsetOrdering
  <2> QED BY <2>1, <2>3, <1>3
<1> QED BY <1>5

(* A set with 0 and the successor of each of its numbers has all.          *)
LEMMA SetInduction ==
  ASSUME NEW S, 0 \in S, \A n \in Nat : n \in S => n + 1 \in S
  PROVE  Nat \subseteq S
<1> DEFINE T == {n \in Nat : n \notin S}
<1>1. SUFFICES ASSUME T # {} PROVE FALSE
  OBVIOUS
<1>2. PICK x \in T : \A y \in T : ~ (y < x)
  BY <1>1, LeastNumber
<1>3. x \in Nat /\ x \notin S /\ x # 0
  OBVIOUS
<1>4. x - 1 \in Nat /\ x - 1 \in S
  BY <1>3, <1>2
<1> QED BY <1>3, <1>4

-----------------------------------------------------------------------------
(* Recursive functions.                                                    *)

(* Some function starts with a and goes on as g says.                      *)
Computable(n, S, a, g) ==
  \E f \in [0 .. n -> S] : f[0] = a /\ \A i \in 1 .. n : f[i] = g[<<i, f[i - 1]>>]

(* Recursive functions exist.                                              *)
LEMMA Recursion ==
  ASSUME NEW n \in Nat, NEW S, NEW a \in S, NEW g \in [(1 .. n) \X S -> S]
  PROVE  Computable(n, S, a, g)
<1> DEFINE P(k) == \E f \in [0 .. k -> S] :
                     f[0] = a /\ \A i \in 1 .. k : f[i] = g[<<i, f[i - 1]>>]
           K == {k \in Nat : k <= n => P(k)}
<1>1. 0 \in K
  <2>1. [i \in 0 .. 0 |-> a] \in [0 .. 0 -> S] /\ [i \in 0 .. 0 |-> a][0] = a /\ 1 .. 0 = {}
    OBVIOUS
  <2> QED BY <2>1
<1>2. ASSUME NEW k \in Nat, k \in K PROVE k + 1 \in K
  <2>1. SUFFICES ASSUME k + 1 <= n PROVE P(k + 1)
    OBVIOUS
  <2>2. PICK f \in [0 .. k -> S] : f[0] = a /\ \A i \in 1 .. k : f[i] = g[<<i, f[i - 1]>>]
    BY <1>2, <2>1
  <2> DEFINE h == [i \in 0 .. k + 1 |-> IF i <= k THEN f[i] ELSE g[<<k + 1, f[k]>>]]
  <2>3. f[k] \in S /\ k + 1 \in 1 .. n /\ <<k + 1, f[k]>> \in (1 .. n) \X S
    BY <2>1, <2>2
  <2>4. g[<<k + 1, f[k]>>] \in S
    BY <2>3
  <2>5. h \in [0 .. k + 1 -> S] /\ h[0] = a
    BY <2>2, <2>4
  <2>6. ASSUME NEW i \in 1 .. k + 1 PROVE h[i] = g[<<i, h[i - 1]>>]
    <3>1. CASE i <= k
      <4>1. h[i] = f[i] /\ h[i - 1] = f[i - 1] /\ i \in 1 .. k
        BY <3>1
      <4> QED BY <4>1, <2>2
    <3>2. CASE i = k + 1
      <4>1. h[i] = g[<<k + 1, f[k]>>] /\ h[i - 1] = f[k] /\ i - 1 = k
        BY <3>2
      <4> QED BY <4>1, <3>2
    <3> QED BY <3>1, <3>2
  <2> HIDE DEF h
  <2> QED BY <2>5, <2>6
<1>3. Nat \subseteq K
  <2> HIDE DEF K
  <2> QED BY <1>1, <1>2, SetInduction
<1> QED BY <1>3 DEF Computable

-----------------------------------------------------------------------------
(* Sequences.                                                              *)

(* An entry that moves from the head of a queue to the end of the one      *)
(* before it stays where it is in the two.                                 *)
LEMMA MoveHead ==
  ASSUME NEW T, NEW a \in Seq(T), NEW b \in Seq(T), b # << >>
  PROVE  Append(a, Head(b)) \o Tail(b) = a \o b
<1> DEFINE c == Append(a, Head(b)) \o Tail(b)
           d == a \o b
<1>1. /\ Head(b) \in T /\ Tail(b) \in Seq(T) /\ Len(b) \in Nat /\ Len(b) >= 1 /\ Len(a) \in Nat
      /\ Len(Tail(b)) = Len(b) - 1 /\ Head(b) = b[1]
      /\ \A i \in 1 .. Len(Tail(b)) : Tail(b)[i] = b[i + 1]
  BY HeadTailProperties
<1>2. Append(a, Head(b)) \in Seq(T) /\ Len(Append(a, Head(b))) = Len(a) + 1
      /\ \A i \in 1 .. Len(a) + 1 : Append(a, Head(b))[i] = IF i <= Len(a) THEN a[i] ELSE b[1]
  BY <1>1
<1>3. /\ c \in Seq(T) /\ Len(c) = Len(a) + 1 + (Len(b) - 1)
      /\ \A i \in 1 .. Len(a) + 1 + (Len(b) - 1) :
           c[i] = IF i <= Len(a) + 1 THEN Append(a, Head(b))[i] ELSE Tail(b)[i - (Len(a) + 1)]
  <2> DEFINE p == Append(a, Head(b))
             q == Tail(b)
  <2>1. p \in Seq(T) /\ q \in Seq(T) /\ Len(p) = Len(a) + 1 /\ Len(q) = Len(b) - 1
    BY <1>1, <1>2
  <2> HIDE DEF p, q
  <2>2. /\ p \o q \in Seq(T) /\ Len(p \o q) = Len(p) + Len(q)
        /\ \A i \in 1 .. Len(p) + Len(q) : (p \o q)[i] = IF i <= Len(p) THEN p[i] ELSE q[i - Len(p)]
    BY <2>1, ConcatProperties
  <2>3. c = p \o q
    BY DEF p, q
  <2> HIDE DEF c
  <2>4. /\ c \in Seq(T) /\ Len(c) = Len(a) + 1 + (Len(b) - 1)
        /\ \A i \in 1 .. Len(a) + 1 + (Len(b) - 1) :
             c[i] = IF i <= Len(a) + 1 THEN p[i] ELSE q[i - (Len(a) + 1)]
    BY <2>1, <2>2, <2>3
  <2> QED BY <2>4 DEF p, q
<1>4. /\ d \in Seq(T) /\ Len(d) = Len(a) + Len(b)
      /\ \A i \in 1 .. Len(a) + Len(b) : d[i] = IF i <= Len(a) THEN a[i] ELSE b[i - Len(a)]
  BY ConcatProperties
<1> HIDE DEF c, d
<1>5. Len(c) = Len(d)
  BY <1>1, <1>3, <1>4
<1>6. ASSUME NEW i \in 1 .. Len(c) PROVE c[i] = d[i]
  <2>1. i \in 1 .. Len(a) + Len(b)
    BY <1>1, <1>3
  <2>2. CASE i <= Len(a)
    BY <1>1, <1>2, <1>3, <1>4, <2>1, <2>2
  <2>3. CASE i = Len(a) + 1
    BY <1>1, <1>2, <1>3, <1>4, <2>1, <2>3
  <2>4. CASE i > Len(a) + 1
    <3>1. i - (Len(a) + 1) \in 1 .. Len(Tail(b)) /\ i - (Len(a) + 1) + 1 = i - Len(a)
      BY <1>1, <2>1, <2>4
    <3> QED BY <1>1, <1>3, <1>4, <2>1, <2>4, <3>1
  <2> QED BY <1>1, <2>1, <2>2, <2>3, <2>4
<1>7. c = d
  BY <1>3, <1>4, <1>5, <1>6, SeqEqual
<1> QED BY <1>7 DEF c, d

(* An entry at the end of the last queue is at the end of both.            *)
LEMMA AppendRight ==
  ASSUME NEW T, NEW a \in Seq(T), NEW b \in Seq(T), NEW x \in T
  PROVE  a \o Append(b, x) = Append(a \o b, x)
<1> DEFINE s == <<x>>
<1>1. s \in Seq(T) /\ a \o b \in Seq(T)
  BY ConcatProperties
<1>2. Append(b, x) = b \o s /\ Append(a \o b, x) = (a \o b) \o s
  <2>1. \A q \in Seq(T) : Append(q, x) = q \o s
    BY AppendIsConcat
  <2> QED BY <1>1, <2>1
<1> HIDE DEF s
<1> QED BY <1>1, <1>2, ConcatAssociative

(* The first entry of the first queue is the first of both.                *)
LEMMA TailLeft ==
  ASSUME NEW T, NEW a \in Seq(T), NEW b \in Seq(T), a # << >>
  PROVE  a \o b # << >> /\ Head(a \o b) = Head(a) /\ Tail(a) \o b = Tail(a \o b)
<1> DEFINE t == Tail(a)
           c == a \o b
           d == Tail(c)
<1>1. /\ t \in Seq(T) /\ Len(a) \in Nat /\ Len(a) >= 1 /\ Len(t) = Len(a) - 1 /\ Head(a) = a[1]
      /\ \A i \in 1 .. Len(t) : t[i] = a[i + 1]
      /\ Len(b) \in Nat
  BY HeadTailProperties
<1>2. /\ c \in Seq(T) /\ Len(c) = Len(a) + Len(b)
      /\ \A i \in 1 .. Len(a) + Len(b) : c[i] = IF i <= Len(a) THEN a[i] ELSE b[i - Len(a)]
  BY ConcatProperties
<1> HIDE DEF t, c
<1>3. c # << >> /\ Head(c) = a[1]
  BY <1>1, <1>2
<1>4. /\ d \in Seq(T) /\ Len(d) = Len(c) - 1 /\ \A i \in 1 .. Len(d) : d[i] = c[i + 1]
  BY <1>2, <1>3, HeadTailProperties
<1>5. /\ t \o b \in Seq(T) /\ Len(t \o b) = Len(t) + Len(b)
      /\ \A i \in 1 .. Len(t) + Len(b) : (t \o b)[i] = IF i <= Len(t) THEN t[i] ELSE b[i - Len(t)]
  BY <1>1, ConcatProperties
<1>6. t \o b = d
  <2> DEFINE e == t \o b
  <2>1. /\ e \in Seq(T) /\ Len(e) = Len(d)
    BY <1>1, <1>2, <1>4, <1>5
  <2>2. ASSUME NEW i \in 1 .. Len(e) PROVE e[i] = d[i]
    <3>1. i \in 1 .. Len(t) + Len(b) /\ i + 1 \in 1 .. Len(a) + Len(b) /\ i \in 1 .. Len(d)
      BY <1>1, <1>2, <1>4, <1>5
    <3>2. CASE i <= Len(t)
      BY <1>1, <1>2, <1>4, <1>5, <3>1, <3>2
    <3>3. CASE i > Len(t)
      <4>1. e[i] = b[i - Len(t)] /\ d[i] = c[i + 1] /\ c[i + 1] = b[i + 1 - Len(a)]
        BY <1>1, <1>2, <1>4, <1>5, <3>1, <3>3
      <4>2. i + 1 - Len(a) = i - Len(t)
        BY <1>1
      <4> QED BY <4>1, <4>2
    <3> QED BY <1>1, <3>1, <3>2, <3>3
  <2> HIDE DEF e, d
  <2>3. e = d
    BY <2>1, <2>2, <1>4, SeqEqual
  <2> QED BY <2>3 DEF e
<1> QED BY <1>1, <1>3, <1>6 DEF t, c

(* Counting beats.                                                         *)

(* Beats come in bursts, one for each request of the kind.                 *)
LEMMA BeatsOfType ==
  ASSUME NEW op, NEW rs, NEW n \in Nat
  PROVE  /\ BeatsOf(op, rs, n) \in Nat /\ BeatsOf(op, rs, 0) = 0
         /\ \E c \in Nat : BeatsOf(op, rs, n) = BurstLength * c
<1> DEFINE S == {i \in 1 .. n : rs[i].op = op}
           Z == {i \in 1 .. 0 : rs[i].op = op}
<1>1. IsFiniteSet(1 .. n) /\ S \subseteq 1 .. n
  BY FS_Interval
<1>2. Cardinality(S) \in Nat
  BY <1>1, FS_Subset, FS_CardinalityType
<1>3. Z = {}
  OBVIOUS
<1>4. Cardinality(Z) = 0
  BY <1>3, FS_EmptySet
<1>5. BeatsOf(op, rs, n) = BurstLength * Cardinality(S)
      /\ BeatsOf(op, rs, 0) = BurstLength * Cardinality(Z)
  BY DEF BeatsOf
<1> HIDE DEF S, Z
<1>6. BeatsOf(op, rs, n) \in Nat /\ BeatsOf(op, rs, 0) = 0
  BY <1>2, <1>4, <1>5, SramConstants
<1> QED BY <1>2, <1>5, <1>6

(* One more request.                                                       *)
LEMMA BeatsOfNext ==
  ASSUME NEW op, NEW rs, NEW n \in Nat
  PROVE  BeatsOf(op, rs, n + 1)
           = BeatsOf(op, rs, n) + IF rs[n + 1].op = op THEN BurstLength ELSE 0
<1> DEFINE S == {i \in 1 .. n : rs[i].op = op}
           U == {i \in 1 .. n + 1 : rs[i].op = op}
<1>1. IsFiniteSet(1 .. n) /\ S \subseteq 1 .. n
  BY FS_Interval
<1>2. IsFiniteSet(S) /\ Cardinality(S) \in Nat /\ n + 1 \notin S
  BY <1>1, FS_Subset, FS_CardinalityType
<1>3. U = IF rs[n + 1].op = op THEN S \cup {n + 1} ELSE S
  OBVIOUS
<1>4. BeatsOf(op, rs, n) = BurstLength * Cardinality(S)
      /\ BeatsOf(op, rs, n + 1) = BurstLength * Cardinality(U)
  BY DEF BeatsOf
<1> HIDE DEF S, U
<1>5. Cardinality(S \cup {n + 1}) = Cardinality(S) + 1
  BY <1>2, FS_AddElement
<1>6. BurstLength * (Cardinality(S) + 1) = BurstLength * Cardinality(S) + BurstLength
      /\ BurstLength * Cardinality(S) \in Nat
  BY <1>2, SramConstants
<1>7. CASE rs[n + 1].op = op
  BY <1>3, <1>4, <1>5, <1>6, <1>7
<1>8. CASE rs[n + 1].op # op
  BY <1>3, <1>4, <1>6, <1>8
<1> QED BY <1>7, <1>8

(* Only those requests matter that are counted.                            *)
LEMMA BeatsOfSame ==
  ASSUME NEW op, NEW rs, NEW qs, NEW n \in Nat, \A i \in 1 .. n : rs[i] = qs[i]
  PROVE  BeatsOf(op, rs, n) = BeatsOf(op, qs, n)
<1>1. {i \in 1 .. n : rs[i].op = op} = {i \in 1 .. n : qs[i].op = op}
  OBVIOUS
<1> QED BY <1>1 DEF BeatsOf

(* Of more requests there are no fewer; and one that is among them has its *)
(* own burst.                                                              *)
LEMMA BeatsOfGrow ==
  ASSUME NEW op, NEW rs, NEW m \in Nat, NEW n \in Nat, m <= n
  PROVE  BeatsOf(op, rs, m) <= BeatsOf(op, rs, n)
<1> DEFINE S == {i \in 1 .. m : rs[i].op = op}
           U == {i \in 1 .. n : rs[i].op = op}
<1>1. IsFiniteSet(1 .. n) /\ U \subseteq 1 .. n /\ S \subseteq U
  BY FS_Interval
<1>2. IsFiniteSet(U) /\ IsFiniteSet(S)
  BY <1>1, FS_Subset
<1>3. Cardinality(S) <= Cardinality(U) /\ Cardinality(S) \in Nat /\ Cardinality(U) \in Nat
  BY <1>1, <1>2, FS_Subset, FS_CardinalityType
<1>4. BeatsOf(op, rs, m) = BurstLength * Cardinality(S)
      /\ BeatsOf(op, rs, n) = BurstLength * Cardinality(U)
  BY DEF BeatsOf
<1> HIDE DEF S, U
<1> QED BY <1>3, <1>4, SramConstants

(* A request that is among them has its burst among theirs.                *)
LEMMA BeatsOfAmong ==
  ASSUME NEW op, NEW rs, NEW i \in Nat, NEW n \in Nat, 1 <= i, i <= n, rs[i].op = op
  PROVE  BeatsOf(op, rs, i - 1) + BurstLength <= BeatsOf(op, rs, n)
<1>1. i - 1 \in Nat /\ (i - 1) + 1 = i
  OBVIOUS
<1>2. BeatsOf(op, rs, i) = BeatsOf(op, rs, i - 1) + BurstLength
  BY <1>1, BeatsOfNext
<1>3. BeatsOf(op, rs, i) <= BeatsOf(op, rs, n)
  BY BeatsOfGrow
<1> QED BY <1>2, <1>3
-----------------------------------------------------------------------------
(* The memory the requests make.                                           *)

Contents == [Addrs -> [Beats -> Nat]]

Blank == [a \in Addrs |-> [b \in Beats |-> Pattern]]

(* What the i-th request makes of memory m.                                *)
Changed(m, rs, ms, i) ==
  IF rs[i].op = "READ" THEN m
  ELSE [m EXCEPT ![rs[i].addr] =
          [b \in Beats |-> LET k == BeatsOf("WRITE", rs, i - 1) + b + 1
                           IN  IF k > Len(ms) \/ ms[k] THEN @[b] ELSE k]]

(* Contents change to contents.                                            *)
LEMMA ChangedType ==
  ASSUME NEW m \in Contents, NEW rs, NEW ms, NEW i \in Nat, 1 <= i
  PROVE  Changed(m, rs, ms, i) \in Contents
<1> DEFINE a == rs[i].addr
           k(b) == BeatsOf("WRITE", rs, i - 1) + b + 1
           new == [b \in Beats |-> IF k(b) > Len(ms) \/ ms[k(b)] THEN m[a][b] ELSE k(b)]
<1>1. \A b \in Beats : k(b) \in Nat
  <2>1. BeatsOf("WRITE", rs, i - 1) \in Nat
    BY BeatsOfType
  <2>2. \A b \in Beats : b \in Nat
    BY SramConstants DEF Beats
  <2> QED BY <2>1, <2>2
<1>2. Changed(m, rs, ms, i) = IF rs[i].op = "READ" THEN m ELSE [m EXCEPT ![a] = new]
  BY DEF Changed
<1>3. CASE a \in Addrs
  <2>1. \A b \in Beats : m[a][b] \in Nat
    BY <1>3 DEF Contents
  <2> HIDE DEF k, a
  <2>2. new \in [Beats -> Nat]
    BY <1>1, <2>1
  <2> HIDE DEF new
  <2>3. [m EXCEPT ![a] = new] \in Contents
    BY <1>3, <2>2 DEF Contents
  <2> QED BY <1>2, <2>3
<1>4. CASE a \notin Addrs
  <2> HIDE DEF a, new
  <2>1. [m EXCEPT ![a] = new] = m
    BY <1>4 DEF Contents
  <2> QED BY <1>2, <2>1
<1> QED BY <1>3, <1>4

(* MemoryOf is computed request by request.                                *)
LEMMA MemoryExists ==
  ASSUME NEW rs \in Seq(Requests), NEW ms
  PROVE  /\ MemoryOf(rs, ms) \in [0 .. Len(rs) -> Contents]
         /\ MemoryOf(rs, ms)[0] = Blank
         /\ \A i \in 1 .. Len(rs) :
              MemoryOf(rs, ms)[i] = Changed(MemoryOf(rs, ms)[i - 1], rs, ms, i)
<1> DEFINE n == Len(rs)
           g == [p \in (1 .. n) \X Contents |-> Changed(p[2], rs, ms, p[1])]
<1>1. n \in Nat
  OBVIOUS
<1>2. Blank \in Contents
  BY DEF Blank, Contents, Pattern
<1> HIDE DEF n
<1>3. g \in [(1 .. n) \X Contents -> Contents]
  <2>1. ASSUME NEW p \in (1 .. n) \X Contents PROVE Changed(p[2], rs, ms, p[1]) \in Contents
    <3>1. p[2] \in Contents /\ p[1] \in Nat /\ 1 <= p[1]
      BY <1>1
    <3> QED BY <3>1, ChangedType
  <2> QED BY <2>1
<1>4. PICK f \in [0 .. n -> Contents] :
        f[0] = Blank /\ \A i \in 1 .. n : f[i] = g[<<i, f[i - 1]>>]
  <2> HIDE DEF g
  <2>1. Computable(n, Contents, Blank, g)
    BY <1>1, <1>2, <1>3, Recursion
  <2> QED BY <2>1 DEF Computable
<1>5. \A i \in 1 .. n : f[i] = Changed(f[i - 1], rs, ms, i)
  <2>1. ASSUME NEW i \in 1 .. n PROVE f[i] = Changed(f[i - 1], rs, ms, i)
    <3> HIDE DEF g
    <3>0. i - 1 \in 0 .. n
      BY <1>1
    <3>1. f[i - 1] \in Contents /\ f[i] = g[<<i, f[i - 1]>>]
      BY <1>4, <3>0
    <3> USE DEF g
    <3>2. <<i, f[i - 1]>> \in (1 .. n) \X Contents
      BY <3>1
    <3> QED BY <3>1, <3>2
  <2> QED BY <2>1
<1> HIDE DEF g
<1> DEFINE Body(h) == [i \in 0 .. n |-> IF i = 0 THEN Blank ELSE Changed(h[i - 1], rs, ms, i)]
           u == CHOOSE h : h = Body(h)
<1>6. f = Body(f)
  <2>1. ASSUME NEW i \in 0 .. n
        PROVE  f[i] = IF i = 0 THEN Blank ELSE Changed(f[i - 1], rs, ms, i)
    <3>1. i = 0 \/ i \in 1 .. n
      BY <1>1
    <3> QED BY <3>1, <1>4, <1>5
  <2> QED BY <2>1
<1>7. u = Body(u)
  <2>1. \E h : h = Body(h)
    BY <1>6
  <2> HIDE DEF Body
  <2> QED BY <2>1
<1>8. u \in [0 .. n -> Contents] /\ u[0] = Blank
      /\ \A i \in 1 .. n : u[i] = Changed(u[i - 1], rs, ms, i)
  <2>1. \A i \in 0 .. n : u[i] = IF i = 0 THEN Blank ELSE Changed(u[i - 1], rs, ms, i)
    <3> HIDE DEF u
    <3> DEFINE v == Body(u)
    <3>1. \A i \in 0 .. n : v[i] = IF i = 0 THEN Blank ELSE Changed(u[i - 1], rs, ms, i)
      OBVIOUS
    <3>2. v = u
      BY <1>7
    <3> HIDE DEF v
    <3> QED BY <3>1, <3>2
  <2>2. DOMAIN u = 0 .. n /\ u = [i \in 0 .. n |-> u[i]]
    <3> HIDE DEF u
    <3> DEFINE v == Body(u)
    <3>1. DOMAIN v = 0 .. n /\ v = [i \in 0 .. n |-> v[i]]
      OBVIOUS
    <3>2. v = u
      BY <1>7
    <3> HIDE DEF v
    <3> QED BY <3>1, <3>2
  <2> DEFINE K == {i \in Nat : i <= n => u[i] \in Contents}
  <2> HIDE DEF u
  <2>3. 0 \in K
    BY <1>1, <1>2, <2>1
  <2>4. ASSUME NEW i \in Nat, i \in K PROVE i + 1 \in K
    <3>1. SUFFICES ASSUME i + 1 <= n PROVE u[i + 1] \in Contents
      OBVIOUS
    <3>2. u[i] \in Contents /\ i + 1 \in 0 .. n /\ i + 1 # 0 /\ (i + 1) - 1 = i /\ 1 <= i + 1
      BY <1>1, <2>4, <3>1
    <3>3. u[i + 1] = Changed(u[i], rs, ms, i + 1)
      BY <2>1, <3>2
    <3> QED BY <3>2, <3>3, ChangedType
  <2>5. Nat \subseteq K
    <3> HIDE DEF K
    <3> QED BY <2>3, <2>4, SetInduction
  <2>6. \A i \in 0 .. n : u[i] \in Contents
    BY <1>1, <2>5
  <2>7. u \in [0 .. n -> Contents]
    BY <2>2, <2>6
  <2>8. u[0] = Blank /\ \A i \in 1 .. n : u[i] = Changed(u[i - 1], rs, ms, i)
    BY <1>1, <2>1
  <2> QED BY <2>7, <2>8
<1>9. MemoryOf(rs, ms) = u
  BY DEF MemoryOf, Changed, Blank, n
<1> HIDE DEF u
<1> QED BY <1>8, <1>9 DEF n

(* What the first n requests make of the memory is settled when their data *)
(* are there: later requests and data do not change it.                    *)
LEMMA MemorySettled ==
  ASSUME NEW rs \in Seq(Requests), NEW qs \in Seq(Requests),
         NEW ms \in Seq(BOOLEAN), NEW ns \in Seq(BOOLEAN),
         NEW n \in Nat, n <= Len(rs), n <= Len(qs), \A i \in 1 .. n : rs[i] = qs[i],
         Len(ms) <= Len(ns), \A k \in 1 .. Len(ms) : ms[k] = ns[k],
         BeatsOf("WRITE", rs, n) <= Len(ms)
  PROVE  \A i \in 0 .. n : MemoryOf(rs, ms)[i] = MemoryOf(qs, ns)[i]
<1> DEFINE f == MemoryOf(rs, ms)
           g == MemoryOf(qs, ns)
           K == {i \in Nat : i <= n => f[i] = g[i]}
<1>1. /\ Len(rs) \in Nat /\ Len(qs) \in Nat /\ Len(ms) \in Nat /\ Len(ns) \in Nat
      /\ f[0] = Blank /\ \A i \in 1 .. Len(rs) : f[i] = Changed(f[i - 1], rs, ms, i)
      /\ g[0] = Blank /\ \A i \in 1 .. Len(qs) : g[i] = Changed(g[i - 1], qs, ns, i)
  BY MemoryExists
<1> HIDE DEF f, g
<1>2. 0 \in K
  BY <1>1
<1>3. ASSUME NEW i \in Nat, i \in K PROVE i + 1 \in K
  <2>1. SUFFICES ASSUME i + 1 <= n PROVE f[i + 1] = g[i + 1]
    OBVIOUS
  <2>2. f[i] = g[i] /\ i + 1 \in 1 .. Len(rs) /\ i + 1 \in 1 .. Len(qs) /\ (i + 1) - 1 = i
        /\ i + 1 \in 1 .. n
    BY <1>1, <1>3, <2>1
  <2>3. f[i + 1] = Changed(f[i], rs, ms, i + 1) /\ g[i + 1] = Changed(f[i], qs, ns, i + 1)
    BY <1>1, <2>2
  <2>4. rs[i + 1] = qs[i + 1] /\ BeatsOf("WRITE", rs, i) = BeatsOf("WRITE", qs, i)
    <3>1. \A j \in 1 .. i : rs[j] = qs[j]
      BY <2>1
    <3> QED BY <2>2, <3>1, BeatsOfSame
  <2>5. CASE rs[i + 1].op = "READ"
    BY <2>3, <2>4, <2>5 DEF Changed
  <2>6. CASE rs[i + 1].op # "READ"
    <3>1. rs[i + 1].op = "WRITE"
      <4>1. rs[i + 1] \in Requests
        BY <2>2
      <4> QED BY <2>6, <4>1 DEF Requests
    <3> DEFINE w == BeatsOf("WRITE", rs, i)
    <3>2. w \in Nat /\ w + BurstLength <= Len(ms)
      <4>1. BeatsOf("WRITE", rs, (i + 1) - 1) + BurstLength <= BeatsOf("WRITE", rs, n)
        <5>1. i + 1 \in Nat /\ 1 <= i + 1 /\ i + 1 <= n
          BY <2>1
        <5> QED BY <3>1, <5>1, BeatsOfAmong
      <4>2. w \in Nat /\ BeatsOf("WRITE", rs, n) \in Nat
        BY BeatsOfType
      <4> QED BY <1>1, <2>2, <4>1, <4>2, SramConstants
    <3>3. (\A b \in Beats : /\ w + b + 1 \in 1 .. Len(ms) /\ ~ (w + b + 1 > Len(ms))
                            /\ ~ (w + b + 1 > Len(ns)) /\ ms[w + b + 1] = ns[w + b + 1])
      <4> SUFFICES ASSUME NEW b \in Beats
                   PROVE  /\ w + b + 1 \in 1 .. Len(ms) /\ ~ (w + b + 1 > Len(ms))
                          /\ ~ (w + b + 1 > Len(ns)) /\ ms[w + b + 1] = ns[w + b + 1]
        OBVIOUS
      <4>1. b \in Nat /\ b < BurstLength
        BY SramConstants DEF Beats
      <4> HIDE DEF w
      <4>2. /\ w + b + 1 \in 1 .. Len(ms) /\ ~ (w + b + 1 > Len(ms))
            /\ ~ (w + b + 1 > Len(ns))
        BY <1>1, <3>2, <4>1, SramConstants
      <4> QED BY <4>2
    <3>4. Changed(f[i], rs, ms, i + 1) = Changed(f[i], qs, ns, i + 1)
      <4> DEFINE m == f[i]
                 a == rs[i + 1].addr
                 p == [b \in Beats |-> IF w + b + 1 > Len(ms) \/ ms[w + b + 1]
                                         THEN m[a][b] ELSE w + b + 1]
                 q == [b \in Beats |-> IF w + b + 1 > Len(ns) \/ ns[w + b + 1]
                                         THEN m[a][b] ELSE w + b + 1]
      <4>1. p = q
        <5> HIDE DEF w, m, a
        <5> QED BY <3>3
      <4>2. Changed(m, rs, ms, i + 1) = [m EXCEPT ![a] = p]
        BY <2>2, <2>6 DEF Changed
      <4>3. Changed(m, qs, ns, i + 1) = [m EXCEPT ![a] = q]
        BY <2>2, <2>4, <2>6 DEF Changed
      <4> HIDE DEF p, q, m, a
      <4>4. Changed(m, rs, ms, i + 1) = Changed(m, qs, ns, i + 1)
        BY <4>1, <4>2, <4>3
      <4> QED BY <4>4 DEF m
    <3> QED BY <2>3, <3>4
  <2> QED BY <2>5, <2>6
<1>4. Nat \subseteq K
  <2> HIDE DEF K
  <2> QED BY <1>2, <1>3, SetInduction
<1> QED BY <1>4 DEF f, g

-----------------------------------------------------------------------------
(* The stream of all requests, those of the initialisation first, and the  *)
(* stream of the beats that are written.                                   *)

InitRequests == 2 + NumAddrs
InitBeats == BurstLength * (1 + NumAddrs)

(* The k-th request.                                                       *)
RequestAt(rs, k) ==
  IF k = 1 THEN Read(0) ELSE IF k = 2 THEN Write(0)
  ELSE IF k <= InitRequests THEN Write(k - 3) ELSE rs[k - InitRequests]

(* Beats that go with the writes among the first k requests.               *)
WriteBeats(rs, k) ==
  IF k = 0 THEN 0 ELSE IF k <= InitRequests THEN BurstLength * (k - 1)
  ELSE InitBeats + BeatsOf("WRITE", rs, k - InitRequests)

(* Requests and beats that were issued, ...                                *)
Issued ==
  init0Stage + (IF initPhase = 0 THEN 0
                ELSE IF state = "READY" THEN NumAddrs + Len(requests)
                ELSE IF initBurstIdx = 0 THEN initAddr ELSE initAddr + 1)

IssuedBeats ==
  IF initPhase = 0 THEN initBurstIdx
  ELSE IF state = "READY" THEN InitBeats + Len(masks)
  ELSE BurstLength * (1 + initAddr) + initBurstIdx

(* ... those on their way to the controller, ...                           *)
Asked == addrQ \o (syncRequestQ \o mergeReqQ)

Collected ==
  IF writePending
  THEN [j \in 1 .. BurstLength - writeBurstIdx |-> writeValue[writeBurstIdx + j - 1]]
  ELSE [j \in 1 .. writeBurstIdx |-> writeValue[j - 1]]

Given == dataQ \o (Collected \o (writeBuffer \o syncWriteDataQ))

(* ... and those it has done, the client's among them.                     *)
Done == Issued - Len(Asked)
DoneBeats == IssuedBeats - Len(Given)
ClientDone == IF Done <= InitRequests THEN 0 ELSE Done - InitRequests

(* Beats that came back.                                                   *)
Returned == responses \o (syncReadDataQ \o readBuffer)

(***************************************************************************)
(* The initialisation comes first; the requests on their way are the last  *)
(* ones issued, in their order, and so are the beats; the controller took  *)
(* the beats of the writes it did; the memory holds what the requests done *)
(* make of it; and what came back is what the reads among them saw.        *)
(***************************************************************************)
PhaseInv ==
  /\ state = "READY" => initPhase = 1
  /\ initPhase = 0 => initAddr = 0
  /\ initPhase = 1 => init0Stage = 2
  /\ state = "INIT" => requests = << >> /\ masks = << >> /\ responses = << >>

RequestsInOrder ==
  /\ Done >= 0
  /\ \A j \in 1 .. Len(Asked) : Asked[j] = RequestAt(requests, Done + j)

BeatsInOrder ==
  /\ DoneBeats = WriteBeats(requests, Done)
  /\ \A j \in 1 .. Len(Given) :
       /\ DoneBeats + j > BurstLength /\ DoneBeats + j <= InitBeats
            => Given[j] = Beat(Pattern, FALSE)
       /\ DoneBeats + j > InitBeats
            => Given[j] = Beat((DoneBeats + j) - InitBeats, masks[(DoneBeats + j) - InitBeats])

MemoryIs ==
  /\ Done < InitRequests =>
       \A a \in Addrs : a < Done - 2 => mem[a] = [b \in Beats |-> Pattern]
  /\ Done >= InitRequests => mem = MemoryOf(requests, masks)[ClientDone]

ReadsReturned ==
  /\ Done = 0 => initPhase = 0 /\ syncReadDataQ = << >> /\ readBuffer = << >>
  /\ initPhase = 1 =>
       /\ Len(Returned) = BeatsOf("READ", requests, ClientDone)
       /\ \A i \in 1 .. ClientDone, b \in Beats :
            requests[i].op = "READ" =>
              Returned[BeatsOf("READ", requests, i - 1) + b + 1]
                = MemoryOf(requests, masks)[i][requests[i].addr][b]

StreamInv == PhaseInv /\ RequestsInOrder /\ BeatsInOrder /\ MemoryIs /\ ReadsReturned

(* Queues one behind another.  What leaves one queue for the one before it *)
(* changes nothing; what comes to the last comes to all, and what the      *)
(* first loses all lose.                                                   *)
LEMMA ThreeQueues ==
  ASSUME NEW T, NEW a \in Seq(T), NEW b \in Seq(T), NEW c \in Seq(T)
  PROVE  /\ a \o (b \o c) \in Seq(T)
         /\ Len(a \o (b \o c)) = Len(a) + Len(b) + Len(c)
         /\ b # << >> => Append(a, Head(b)) \o (Tail(b) \o c) = a \o (b \o c)
         /\ c # << >> => a \o (Append(b, Head(c)) \o Tail(c)) = a \o (b \o c)
         /\ a # << >> => /\ a \o (b \o c) # << >> /\ Head(a \o (b \o c)) = Head(a)
                         /\ Tail(a) \o (b \o c) = Tail(a \o (b \o c))
<1>1. b \o c \in Seq(T) /\ Len(b \o c) = Len(b) + Len(c)
      /\ Len(a) \in Nat /\ Len(b) \in Nat /\ Len(c) \in Nat
  BY ConcatProperties
<1>2. a \o (b \o c) \in Seq(T) /\ Len(a \o (b \o c)) = Len(a) + Len(b \o c)
  BY <1>1, ConcatProperties
<1>3. ASSUME b # << >> PROVE Append(a, Head(b)) \o (Tail(b) \o c) = a \o (b \o c)
  <2>1. b \o c # << >> /\ Head(b \o c) = Head(b) /\ Tail(b) \o c = Tail(b \o c)
    BY <1>3, TailLeft
  <2> DEFINE d == b \o c
  <2>2. d \in Seq(T) /\ d # << >> /\ Head(d) = Head(b) /\ Tail(b) \o c = Tail(d)
    BY <1>1, <2>1
  <2> HIDE DEF d
  <2>3. Append(a, Head(d)) \o Tail(d) = a \o d
    BY <2>2, MoveHead
  <2>4. Append(a, Head(b)) \o (Tail(b) \o c) = a \o d
    BY <2>2, <2>3
  <2> QED BY <2>4 DEF d
<1>4. c # << >> => Append(b, Head(c)) \o Tail(c) = b \o c
  BY MoveHead
<1>5. ASSUME a # << >>
      PROVE  /\ a \o (b \o c) # << >> /\ Head(a \o (b \o c)) = Head(a)
             /\ Tail(a) \o (b \o c) = Tail(a \o (b \o c))
  <2> DEFINE d == b \o c
  <2>1. d \in Seq(T)
    BY <1>1
  <2> HIDE DEF d
  <2>2. a \o d # << >> /\ Head(a \o d) = Head(a) /\ Tail(a) \o d = Tail(a \o d)
    BY <1>5, <2>1, TailLeft
  <2> QED BY <2>2 DEF d
<1>6. Len(a \o (b \o c)) = Len(a) + Len(b) + Len(c)
  BY <1>1, <1>2
<1>7. c # << >> => a \o (Append(b, Head(c)) \o Tail(c)) = a \o (b \o c)
  BY <1>4, Zenon
<1> QED BY <1>2, <1>3, <1>5, <1>6, <1>7, Zenon

(* What comes to the last of three queues comes to the end of all.         *)
LEMMA ThreeQueuesAppend ==
  ASSUME NEW T, NEW a \in Seq(T), NEW b \in Seq(T), NEW c \in Seq(T), NEW x \in T
  PROVE  a \o (b \o Append(c, x)) = Append(a \o (b \o c), x)
<1> DEFINE d == b \o c
<1>1. d \in Seq(T) /\ b \o Append(c, x) = Append(d, x)
  BY AppendRight, ConcatProperties
<1> HIDE DEF d
<1>2. a \o Append(d, x) = Append(a \o d, x)
  BY <1>1, AppendRight
<1>3. a \o (b \o Append(c, x)) = Append(a \o d, x)
  BY <1>1, <1>2
<1> QED BY <1>3 DEF d

(* A sequence of the entries from m + 1 to n of a function: one more at    *)
(* the end, one less at the front.                                         *)
LEMMA Slice ==
  ASSUME NEW T, NEW L \in Nat, NEW f \in [0 .. L -> T], NEW m \in Nat, NEW n \in Nat,
         m + n <= L + 1
  PROVE  /\ [j \in 1 .. n |-> f[m + j - 1]] \in Seq(T)
         /\ Len([j \in 1 .. n |-> f[m + j - 1]]) = n
         /\ n >= 1 => /\ [j \in 1 .. n |-> f[m + j - 1]] # << >>
                      /\ Head([j \in 1 .. n |-> f[m + j - 1]]) = f[m]
                      /\ Tail([j \in 1 .. n |-> f[m + j - 1]])
                           = [j \in 1 .. n - 1 |-> f[(m + 1) + j - 1]]
<1> DEFINE s == [j \in 1 .. n |-> f[m + j - 1]]
           t == [j \in 1 .. n - 1 |-> f[(m + 1) + j - 1]]
<1>1. \A j \in 1 .. n : f[m + j - 1] \in T
  <2>1. \A j \in 1 .. n : m + j - 1 \in 0 .. L
    OBVIOUS
  <2> QED BY <2>1
<1>2. s \in Seq(T) /\ Len(s) = n
  BY <1>1
<1>3. ASSUME n >= 1 PROVE s # << >> /\ Head(s) = f[m] /\ Tail(s) = t
  <2>1. s # << >> /\ Head(s) = s[1] /\ s[1] = f[m]
    BY <1>2, <1>3
  <2>2. \A j \in 1 .. n - 1 : t[j] = s[j + 1]
    BY <1>3
  <2>3. t \in Seq(T) /\ Len(t) = n - 1
    <3>1. \A j \in 1 .. n - 1 : f[(m + 1) + j - 1] \in T /\ n - 1 \in Nat
      <4>1. \A j \in 1 .. n - 1 : (m + 1) + j - 1 \in 0 .. L
        OBVIOUS
      <4> QED BY <4>1, <1>3
    <3>2. n - 1 \in Nat
      BY <1>3
    <3> QED BY <3>1, <3>2
  <2> HIDE DEF s, t
  <2>4. Tail(s) \in Seq(T) /\ Len(Tail(s)) = n - 1 /\ \A j \in 1 .. n - 1 : Tail(s)[j] = s[j + 1]
    BY <1>2, <2>1, HeadTailProperties
  <2>5. Tail(s) = t
    <3> DEFINE u == Tail(s)
    <3>1. u \in Seq(T) /\ Len(u) = Len(t) /\ \A j \in 1 .. Len(u) : u[j] = t[j]
      BY <2>2, <2>3, <2>4
    <3> HIDE DEF u
    <3>2. u = t
      BY <2>3, <3>1, SeqEqual
    <3> QED BY <3>2 DEF u
  <2> QED BY <2>1, <2>5
<1> QED BY <1>2, <1>3 DEF s, t

-----------------------------------------------------------------------------
(* The queues of the device.                                               *)

(* What is collected of a burst are beats.                                 *)
LEMMA CollectedType ==
  ASSUME TypeOK, WriteInv
  PROVE  Collected \in Seq(BeatType)
<1>1. /\ writeValue \in [0 .. LastBeat -> BeatType] /\ writePending \in BOOLEAN
      /\ writeBurstIdx \in Nat /\ writeBurstIdx <= BurstLength /\ LastBeat \in Nat
      /\ BurstLength = LastBeat + 1 /\ BurstLength \in Nat
  BY SramConstants DEF TypeOK, Beats
<1>2. CASE writePending
  <2>1. BurstLength - writeBurstIdx \in Nat
        /\ writeBurstIdx + (BurstLength - writeBurstIdx) <= LastBeat + 1
    BY <1>1
  <2>2. Collected = [j \in 1 .. BurstLength - writeBurstIdx |-> writeValue[writeBurstIdx + j - 1]]
    BY <1>2 DEF Collected
  <2> DEFINE n == BurstLength - writeBurstIdx
  <2>3. n \in Nat /\ writeBurstIdx + n <= LastBeat + 1
    BY <2>1
  <2> HIDE DEF n
  <2>4. [j \in 1 .. n |-> writeValue[writeBurstIdx + j - 1]] \in Seq(BeatType)
    BY <1>1, <2>3, Slice
  <2> QED BY <2>2, <2>4 DEF n
<1>3. CASE ~ writePending
  <2>1. Collected = [j \in 1 .. writeBurstIdx |-> writeValue[j - 1]]
    BY <1>3 DEF Collected
  <2>2. \A j \in 1 .. writeBurstIdx : writeValue[j - 1] \in BeatType
    <3>1. \A j \in 1 .. writeBurstIdx : j - 1 \in 0 .. LastBeat
      BY <1>1
    <3> QED BY <1>1, <3>1
  <2> QED BY <1>1, <2>1, <2>2
<1> QED BY <1>1, <1>2, <1>3

(* The streams are sequences, and what was issued is counted.              *)
LEMMA StreamTypes ==
  ASSUME TypeOK, WriteInv
  PROVE  /\ Asked \in Seq(Requests) /\ Len(Asked) \in Nat
         /\ Collected \in Seq(BeatType) /\ Given \in Seq(BeatType) /\ Len(Given) \in Nat
         /\ writeBuffer \o syncWriteDataQ \in Seq(BeatType)
         /\ Collected \o (writeBuffer \o syncWriteDataQ) \in Seq(BeatType)
         /\ Len(Given) = Len(dataQ) + Len(Collected \o (writeBuffer \o syncWriteDataQ))
         /\ Returned \in Seq(Nat \cup {Unknown}) /\ Len(Returned) \in Nat
         /\ Len(Returned) = Len(responses) + Len(syncReadDataQ) + Len(readBuffer)
         /\ Issued \in Nat /\ IssuedBeats \in Nat
<1>1. /\ mergeReqQ \in Seq(Requests) /\ syncRequestQ \in Seq(Requests) /\ addrQ \in Seq(Requests)
      /\ syncWriteDataQ \in Seq(BeatType) /\ writeBuffer \in Seq(BeatType) /\ dataQ \in Seq(BeatType)
      /\ responses \in Seq(Nat \cup {Unknown}) /\ syncReadDataQ \in Seq(Nat \cup {Unknown})
      /\ readBuffer \in Seq(Nat \cup {Unknown})
  BY DEF TypeOK
<1>2. Collected \in Seq(BeatType)
  BY CollectedType
<1>3. Asked \in Seq(Requests)
  BY <1>1, ThreeQueues DEF Asked
<1>4. Returned \in Seq(Nat \cup {Unknown})
      /\ Len(Returned) = Len(responses) + Len(syncReadDataQ) + Len(readBuffer)
  BY <1>1, ThreeQueues DEF Returned
<1>5. /\ writeBuffer \o syncWriteDataQ \in Seq(BeatType)
      /\ Collected \o (writeBuffer \o syncWriteDataQ) \in Seq(BeatType)
  BY <1>1, <1>2, ThreeQueues, ConcatProperties
<1>6. Given \in Seq(BeatType)
      /\ Len(Given) = Len(dataQ) + Len(Collected \o (writeBuffer \o syncWriteDataQ))
  BY <1>1, <1>5, ConcatProperties DEF Given
<1>7. Issued \in Nat
  BY SramConstants DEF Issued, TypeOK, Addrs
<1>8. IssuedBeats \in Nat
  <2>1. /\ initAddr \in Nat /\ initBurstIdx \in Nat /\ masks \in Seq(BOOLEAN)
    BY SramConstants DEF TypeOK, Addrs, Beats
  <2>2. BurstLength * (1 + initAddr) \in Nat /\ InitBeats \in Nat /\ Len(masks) \in Nat
    BY <2>1, SramConstants DEF InitBeats
  <2> QED BY <2>1, <2>2 DEF IssuedBeats
<1>9. Len(Asked) \in Nat /\ Len(Given) \in Nat /\ Len(Returned) \in Nat
  BY <1>3, <1>4, <1>6, LenProperties
<1> QED BY <1>2, <1>3, <1>4, <1>5, <1>6, <1>7, <1>8, <1>9

(* How much was issued, and how much of it is done.                        *)
LEMMA StreamBounds ==
  ASSUME TypeOK, WriteInv, PhaseInv, RequestsInOrder
  PROVE  /\ InitRequests \in Nat /\ InitRequests = NumAddrs + 2
         /\ InitBeats \in Nat /\ InitBeats >= BurstLength + BurstLength
         /\ InitBeats = BurstLength + BurstLength * NumAddrs
         /\ Len(requests) \in Nat /\ Len(masks) \in Nat
         /\ Done \in Nat /\ Done <= Issued /\ Issued \in Nat
         /\ Done + Len(Asked) = Issued
         /\ DoneBeats \in Int /\ DoneBeats + Len(Given) = IssuedBeats /\ IssuedBeats \in Nat
         /\ state = "READY" => Issued = InitRequests + Len(requests)
                               /\ IssuedBeats = InitBeats + Len(masks)
         /\ state # "READY" => Issued <= InitRequests /\ IssuedBeats <= InitBeats
         /\ Issued <= InitRequests + Len(requests) /\ IssuedBeats <= InitBeats + Len(masks)
         /\ ClientDone \in Nat /\ ClientDone <= Len(requests)
         /\ Done > InitRequests => ClientDone = Done - InitRequests /\ state = "READY"
         /\ Done <= InitRequests => ClientDone = 0
<1> USE SramConstants
<1>1. /\ Issued \in Nat /\ IssuedBeats \in Nat /\ Len(Asked) \in Nat /\ Len(Given) \in Nat
  BY StreamTypes
<1>2. InitRequests \in Nat /\ InitRequests = NumAddrs + 2
  BY DEF InitRequests
<1>3. InitBeats \in Nat /\ InitBeats >= BurstLength + BurstLength
      /\ InitBeats = BurstLength + BurstLength * NumAddrs
  <2>1. BurstLength * (1 + NumAddrs) = BurstLength + BurstLength * NumAddrs
        /\ BurstLength * NumAddrs \in Nat
    OBVIOUS
  <2>2. PICK c \in Nat : NumAddrs = c + 1
    <3>1. NumAddrs - 1 \in Nat /\ NumAddrs = (NumAddrs - 1) + 1
      OBVIOUS
    <3> QED BY <3>1
  <2>3. BurstLength * (c + 1) = BurstLength * c + BurstLength /\ BurstLength * c \in Nat
    OBVIOUS
  <2> QED BY <2>1, <2>2, <2>3 DEF InitBeats
<1>4. Len(requests) \in Nat /\ Len(masks) \in Nat
  <2>1. requests \in Seq(Requests) /\ masks \in Seq(BOOLEAN)
    BY DEF TypeOK
  <2> QED BY <2>1, LenProperties
<1>5. /\ Done \in Nat /\ Done <= Issued /\ Done + Len(Asked) = Issued
      /\ DoneBeats \in Int /\ DoneBeats + Len(Given) = IssuedBeats
  BY <1>1 DEF RequestsInOrder, Done, DoneBeats
<1>6. state = "READY" => Issued = InitRequests + Len(requests)
                         /\ IssuedBeats = InitBeats + Len(masks)
  BY <1>2, <1>3, <1>4 DEF PhaseInv, Issued, IssuedBeats
<1>7. ASSUME state # "READY" PROVE Issued <= InitRequests /\ IssuedBeats <= InitBeats
  <2>1. /\ initAddr \in Nat /\ initAddr + 1 <= NumAddrs /\ initBurstIdx \in Nat
        /\ initBurstIdx < BurstLength /\ init0Stage \in Nat /\ init0Stage <= 2
        /\ initPhase \in {0, 1}
    BY DEF TypeOK, Addrs, Beats
  <2>2. Issued <= InitRequests
    BY <1>2, <1>7, <2>1 DEF Issued
  <2>3. BurstLength * (1 + initAddr) + initBurstIdx <= InitBeats
    <3>1. BurstLength * (1 + initAddr) <= BurstLength * NumAddrs
          /\ BurstLength * (1 + initAddr) \in Nat /\ BurstLength * NumAddrs \in Nat
      BY <2>1
    <3> QED BY <1>3, <2>1, <3>1
  <2>4. IssuedBeats <= InitBeats
    BY <1>3, <1>7, <2>1, <2>3 DEF IssuedBeats
  <2> QED BY <2>2, <2>4
<1>8. /\ ClientDone \in Nat /\ ClientDone <= Len(requests)
      /\ Done > InitRequests => ClientDone = Done - InitRequests /\ state = "READY"
      /\ Done <= InitRequests => ClientDone = 0
  BY <1>1, <1>2, <1>4, <1>5, <1>6, <1>7 DEF ClientDone
<1>9. Issued <= InitRequests + Len(requests) /\ IssuedBeats <= InitBeats + Len(masks)
  BY <1>1, <1>2, <1>3, <1>4, <1>6, <1>7
<1> QED BY <1>1, <1>2, <1>3, <1>4, <1>5, <1>6, <1>7, <1>8, <1>9

(* The history of the client's requests and data only grows.               *)
Extended ==
  /\ Len(requests) <= Len(requests') /\ \A i \in 1 .. Len(requests) : requests'[i] = requests[i]
  /\ Len(masks) <= Len(masks') /\ \A k \in 1 .. Len(masks) : masks'[k] = masks[k]

(* A history that stays grew by nothing.                                   *)
LEMMA SameIsExtended ==
  ASSUME TypeOK, requests' = requests, masks' = masks PROVE Extended
<1>1. Len(requests) \in Nat /\ Len(masks) \in Nat
  <2>1. requests \in Seq(Requests) /\ masks \in Seq(BOOLEAN)
    BY DEF TypeOK
  <2> QED BY <2>1, LenProperties
<1> QED BY <1>1 DEF Extended

(* What is done is settled.                                                *)
LEMMA DoneIsSettled ==
  ASSUME SramInv, TypeOK', StreamInv, Extended
  PROVE  /\ \A op, n : n \in 0 .. ClientDone => BeatsOf(op, requests', n) = BeatsOf(op, requests, n)
         /\ WriteBeats(requests', Done) = WriteBeats(requests, Done)
         /\ \A i \in 0 .. ClientDone :
              MemoryOf(requests', masks')[i] = MemoryOf(requests, masks)[i]
         /\ \A i \in 1 .. ClientDone : requests'[i] = requests[i]
<1>0. TypeOK /\ WriteInv /\ PhaseInv /\ RequestsInOrder /\ BeatsInOrder
  BY DEF SramInv, StreamInv
<1>1. /\ ClientDone \in Nat /\ ClientDone <= Len(requests) /\ Len(requests) \in Nat
      /\ Len(masks) \in Nat /\ Done \in Nat /\ InitRequests \in Nat
  BY <1>0, StreamBounds
<1>2. \A i \in 1 .. ClientDone : requests'[i] = requests[i]
  BY <1>1 DEF Extended
<1>3. ASSUME NEW op, NEW n \in 0 .. ClientDone
      PROVE  BeatsOf(op, requests', n) = BeatsOf(op, requests, n)
  <2>1. n \in Nat /\ \A i \in 1 .. n : requests'[i] = requests[i]
    BY <1>1, <1>2, <1>3
  <2> QED BY <2>1, BeatsOfSame
<1>4. WriteBeats(requests', Done) = WriteBeats(requests, Done)
  <2>1. CASE Done <= InitRequests
    BY <2>1 DEF WriteBeats
  <2>2. CASE ~ (Done <= InitRequests)
    <3>1. Done > InitRequests
      BY <1>1, <2>2
    <3>2. Done - InitRequests = ClientDone
      BY <1>0, <3>1, StreamBounds
    <3>3. BeatsOf("WRITE", requests', ClientDone) = BeatsOf("WRITE", requests, ClientDone)
      BY <1>1, <1>3
    <3> QED BY <3>2, <3>3 DEF WriteBeats
  <2> QED BY <2>1, <2>2
<1>5. BeatsOf("WRITE", requests, ClientDone) <= Len(masks)
  <2>1. CASE Done <= InitRequests
    <3>1. ClientDone = 0
      BY <1>0, <2>1, StreamBounds
    <3>2. BeatsOf("WRITE", requests, 0) = 0
      BY BeatsOfType
    <3> QED BY <1>1, <3>1, <3>2
  <2>2. CASE ~ (Done <= InitRequests)
    <3>1. Done > InitRequests
      BY <1>1, <2>2
    <3>2. /\ ClientDone = Done - InitRequests /\ state = "READY" /\ IssuedBeats = InitBeats + Len(masks)
          /\ DoneBeats + Len(Given) = IssuedBeats /\ DoneBeats \in Int /\ InitBeats \in Nat
      BY <1>0, <3>1, StreamBounds
    <3>3. Len(Given) \in Nat
      BY <1>0, StreamTypes
    <3>4. DoneBeats = InitBeats + BeatsOf("WRITE", requests, ClientDone)
      BY <1>0, <1>1, <3>1, <3>2 DEF BeatsInOrder, WriteBeats
    <3>5. BeatsOf("WRITE", requests, ClientDone) \in Nat
      BY <1>1, BeatsOfType
    <3> QED BY <1>1, <3>2, <3>3, <3>4, <3>5
  <2> QED BY <2>1, <2>2
<1>6. \A i \in 0 .. ClientDone :
        MemoryOf(requests', masks')[i] = MemoryOf(requests, masks)[i]
  <2>1. /\ requests \in Seq(Requests) /\ requests' \in Seq(Requests)
        /\ masks \in Seq(BOOLEAN) /\ masks' \in Seq(BOOLEAN)
    BY <1>0 DEF TypeOK
  <2>2. /\ Len(requests) <= Len(requests') /\ Len(requests') \in Nat
        /\ Len(masks) <= Len(masks') /\ \A k \in 1 .. Len(masks) : masks[k] = masks'[k]
        /\ ClientDone <= Len(requests') /\ \A i \in 1 .. ClientDone : requests[i] = requests'[i]
    BY <1>1, <1>2, <2>1, LenProperties DEF Extended
  <2> DEFINE rs == requests
             qs == requests'
             ms == masks
             ns == masks'
             n == ClientDone
  <2>3. /\ rs \in Seq(Requests) /\ qs \in Seq(Requests) /\ ms \in Seq(BOOLEAN) /\ ns \in Seq(BOOLEAN)
        /\ n \in Nat /\ n <= Len(rs) /\ n <= Len(qs) /\ \A i \in 1 .. n : rs[i] = qs[i]
        /\ Len(ms) <= Len(ns) /\ \A k \in 1 .. Len(ms) : ms[k] = ns[k]
        /\ BeatsOf("WRITE", rs, n) <= Len(ms)
    BY <1>1, <1>5, <2>1, <2>2
  <2> HIDE DEF rs, qs, ms, ns, n
  <2>4. \A i \in 0 .. n : MemoryOf(rs, ms)[i] = MemoryOf(qs, ns)[i]
    BY <2>3, MemorySettled
  <2>5. \A i \in 0 .. n : MemoryOf(qs, ns)[i] = MemoryOf(rs, ms)[i]
    BY <2>4
  <2> QED BY <2>5 DEF rs, qs, ms, ns, n
<1> QED BY <1>2, <1>3, <1>4, <1>6

-----------------------------------------------------------------------------
(* What the streams say after a step.                                      *)

(* Requests.                                                               *)
LEMMA RequestsStay ==
  ASSUME RequestsInOrder, Asked' = Asked, Issued' = Issued, requests' = requests
  PROVE  RequestsInOrder' /\ Done' = Done
<1>1. Done' = Done
  BY DEF Done
<1> QED BY <1>1 DEF RequestsInOrder, RequestAt

(* A new request stands behind those on their way.                         *)
LEMMA RequestIssued ==
  ASSUME SramInv, StreamInv, Extended, NEW r \in Requests,
         Asked' = Append(Asked, r), Issued' = Issued + 1, r = RequestAt(requests', Issued + 1)
  PROVE  RequestsInOrder' /\ Done' = Done
<1>0. TypeOK /\ WriteInv /\ PhaseInv /\ RequestsInOrder
  BY DEF SramInv, StreamInv
<1>1. /\ Asked \in Seq(Requests) /\ Len(Asked) \in Nat /\ Issued \in Nat
      /\ Done \in Nat /\ Done + Len(Asked) = Issued
      /\ InitRequests \in Nat /\ Len(requests) \in Nat /\ Issued <= InitRequests + Len(requests)
  BY <1>0, StreamTypes, StreamBounds
<1>2. Len(Asked') = Len(Asked) + 1
      /\ \A j \in 1 .. Len(Asked) + 1 : Asked'[j] = IF j <= Len(Asked) THEN Asked[j] ELSE r
  <2> DEFINE q == Asked
  <2>1. q \in Seq(Requests) /\ Asked' = Append(q, r)
    BY <1>1
  <2> HIDE DEF q
  <2>2. Len(Append(q, r)) = Len(q) + 1
        /\ \A j \in 1 .. Len(q) + 1 : Append(q, r)[j] = IF j <= Len(q) THEN q[j] ELSE r
    BY <2>1
  <2>3. Len(Asked') = Len(q) + 1
        /\ \A j \in 1 .. Len(q) + 1 : Asked'[j] = IF j <= Len(q) THEN q[j] ELSE r
    BY <2>1, <2>2
  <2> QED BY <2>3 DEF q
<1>3. Done' = Done
  BY <1>1, <1>2 DEF Done
<1>4. ASSUME NEW j \in 1 .. Len(Asked) + 1 PROVE Asked'[j] = RequestAt(requests', Done + j)
  <2>1. CASE j <= Len(Asked)
    <3>1. j \in 1 .. Len(Asked)
      BY <1>1, <2>1
    <3>2. Asked'[j] = RequestAt(requests, Done + j)
      BY <1>0, <1>2, <3>1 DEF RequestsInOrder
    <3>3. RequestAt(requests', Done + j) = RequestAt(requests, Done + j)
      <4>1. CASE Done + j <= InitRequests
        BY <4>1 DEF RequestAt
      <4>2. CASE ~ (Done + j <= InitRequests)
        <5>1. (Done + j) - InitRequests \in 1 .. Len(requests)
          BY <1>1, <3>1, <4>2
        <5>2. requests'[(Done + j) - InitRequests] = requests[(Done + j) - InitRequests]
          BY <5>1 DEF Extended
        <5> QED BY <4>2, <5>2 DEF RequestAt
      <4> QED BY <4>1, <4>2
    <3> QED BY <3>2, <3>3
  <2>2. CASE ~ (j <= Len(Asked))
    <3>1. Done + j = Issued + 1
      BY <1>1, <2>2
    <3> QED BY <1>2, <2>2, <3>1
  <2> QED BY <2>1, <2>2
<1>5. RequestsInOrder'
  <2>1. \A j \in 1 .. Len(Asked') : Asked'[j] = RequestAt(requests', Done' + j)
    BY <1>2, <1>3, <1>4
  <2>2. Done' >= 0
    BY <1>1, <1>3
  <2> QED BY <2>1, <2>2 DEF RequestsInOrder
<1> QED BY <1>3, <1>5

(* The first of them is done next.                                         *)
LEMMA RequestTaken ==
  ASSUME SramInv, StreamInv, Asked # << >>,
         Asked' = Tail(Asked), Issued' = Issued, requests' = requests
  PROVE  /\ RequestsInOrder' /\ Done' = Done + 1 /\ Done + 1 <= Issued
         /\ Head(Asked) = RequestAt(requests, Done + 1)
<1>0. TypeOK /\ WriteInv /\ PhaseInv /\ RequestsInOrder
  BY DEF SramInv, StreamInv
<1>1. /\ Asked \in Seq(Requests) /\ Len(Asked) \in Nat /\ Issued \in Nat
      /\ Done \in Nat /\ Done + Len(Asked) = Issued
  BY <1>0, StreamTypes, StreamBounds
<1>2. /\ Len(Asked) >= 1 /\ Len(Asked') = Len(Asked) - 1 /\ Head(Asked) = Asked[1]
      /\ \A j \in 1 .. Len(Asked) - 1 : Asked'[j] = Asked[j + 1]
  BY <1>1, HeadTailProperties
<1>3. Done' = Done + 1 /\ Done + 1 <= Issued
  BY <1>1, <1>2 DEF Done
<1>4. Head(Asked) = RequestAt(requests, Done + 1)
  BY <1>0, <1>1, <1>2 DEF RequestsInOrder
<1>5. ASSUME NEW j \in 1 .. Len(Asked) - 1
      PROVE  Asked'[j] = RequestAt(requests', (Done + 1) + j)
  <2>1. j + 1 \in 1 .. Len(Asked) /\ Done + (j + 1) = (Done + 1) + j
    BY <1>1
  <2>2. Asked[j + 1] = RequestAt(requests, Done + (j + 1))
    BY <1>0, <2>1 DEF RequestsInOrder
  <2> QED BY <1>2, <2>1, <2>2
<1>6. RequestsInOrder'
  <2>1. \A j \in 1 .. Len(Asked') : Asked'[j] = RequestAt(requests', Done' + j)
    BY <1>2, <1>3, <1>5
  <2>2. Done' >= 0
    BY <1>1, <1>3
  <2> QED BY <2>1, <2>2 DEF RequestsInOrder
<1> QED BY <1>3, <1>4, <1>6

(* Beats.                                                                  *)
LEMMA BeatsStay ==
  ASSUME SramInv, TypeOK', StreamInv, Extended,
         Given' = Given, IssuedBeats' = IssuedBeats, Done' = Done
  PROVE  BeatsInOrder'
<1>0. TypeOK /\ WriteInv /\ PhaseInv /\ RequestsInOrder /\ BeatsInOrder
  BY DEF SramInv, StreamInv
<1>1. /\ DoneBeats \in Int /\ DoneBeats + Len(Given) = IssuedBeats /\ Len(Given) \in Nat
      /\ InitBeats \in Nat /\ Len(masks) \in Nat /\ IssuedBeats <= InitBeats + Len(masks)
      /\ IssuedBeats \in Nat
  BY <1>0, StreamTypes, StreamBounds
<1>2. DoneBeats' = DoneBeats
  BY DEF DoneBeats
<1>3. DoneBeats' = WriteBeats(requests', Done')
  BY <1>0, <1>2, DoneIsSettled DEF BeatsInOrder
<1>4. ASSUME NEW j \in 1 .. Len(Given), DoneBeats + j > InitBeats
      PROVE  masks'[(DoneBeats + j) - InitBeats] = masks[(DoneBeats + j) - InitBeats]
  <2>1. (DoneBeats + j) - InitBeats \in 1 .. Len(masks)
    BY <1>1, <1>4
  <2> QED BY <2>1 DEF Extended
<1> QED BY <1>0, <1>2, <1>3, <1>4 DEF BeatsInOrder

(* A new beat stands behind those on their way.                            *)
LEMMA BeatGiven ==
  ASSUME SramInv, TypeOK', StreamInv, Extended, NEW x \in BeatType,
         Given' = Append(Given, x), IssuedBeats' = IssuedBeats + 1, Done' = Done,
         IssuedBeats + 1 > BurstLength /\ IssuedBeats + 1 <= InitBeats => x = Beat(Pattern, FALSE),
         IssuedBeats + 1 > InitBeats
           => x = Beat((IssuedBeats + 1) - InitBeats, masks'[(IssuedBeats + 1) - InitBeats])
  PROVE  BeatsInOrder'
<1>0. TypeOK /\ WriteInv /\ PhaseInv /\ RequestsInOrder /\ BeatsInOrder
  BY DEF SramInv, StreamInv
<1>1. /\ DoneBeats \in Int /\ DoneBeats + Len(Given) = IssuedBeats /\ Len(Given) \in Nat
      /\ InitBeats \in Nat /\ Len(masks) \in Nat /\ IssuedBeats <= InitBeats + Len(masks)
      /\ IssuedBeats \in Nat /\ Given \in Seq(BeatType)
  BY <1>0, StreamTypes, StreamBounds
<1>2. Len(Given') = Len(Given) + 1
      /\ \A j \in 1 .. Len(Given) + 1 : Given'[j] = IF j <= Len(Given) THEN Given[j] ELSE x
  <2> DEFINE q == Given
  <2>1. q \in Seq(BeatType) /\ Given' = Append(q, x)
    BY <1>1
  <2> HIDE DEF q
  <2>2. Len(Append(q, x)) = Len(q) + 1
        /\ \A j \in 1 .. Len(q) + 1 : Append(q, x)[j] = IF j <= Len(q) THEN q[j] ELSE x
    BY <2>1
  <2>3. Len(Given') = Len(q) + 1
        /\ \A j \in 1 .. Len(q) + 1 : Given'[j] = IF j <= Len(q) THEN q[j] ELSE x
    BY <2>1, <2>2
  <2> QED BY <2>3 DEF q
<1>3. DoneBeats' = DoneBeats
  BY <1>1, <1>2 DEF DoneBeats
<1>4. DoneBeats' = WriteBeats(requests', Done')
  BY <1>0, <1>3, DoneIsSettled DEF BeatsInOrder
<1>5. ASSUME NEW j \in 1 .. Len(Given) + 1
      PROVE  /\ DoneBeats + j > BurstLength /\ DoneBeats + j <= InitBeats
                  => Given'[j] = Beat(Pattern, FALSE)
             /\ DoneBeats + j > InitBeats
                  => Given'[j] = Beat((DoneBeats + j) - InitBeats, masks'[(DoneBeats + j) - InitBeats])
  <2>1. CASE j <= Len(Given)
    <3>1. j \in 1 .. Len(Given) /\ Given'[j] = Given[j]
      BY <1>1, <1>2, <2>1
    <3>2. /\ DoneBeats + j > BurstLength /\ DoneBeats + j <= InitBeats
               => Given[j] = Beat(Pattern, FALSE)
          /\ DoneBeats + j > InitBeats
               => Given[j] = Beat((DoneBeats + j) - InitBeats, masks[(DoneBeats + j) - InitBeats])
      BY <1>0, <3>1 DEF BeatsInOrder
    <3>3. ASSUME DoneBeats + j > InitBeats
          PROVE  masks'[(DoneBeats + j) - InitBeats] = masks[(DoneBeats + j) - InitBeats]
      <4>1. (DoneBeats + j) - InitBeats \in 1 .. Len(masks)
        BY <1>1, <3>1, <3>3
      <4> QED BY <4>1 DEF Extended
    <3> QED BY <3>1, <3>2, <3>3
  <2>2. CASE ~ (j <= Len(Given))
    <3> DEFINE k == IssuedBeats + 1
               m == DoneBeats + j
    <3>1. m = k /\ Given'[j] = x
      BY <1>1, <1>2, <2>2
    <3>2. /\ k > BurstLength /\ k <= InitBeats => x = Beat(Pattern, FALSE)
          /\ k > InitBeats => x = Beat(k - InitBeats, masks'[k - InitBeats])
      OBVIOUS
    <3> HIDE DEF k
    <3>3. /\ m > BurstLength /\ m <= InitBeats => Given'[j] = Beat(Pattern, FALSE)
          /\ m > InitBeats => Given'[j] = Beat(m - InitBeats, masks'[m - InitBeats])
      <4> HIDE DEF m
      <4> QED BY <3>1, <3>2
    <3> QED BY <3>3
  <2> QED BY <2>1, <2>2
<1>6. \A j \in 1 .. Len(Given') :
        /\ DoneBeats' + j > BurstLength /\ DoneBeats' + j <= InitBeats
             => Given'[j] = Beat(Pattern, FALSE)
        /\ DoneBeats' + j > InitBeats
             => Given'[j] = Beat((DoneBeats' + j) - InitBeats, masks'[(DoneBeats' + j) - InitBeats])
  BY <1>2, <1>3, <1>5
<1>7. InitBeats' = InitBeats
  BY DEF InitBeats
<1> QED BY <1>4, <1>6, <1>7 DEF BeatsInOrder

(* The beats of a burst leave from the front.                              *)
LEMMA BurstTaken ==
  ASSUME SramInv, StreamInv, Len(Given) >= BurstLength,
         Len(Given') = Len(Given) - BurstLength,
         \A j \in 1 .. Len(Given') : Given'[j] = Given[j + BurstLength],
         IssuedBeats' = IssuedBeats, masks' = masks, requests' = requests,
         WriteBeats(requests, Done') = WriteBeats(requests, Done) + BurstLength
  PROVE  BeatsInOrder'
<1>0. TypeOK /\ WriteInv /\ PhaseInv /\ RequestsInOrder /\ BeatsInOrder
  BY DEF SramInv, StreamInv
<1>1. /\ DoneBeats \in Int /\ DoneBeats + Len(Given) = IssuedBeats /\ Len(Given) \in Nat
      /\ InitBeats \in Nat /\ IssuedBeats \in Nat
  BY <1>0, StreamTypes, StreamBounds
<1>2. DoneBeats' = DoneBeats + BurstLength
  BY <1>1, SramConstants DEF DoneBeats
<1>3. DoneBeats' = WriteBeats(requests', Done')
  BY <1>0, <1>2 DEF BeatsInOrder
<1>4. ASSUME NEW j \in 1 .. Len(Given')
      PROVE  /\ DoneBeats' + j > BurstLength /\ DoneBeats' + j <= InitBeats
                  => Given'[j] = Beat(Pattern, FALSE)
             /\ DoneBeats' + j > InitBeats
                  => Given'[j] = Beat((DoneBeats' + j) - InitBeats, masks'[(DoneBeats' + j) - InitBeats])
  <2>1. j + BurstLength \in 1 .. Len(Given) /\ DoneBeats + (j + BurstLength) = DoneBeats' + j
    BY <1>1, <1>2, SramConstants
  <2> DEFINE i == j + BurstLength
             k == DoneBeats + i
             m == DoneBeats' + j
  <2>2. /\ k > BurstLength /\ k <= InitBeats => Given[i] = Beat(Pattern, FALSE)
        /\ k > InitBeats => Given[i] = Beat(k - InitBeats, masks[k - InitBeats])
    BY <1>0, <2>1 DEF BeatsInOrder
  <2>3. Given'[j] = Given[i] /\ k = m
    BY <2>1
  <2> HIDE DEF i, k
  <2>4. /\ m > BurstLength /\ m <= InitBeats => Given'[j] = Beat(Pattern, FALSE)
        /\ m > InitBeats => Given'[j] = Beat(m - InitBeats, masks'[m - InitBeats])
    <3> HIDE DEF m
    <3> QED BY <2>2, <2>3
  <2> QED BY <2>4
<1>5. InitBeats' = InitBeats
  BY DEF InitBeats
<1> QED BY <1>3, <1>4, <1>5 DEF BeatsInOrder

(* The memory.                                                             *)
LEMMA MemoryStays ==
  ASSUME SramInv, TypeOK', StreamInv, Extended, mem' = mem, Done' = Done
  PROVE  MemoryIs'
<1>0. TypeOK /\ WriteInv /\ PhaseInv /\ RequestsInOrder /\ MemoryIs
  BY DEF SramInv, StreamInv
<1>1. ClientDone' = ClientDone /\ ClientDone \in 0 .. ClientDone
  <2>1. ClientDone \in Nat
    BY <1>0, StreamBounds
  <2> QED BY <2>1 DEF ClientDone, InitRequests
<1>2. MemoryOf(requests', masks')[ClientDone] = MemoryOf(requests, masks)[ClientDone]
  BY <1>1, DoneIsSettled
<1>3. InitRequests' = InitRequests
  BY DEF InitRequests
<1> QED BY <1>0, <1>1, <1>2, <1>3 DEF MemoryIs

(* What was read.                                                          *)
LEMMA ReadsStay ==
  ASSUME SramInv, TypeOK', StreamInv, Extended, Returned' = Returned, Done' = Done,
         initPhase' = initPhase,
         Done = 0 => syncReadDataQ' = << >> /\ readBuffer' = << >>
  PROVE  ReadsReturned'
<1>0. TypeOK /\ WriteInv /\ PhaseInv /\ RequestsInOrder /\ ReadsReturned
  BY DEF SramInv, StreamInv
<1>1. ClientDone' = ClientDone /\ ClientDone \in Nat
  <2>1. ClientDone \in Nat
    BY <1>0, StreamBounds
  <2> QED BY <2>1 DEF ClientDone, InitRequests
<1>2. BeatsOf("READ", requests', ClientDone) = BeatsOf("READ", requests, ClientDone)
  BY <1>1, DoneIsSettled
<1>3. ASSUME NEW i \in 1 .. ClientDone
      PROVE  /\ BeatsOf("READ", requests', i - 1) = BeatsOf("READ", requests, i - 1)
             /\ MemoryOf(requests', masks')[i] = MemoryOf(requests, masks)[i]
             /\ requests'[i] = requests[i]
  <2>1. i - 1 \in 0 .. ClientDone /\ i \in 0 .. ClientDone
    BY <1>1
  <2> QED BY <2>1, DoneIsSettled
<1>4. Done' = 0 => initPhase' = 0 /\ syncReadDataQ' = << >> /\ readBuffer' = << >>
  BY <1>0 DEF ReadsReturned
<1>5. ASSUME initPhase' = 1
      PROVE  /\ Len(Returned') = BeatsOf("READ", requests', ClientDone')
             /\ \A i \in 1 .. ClientDone', b \in Beats :
                  requests'[i].op = "READ" =>
                    Returned'[BeatsOf("READ", requests', i - 1) + b + 1]
                      = MemoryOf(requests', masks')[i][requests'[i].addr][b]
  <2>1. /\ Len(Returned) = BeatsOf("READ", requests, ClientDone)
        /\ \A i \in 1 .. ClientDone, b \in Beats :
             requests[i].op = "READ" =>
               Returned[BeatsOf("READ", requests, i - 1) + b + 1]
                 = MemoryOf(requests, masks)[i][requests[i].addr][b]
    BY <1>0, <1>5 DEF ReadsReturned
  <2>2. Len(Returned') = BeatsOf("READ", requests', ClientDone')
    BY <1>1, <1>2, <2>1
  <2>3. ASSUME NEW i \in 1 .. ClientDone', NEW b \in Beats, requests'[i].op = "READ"
        PROVE  Returned'[BeatsOf("READ", requests', i - 1) + b + 1]
                 = MemoryOf(requests', masks')[i][requests'[i].addr][b]
    <3>1. i \in 1 .. ClientDone
      BY <1>1, <2>3
    <3>2. requests[i].op = "READ"
      BY <1>3, <2>3, <3>1
    <3>3. Returned[BeatsOf("READ", requests, i - 1) + b + 1]
            = MemoryOf(requests, masks)[i][requests[i].addr][b]
      BY <2>1, <3>1, <3>2
    <3> QED BY <1>3, <3>1, <3>3
  <2> QED BY <2>2, <2>3
<1>6. Beats' = Beats
  BY DEF Beats
<1> QED BY <1>4, <1>5, <1>6 DEF ReadsReturned

(* A step that moves things along the streams or does not touch them.      *)
LEMMA StreamStays ==
  ASSUME SramInv, SramInv', StreamInv, PhaseInv',
         Asked' = Asked, Issued' = Issued, Given' = Given, IssuedBeats' = IssuedBeats,
         Returned' = Returned, mem' = mem, requests' = requests, masks' = masks,
         initPhase' = initPhase,
         Done = 0 => syncReadDataQ' = << >> /\ readBuffer' = << >>
  PROVE  StreamInv'
<1>1. TypeOK /\ TypeOK' /\ RequestsInOrder
  BY DEF SramInv, StreamInv
<1>2. Extended
  BY <1>1, SameIsExtended
<1>3. RequestsInOrder' /\ Done' = Done
  BY <1>1, RequestsStay
<1>4. BeatsInOrder'
  BY <1>1, <1>2, <1>3, BeatsStay
<1>5. MemoryIs'
  BY <1>1, <1>2, <1>3, MemoryStays
<1>6. ReadsReturned'
  BY <1>1, <1>2, <1>3, ReadsStay
<1> QED BY <1>3, <1>4, <1>5, <1>6 DEF StreamInv

(* The same, but for a new request at the end.                             *)
LEMMA StreamAsked ==
  ASSUME SramInv, SramInv', StreamInv, PhaseInv', Extended, NEW r \in Requests,
         Asked' = Append(Asked, r), Issued' = Issued + 1, r = RequestAt(requests', Issued + 1),
         Given' = Given, IssuedBeats' = IssuedBeats,
         Returned' = Returned, mem' = mem, initPhase' = initPhase,
         Done = 0 => syncReadDataQ' = << >> /\ readBuffer' = << >>
  PROVE  StreamInv'
<1>1. TypeOK /\ TypeOK'
  BY DEF SramInv
<1>3. RequestsInOrder' /\ Done' = Done
  BY <1>1, RequestIssued
<1>4. BeatsInOrder'
  BY <1>1, <1>3, BeatsStay
<1>5. MemoryIs'
  BY <1>1, <1>3, MemoryStays
<1>6. ReadsReturned'
  BY <1>1, <1>3, ReadsStay
<1> QED BY <1>3, <1>4, <1>5, <1>6 DEF StreamInv

(* A request comes to the end of what was asked, when none waits behind it.*)
LEMMA RequestAtTheEnd ==
  ASSUME TypeOK, mergeReqQ = << >>, NEW r \in Requests
  PROVE  addrQ \o (Append(syncRequestQ, r) \o << >>) = Append(Asked, r)
<1> DEFINE q == Append(syncRequestQ, r)
<1>1. addrQ \in Seq(Requests) /\ syncRequestQ \in Seq(Requests) /\ q \in Seq(Requests)
  BY DEF TypeOK
<1>2. syncRequestQ \o << >> = syncRequestQ
  BY <1>1, ConcatEmptySeq
<1>3. Asked = addrQ \o syncRequestQ
  BY <1>2 DEF Asked
<1>4. addrQ \o q = Append(addrQ \o syncRequestQ, r)
  BY <1>1, AppendRight
<1> HIDE DEF q
<1>5. q \o << >> = q
  BY <1>1, ConcatEmptySeq
<1>6. addrQ \o (q \o << >>) = Append(Asked, r)
  BY <1>3, <1>4, <1>5
<1> QED BY <1>6 DEF q

(* A beat comes to the end of what was given.                              *)
LEMMA BeatAtTheEnd ==
  ASSUME TypeOK, WriteInv, NEW x \in BeatType
  PROVE  dataQ \o (Collected \o (writeBuffer \o Append(syncWriteDataQ, x))) = Append(Given, x)
<1> DEFINE a == dataQ
           b == Collected
           c == writeBuffer
           d == syncWriteDataQ
           e == c \o d
<1>1. a \in Seq(BeatType) /\ b \in Seq(BeatType) /\ c \in Seq(BeatType) /\ d \in Seq(BeatType)
      /\ e \in Seq(BeatType)
  BY StreamTypes DEF TypeOK
<1>2. Given = a \o (b \o e)
  BY DEF Given
<1> HIDE DEF a, b, c, d
<1>3. c \o Append(d, x) = Append(e, x)
  BY <1>1, AppendRight
<1> HIDE DEF e
<1>4. a \o (b \o Append(e, x)) = Append(a \o (b \o e), x)
  <2> DEFINE g == b \o e
  <2>1. g \in Seq(BeatType)
    BY <1>1, ConcatProperties
  <2>2. b \o Append(e, x) = Append(g, x)
    BY <1>1, AppendRight
  <2> HIDE DEF g
  <2>3. a \o Append(g, x) = Append(a \o g, x)
    BY <1>1, <2>1, AppendRight
  <2>4. a \o (b \o Append(e, x)) = Append(a \o g, x)
    BY <2>2, <2>3
  <2> QED BY <2>4 DEF g
<1>5. a \o (b \o (c \o Append(d, x))) = Append(Given, x)
  BY <1>2, <1>3, <1>4
<1> QED BY <1>5 DEF a, b, c, d

(* Rules of the initialisation.                                            *)
LEMMA InitRequestStream ==
  ASSUME SramInv, SramInv', StreamInv, InitRequest PROVE StreamInv'
<1> USE SramConstants
<1>0. TypeOK /\ WriteInv /\ CreditInv /\ PhaseInv /\ ReadsReturned
  BY DEF SramInv, StreamInv
<1> DEFINE r == IF init0Stage = 0 THEN Read(0) ELSE Write(0)
<1>1. /\ state = "INIT" /\ initPhase = 0 /\ init0Stage \in {0, 1} /\ init0Stage' = init0Stage + 1
      /\ syncRequestQ' = Append(syncRequestQ, r)
      /\ UNCHANGED <<state, initPhase, initBurstIdx, initAddr, mergeReqQ, syncWriteDataQ,
                     writeVars, readBuffer, syncReadDataQ, mem, addrQ, dataQ, requests, masks,
                     responses>>
  BY DEF InitRequest, EnqRequest, ctrlVars, userVars
<1>2. r \in Requests
  BY RequestTypes
<1>3. Issued = init0Stage /\ Issued' = Issued + 1
  BY <1>1 DEF Issued
<1>4. r = RequestAt(requests', Issued + 1)
  BY <1>1, <1>3 DEF RequestAt
<1> HIDE DEF r
<1>5. Asked' = Append(Asked, r)
  <2>1. mergeReqQ = << >> /\ mergeReqQ' = << >>
    BY <1>0, <1>1 DEF CreditInv
  <2>2. Asked' = addrQ \o (Append(syncRequestQ, r) \o << >>)
    BY <1>1, <2>1 DEF Asked
  <2> QED BY <1>0, <1>2, <2>1, <2>2, RequestAtTheEnd
<1>6. Given' = Given /\ Returned' = Returned /\ IssuedBeats' = IssuedBeats
  BY <1>1 DEF Given, Collected, Returned, IssuedBeats, writeVars
<1>7. PhaseInv'
  BY <1>0, <1>1 DEF PhaseInv
<1>8. Extended
  BY <1>0, <1>1, SameIsExtended
<1>9. Done = 0 => syncReadDataQ' = << >> /\ readBuffer' = << >>
  BY <1>0, <1>1 DEF ReadsReturned
<1> QED BY <1>1, <1>2, <1>3, <1>4, <1>5, <1>6, <1>7, <1>8, <1>9, StreamAsked

(* A beat of the burst that was read is written back.                      *)
LEMMA InitLoopBackStream ==
  ASSUME SramInv, SramInv', StreamInv, InitLoopBack PROVE StreamInv'
<1> USE SramConstants
<1>0. TypeOK /\ TypeOK' /\ WriteInv /\ CreditInv' /\ PhaseInv /\ RequestsInOrder /\ ReadsReturned
  BY DEF SramInv, StreamInv
<1> DEFINE x == Beat(Head(syncReadDataQ), FALSE)
<1>1. /\ state = "INIT" /\ initPhase = 0 /\ init0Stage = 2 /\ initAddr = 0
      /\ syncReadDataQ # << >> /\ syncWriteDataQ' = Append(syncWriteDataQ, x)
      /\ IF initBurstIdx = LastBeat THEN initBurstIdx' = 0 /\ initPhase' = 1
         ELSE initBurstIdx' = initBurstIdx + 1 /\ initPhase' = initPhase
      /\ UNCHANGED <<state, init0Stage, initAddr, mergeReqQ, syncRequestQ, writeVars, mem,
                     addrQ, dataQ, requests, masks, responses>>
  BY <1>0 DEF InitLoopBack, EnqWriteData, ctrlVars, userVars, PhaseInv
<1>2. initBurstIdx \in Nat /\ initBurstIdx < BurstLength
  BY <1>0 DEF TypeOK, Beats
<1>3. x \in BeatType
  <2>1. syncReadDataQ \in Seq(Nat \cup {Unknown})
    BY <1>0 DEF TypeOK
  <2>2. Head(syncReadDataQ) \in Nat \cup {Unknown}
    BY <1>1, <2>1, HeadTailProperties
  <2> QED BY <2>2 DEF Beat, BeatType
<1> HIDE DEF x
<1>4. Issued = 2 /\ Issued' = Issued
  BY <1>1, <1>2 DEF Issued
<1>5. IssuedBeats = initBurstIdx /\ IssuedBeats' = IssuedBeats + 1
  <2>1. BurstLength * (1 + 0) = BurstLength
    OBVIOUS
  <2> QED BY <1>1, <1>2, <2>1 DEF IssuedBeats
<1>6. Asked' = Asked
  BY <1>1 DEF Asked
<1>7. Given' = Append(Given, x)
  <2>1. Given' = dataQ \o (Collected \o (writeBuffer \o Append(syncWriteDataQ, x)))
    <3>1. dataQ' = dataQ /\ Collected' = Collected /\ writeBuffer' = writeBuffer
      BY <1>1 DEF Collected, writeVars
    <3> QED BY <1>1, <3>1 DEF Given
  <2> QED BY <1>0, <1>3, <2>1, BeatAtTheEnd
<1>8. Extended /\ PhaseInv'
  BY <1>0, <1>1, SameIsExtended DEF PhaseInv
<1>9. RequestsInOrder' /\ Done' = Done
  BY <1>0, <1>1, <1>4, <1>6, RequestsStay
<1>10. BeatsInOrder'
  <2>1. ~ (IssuedBeats + 1 > BurstLength) /\ ~ (IssuedBeats + 1 > InitBeats)
    <3>1. InitBeats \in Nat /\ InitBeats >= BurstLength + BurstLength
      BY <1>0, StreamBounds
    <3> QED BY <1>2, <1>5, <3>1
  <2> QED BY <1>0, <1>3, <1>5, <1>7, <1>8, <1>9, <2>1, BeatGiven
<1>11. MemoryIs'
  BY <1>0, <1>1, <1>8, <1>9, MemoryStays
<1>12. ReadsReturned'
  <2>1. Done' # 0
    BY <1>0, <1>1, <1>9 DEF ReadsReturned
  <2>2. ASSUME initPhase' = 1
        PROVE  /\ Len(Returned') = BeatsOf("READ", requests', ClientDone')
               /\ ClientDone' = 0
    <3>1. state' = "INIT" /\ BeatsOwed' = 0
      BY <1>0, <1>1, <2>2 DEF CreditInv
    <3>2. WriteInv'
      BY DEF SramInv
    <3>4. /\ Len(readBuffer') \in Nat /\ Len(syncReadDataQ') \in Nat
          /\ BurstLength * ReadsWaiting' \in Nat
      <4>1. /\ mergeReqQ' \in Seq(Requests) /\ syncRequestQ' \in Seq(Requests)
            /\ addrQ' \in Seq(Requests) /\ readBuffer' \in Seq(Nat \cup {Unknown})
            /\ syncReadDataQ' \in Seq(Nat \cup {Unknown})
        BY <1>0 DEF TypeOK
      <4>2. /\ CountIn(mergeReqQ', ReadRequests) \in Nat
            /\ CountIn(syncRequestQ', ReadRequests) \in Nat
            /\ CountIn(addrQ', ReadRequests) \in Nat
        BY <4>1, CountType
      <4>3. ReadRequests' = ReadRequests
        BY DEF ReadRequests, Requests, Addrs
      <4>4. ReadsWaiting' \in Nat
        BY <4>2, <4>3 DEF ReadsWaiting
      <4>5. Len(readBuffer') \in Nat /\ Len(syncReadDataQ') \in Nat
        BY <4>1, LenProperties
      <4>6. BurstLength * ReadsWaiting' \in Nat
        <5>1. \A w \in Nat : BurstLength * w \in Nat
          OBVIOUS
        <5> QED BY <4>4, <5>1
      <4> QED BY <4>5, <4>6
    <3>5. Len(readBuffer') = 0 /\ Len(syncReadDataQ') = 0
      BY <1>0, <3>1, <3>4 DEF BeatsOwed
    <3>6. Len(responses') = 0
      BY <1>0, <1>1 DEF PhaseInv
    <3>7. Len(Returned') = Len(responses') + Len(syncReadDataQ') + Len(readBuffer')
      <4>1. /\ responses' \in Seq(Nat \cup {Unknown}) /\ syncReadDataQ' \in Seq(Nat \cup {Unknown})
            /\ readBuffer' \in Seq(Nat \cup {Unknown})
        BY <1>0 DEF TypeOK
      <4> QED BY <4>1, ThreeQueues DEF Returned
    <3>8. ClientDone' = 0
      <4>1. Done \in Nat /\ Done <= 2 /\ InitRequests = NumAddrs + 2
        BY <1>0, <1>4, StreamBounds
      <4>2. Done' <= InitRequests
        BY <1>9, <4>1
      <4> QED BY <4>2 DEF ClientDone, InitRequests
    <3>9. BeatsOf("READ", requests', 0) = 0
      BY BeatsOfType
    <3> QED BY <3>5, <3>6, <3>7, <3>8, <3>9
  <2> QED BY <2>1, <2>2 DEF ReadsReturned
<1> QED BY <1>8, <1>9, <1>10, <1>11, <1>12 DEF StreamInv

(* The address of the initialisation wraps at the end of the memory.       *)
LEMMA Wrap ==
  ASSUME NEW n \in Nat, NEW a \in Nat, a < n
  PROVE  (a + 1) % n = IF a + 1 = n THEN 0 ELSE a + 1
<1>1. CASE a + 1 = n
  <2>1. n % n = 0
    <3>1. n >= 1
      OBVIOUS
    <3> QED BY <3>1
  <2> QED BY <1>1, <2>1
<1>2. CASE a + 1 # n
  <2>1. a + 1 \in 0 .. n - 1
    BY <1>2
  <2> DEFINE b == a + 1
  <2> HIDE DEF b
  <2>2. \A c \in 0 .. n - 1 : c % n = c
    OBVIOUS
  <2> QED BY <1>2, <2>1, <2>2
<1> QED BY <1>1, <1>2

(* A beat of the pattern, and the write it belongs to.                     *)
LEMMA InitPhase1Stream ==
  ASSUME SramInv, SramInv', StreamInv, InitPhase1 PROVE StreamInv'
<1> USE SramConstants
<1>0. /\ TypeOK /\ TypeOK' /\ WriteInv /\ WriteInv' /\ CreditInv /\ PhaseInv
      /\ RequestsInOrder /\ ReadsReturned
  BY DEF SramInv, StreamInv
<1> DEFINE x == Beat(Pattern, FALSE)
           r == Write(initAddr)
<1>1. /\ state = "INIT" /\ initPhase = 1 /\ init0Stage = 2
      /\ requests = << >> /\ masks = << >> /\ responses = << >>
  BY <1>0 DEF InitPhase1, PhaseInv
<1>2. /\ IF initBurstIdx = 0 THEN syncRequestQ' = Append(syncRequestQ, r)
         ELSE syncRequestQ' = syncRequestQ
      /\ syncWriteDataQ' = Append(syncWriteDataQ, x)
      /\ UNCHANGED <<initPhase, init0Stage, mergeReqQ, writeVars, readBuffer, syncReadDataQ, mem,
                     addrQ, dataQ, requests, masks, responses>>
  BY DEF InitPhase1, EnqRequest, EnqWriteData, ctrlVars, userVars
<1>3. initAddr \in Nat /\ initAddr < NumAddrs /\ initBurstIdx \in Nat /\ initBurstIdx < BurstLength
      /\ initAddr \in Addrs
  BY <1>0 DEF TypeOK, Addrs, Beats
<1>4. IF initBurstIdx = LastBeat
      THEN /\ initBurstIdx' = 0
           /\ IF initAddr + 1 = NumAddrs THEN state' = "READY" /\ initAddr' = 0
              ELSE state' = "INIT" /\ initAddr' = initAddr + 1
      ELSE initBurstIdx' = initBurstIdx + 1 /\ initAddr' = initAddr /\ state' = "INIT"
  <2>1. (initAddr + 1) % NumAddrs = IF initAddr + 1 = NumAddrs THEN 0 ELSE initAddr + 1
    BY <1>3, Wrap
  <2> DEFINE w == (initAddr + 1) % NumAddrs
  <2>2. IF initBurstIdx = LastBeat
        THEN initBurstIdx' = 0 /\ initAddr' = w /\ state' = IF w = 0 THEN "READY" ELSE "INIT"
        ELSE initBurstIdx' = initBurstIdx + 1 /\ initAddr' = initAddr /\ state' = state
    BY DEF InitPhase1
  <2>3. w = IF initAddr + 1 = NumAddrs THEN 0 ELSE initAddr + 1
    BY <2>1
  <2> HIDE DEF w
  <2> QED BY <1>1, <1>3, <2>2, <2>3
<1>5. x \in BeatType /\ r \in Requests
  <2>1. x \in BeatType
    BY DEF Beat, BeatType, Pattern
  <2> QED BY <1>3, <2>1, RequestTypes
<1> HIDE DEF x, r
<1>6. /\ Issued = 2 + (IF initBurstIdx = 0 THEN initAddr ELSE initAddr + 1)
      /\ Issued' = 2 + (initAddr + 1)
  <2>1. Issued = 2 + (IF initBurstIdx = 0 THEN initAddr ELSE initAddr + 1)
    BY <1>1 DEF Issued
  <2>2. Len(requests') = 0
    BY <1>1, <1>2
  <2>3. Issued' = 2 + (IF state' = "READY" THEN NumAddrs
                       ELSE IF initBurstIdx' = 0 THEN initAddr' ELSE initAddr' + 1)
    BY <1>1, <1>2, <2>2 DEF Issued
  <2> QED BY <1>3, <1>4, <2>1, <2>3
<1>7. /\ IssuedBeats = BurstLength * (1 + initAddr) + initBurstIdx
      /\ IssuedBeats' = IssuedBeats + 1 /\ IssuedBeats >= BurstLength
      /\ IssuedBeats + 1 <= InitBeats
  <2>1. IssuedBeats = BurstLength * (1 + initAddr) + initBurstIdx
    BY <1>1 DEF IssuedBeats
  <2>2. Len(masks') = 0
    BY <1>1, <1>2
  <2>3. IssuedBeats' = IF state' = "READY" THEN InitBeats
                       ELSE BurstLength * (1 + initAddr') + initBurstIdx'
    <3>1. InitBeats' = InitBeats /\ InitBeats \in Nat
      BY <1>0, StreamBounds DEF InitBeats
    <3> QED BY <1>1, <1>2, <2>2, <3>1 DEF IssuedBeats
  <2>4. \A a \in Nat : BurstLength * (1 + (a + 1)) = BurstLength * (1 + a) + BurstLength
                       /\ BurstLength * (1 + a) \in Nat /\ BurstLength * (1 + a) >= BurstLength
    OBVIOUS
  <2>5. BurstLength * (1 + (initAddr + 1)) = BurstLength * (1 + initAddr) + BurstLength
        /\ BurstLength * (1 + initAddr) \in Nat /\ BurstLength * (1 + initAddr) >= BurstLength
    BY <1>3, <2>4
  <2>6. initAddr + 1 = NumAddrs => InitBeats = BurstLength * (1 + (initAddr + 1))
    BY DEF InitBeats
  <2>7. IssuedBeats' = IssuedBeats + 1
    <3> DEFINE p == BurstLength * (1 + initAddr)
               q == BurstLength * (1 + (initAddr + 1))
    <3>1. CASE initBurstIdx # LastBeat
      BY <1>3, <1>4, <2>1, <2>3, <2>5, <3>1
    <3>2. CASE initBurstIdx = LastBeat
      <4>0. q \in Nat
        BY <2>5
      <4>1. IssuedBeats' = q
        <5>1. CASE initAddr + 1 = NumAddrs
          BY <1>4, <2>3, <2>6, <3>2, <5>1
        <5>2. CASE initAddr + 1 # NumAddrs
          <6>1. BurstLength * (1 + initAddr') + initBurstIdx' = q + 0
            BY <1>4, <3>2, <5>2
          <6> HIDE DEF q
          <6> QED BY <1>4, <2>3, <3>2, <4>0, <5>2, <6>1
        <5> QED BY <5>1, <5>2
      <4>2. IssuedBeats = p + LastBeat /\ q = p + BurstLength /\ p \in Nat
        BY <2>1, <2>5, <3>2
      <4> HIDE DEF p, q
      <4> QED BY <4>1, <4>2
    <3> QED BY <3>1, <3>2
  <2>8. IssuedBeats' <= InitBeats
    <3>1. IF initAddr + 1 = NumAddrs THEN TRUE ELSE initAddr + 2 <= NumAddrs
      BY <1>3
    <3>2. BurstLength * (1 + (initAddr + 1)) <= InitBeats
      <4>1. \A a, b \in Nat : a <= b => BurstLength * a <= BurstLength * b
        OBVIOUS
      <4>2. 1 + (initAddr + 1) \in Nat /\ 1 + NumAddrs \in Nat /\ 1 + (initAddr + 1) <= 1 + NumAddrs
        BY <1>3
      <4> QED BY <4>1, <4>2 DEF InitBeats
    <3>3. InitBeats \in Nat /\ IssuedBeats \in Nat
      BY <1>0, StreamBounds
    <3> QED BY <1>3, <2>1, <2>5, <2>7, <3>2, <3>3
  <2> QED BY <1>3, <2>1, <2>5, <2>7, <2>8
<1>8. Given' = Append(Given, x)
  <2>1. Given' = dataQ \o (Collected \o (writeBuffer \o Append(syncWriteDataQ, x)))
    <3>1. dataQ' = dataQ /\ Collected' = Collected /\ writeBuffer' = writeBuffer
      BY <1>2 DEF Collected, writeVars
    <3> QED BY <1>2, <3>1 DEF Given
  <2> QED BY <1>0, <1>5, <2>1, BeatAtTheEnd
<1>9. Extended
  BY <1>0, <1>2, SameIsExtended
<1>10. RequestsInOrder' /\ Done' = Done
  <2>1. CASE initBurstIdx = 0
    <3>1. Issued + 1 = 3 + initAddr /\ Issued' = Issued + 1
      BY <1>3, <1>6, <2>1
    <3>2. Asked' = Append(Asked, r)
      <4>1. mergeReqQ = << >> /\ mergeReqQ' = << >>
        BY <1>0, <1>1, <1>2 DEF CreditInv
      <4>2. Asked' = addrQ \o (Append(syncRequestQ, r) \o << >>)
        BY <1>2, <2>1, <4>1 DEF Asked
      <4> QED BY <1>0, <1>5, <4>1, <4>2, RequestAtTheEnd
    <3>3. r = RequestAt(requests', Issued + 1)
      <4>1. InitRequests = NumAddrs + 2
        BY <1>0, StreamBounds
      <4>2. (3 + initAddr) - 3 = initAddr /\ 3 + initAddr # 1 /\ 3 + initAddr # 2
            /\ 3 + initAddr <= InitRequests
        BY <1>3, <4>1
      <4>3. RequestAt(requests', 3 + initAddr) = Write(initAddr)
        BY <4>2 DEF RequestAt
      <4> QED BY <3>1, <4>3 DEF r
    <3> QED BY <1>0, <1>5, <1>9, <3>1, <3>2, <3>3, RequestIssued
  <2>2. CASE initBurstIdx # 0
    <3>1. Asked' = Asked /\ Issued' = Issued
      BY <1>2, <1>3, <1>6, <2>2 DEF Asked
    <3> QED BY <1>0, <1>2, <3>1, RequestsStay
  <2> QED BY <2>1, <2>2
<1>11. BeatsInOrder'
  <2>1. /\ IssuedBeats + 1 > BurstLength /\ IssuedBeats + 1 <= InitBeats => x = Beat(Pattern, FALSE)
        /\ ~ (IssuedBeats + 1 > InitBeats)
    <3>1. InitBeats \in Nat /\ IssuedBeats \in Nat
      BY <1>0, StreamBounds
    <3> QED BY <1>7, <3>1 DEF x
  <2> QED BY <1>0, <1>5, <1>7, <1>8, <1>9, <1>10, <2>1, BeatGiven
<1>12. MemoryIs'
  BY <1>0, <1>2, <1>9, <1>10, MemoryStays
<1>13. ReadsReturned'
  <2>1. Returned' = Returned
    BY <1>2 DEF Returned
  <2>2. Done # 0
    BY <1>0, <1>1 DEF ReadsReturned
  <2> QED BY <1>0, <1>2, <1>9, <1>10, <2>1, <2>2, ReadsStay
<1>14. PhaseInv'
  BY <1>0, <1>1, <1>2, <1>4 DEF PhaseInv
<1> QED BY <1>10, <1>11, <1>12, <1>13, <1>14 DEF StreamInv

(* The first of the requests in the sync FIFO goes to the controller.      *)
LEMMA RequestSent ==
  ASSUME TypeOK, syncRequestQ # << >>, addrQ' = Append(addrQ, Head(syncRequestQ)),
         syncRequestQ' = Tail(syncRequestQ), mergeReqQ' = mergeReqQ
  PROVE  Asked' = Asked
<1> DEFINE a == addrQ
           b == syncRequestQ
           c == mergeReqQ
<1>1. a \in Seq(Requests) /\ b \in Seq(Requests) /\ c \in Seq(Requests) /\ b # << >>
  BY DEF TypeOK
<1>2. Asked = a \o (b \o c) /\ Asked' = Append(a, Head(b)) \o (Tail(b) \o c)
  BY DEF Asked
<1> HIDE DEF a, b, c
<1>3. Append(a, Head(b)) \o (Tail(b) \o c) = a \o (b \o c)
  BY <1>1, ThreeQueues
<1> QED BY <1>2, <1>3

(* The first of the collected beats goes to the controller.                *)
LEMMA BeatSent ==
  ASSUME TypeOK, WriteInv, Collected # << >>,
         dataQ' = Append(dataQ, Head(Collected)), Collected' = Tail(Collected),
         writeBuffer' = writeBuffer, syncWriteDataQ' = syncWriteDataQ
  PROVE  Given' = Given
<1> DEFINE a == dataQ
           b == Collected
           c == writeBuffer \o syncWriteDataQ
<1>1. a \in Seq(BeatType) /\ b \in Seq(BeatType) /\ c \in Seq(BeatType) /\ b # << >>
  BY StreamTypes DEF TypeOK
<1>2. Given = a \o (b \o c) /\ Given' = Append(a, Head(b)) \o (Tail(b) \o c)
  BY DEF Given
<1> HIDE DEF a, b, c
<1>3. Append(a, Head(b)) \o (Tail(b) \o c) = a \o (b \o c)
  BY <1>1, ThreeQueues
<1> QED BY <1>2, <1>3

(* Rules that carry requests and beats: what leaves one queue comes to the *)
(* next one.                                                               *)
LEMMA RulesStream ==
  ASSUME SramInv, SramInv', StreamInv, Rules PROVE StreamInv'
<1> USE SramConstants
<1>0. /\ TypeOK /\ TypeOK' /\ WriteInv /\ WriteInv' /\ CreditInv /\ PhaseInv
      /\ RequestsInOrder /\ ReadsReturned
  BY DEF SramInv, StreamInv
<1>1. /\ addrQ \in Seq(Requests) /\ syncRequestQ \in Seq(Requests) /\ mergeReqQ \in Seq(Requests)
      /\ dataQ \in Seq(BeatType) /\ Collected \in Seq(BeatType) /\ writeBuffer \in Seq(BeatType)
      /\ syncWriteDataQ \in Seq(BeatType) /\ writeBuffer \o syncWriteDataQ \in Seq(BeatType)
      /\ responses \in Seq(Nat \cup {Unknown}) /\ syncReadDataQ \in Seq(Nat \cup {Unknown})
      /\ readBuffer \in Seq(Nat \cup {Unknown})
  BY <1>0, StreamTypes DEF TypeOK
<1>2. /\ UNCHANGED <<initVars, mem, requests, masks, responses>>
      /\ PhaseInv' /\ Issued' = Issued /\ IssuedBeats' = IssuedBeats
  <2>1. UNCHANGED <<initVars, mem, requests, masks, responses>>
    BY DEF Rules, ForwardIncomingReq, ProcessReadRequest, WriteDataToBuffer, CopyWriteData,
           ProcessWriteRequest0, ProcessWriteRequest1, ReadRAMBufferToModel, ctrlVars, userVars
  <2>2. PhaseInv'
    BY <1>0, <2>1 DEF PhaseInv, initVars
  <2>3. Issued' = Issued /\ IssuedBeats' = IssuedBeats
    BY <2>1 DEF Issued, IssuedBeats, InitBeats, initVars
  <2> QED BY <2>1, <2>2, <2>3
<1>3. initPhase' = initPhase
  BY <1>2 DEF initVars
<1>4. SUFFICES /\ Asked' = Asked /\ Given' = Given /\ Returned' = Returned
               /\ Done = 0 => syncReadDataQ' = << >> /\ readBuffer' = << >>
  BY <1>2, <1>3, StreamStays
<1>5. Done = 0 => syncReadDataQ = << >> /\ readBuffer = << >>
  BY <1>0 DEF ReadsReturned
<1>6. CASE ForwardIncomingReq
  <2>1. /\ mergeReqQ # << >> /\ mergeReqQ' = Tail(mergeReqQ)
        /\ syncRequestQ' = Append(syncRequestQ, Head(mergeReqQ)) /\ addrQ' = addrQ
    BY <1>6 DEF ForwardIncomingReq, EnqRequest
  <2>2. Asked' = Asked
    <3>1. Append(syncRequestQ, Head(mergeReqQ)) \o Tail(mergeReqQ) = syncRequestQ \o mergeReqQ
      BY <1>1, <2>1, MoveHead
    <3> QED BY <2>1, <3>1 DEF Asked
  <2>3. Given' = Given /\ Returned' = Returned
        /\ syncReadDataQ' = syncReadDataQ /\ readBuffer' = readBuffer
    BY <1>2, <1>6 DEF ForwardIncomingReq, Given, Collected, Returned, writeVars
  <2> QED BY <1>5, <2>2, <2>3
<1>7. CASE ProcessReadRequest
  <2>1. /\ syncRequestQ # << >> /\ syncRequestQ' = Tail(syncRequestQ)
        /\ addrQ' = Append(addrQ, Head(syncRequestQ)) /\ mergeReqQ' = mergeReqQ
    BY <1>7 DEF ProcessReadRequest, EnqueueAddress
  <2>2. Asked' = Asked
    BY <1>0, <2>1, RequestSent
  <2>3. Given' = Given /\ Returned' = Returned
        /\ syncReadDataQ' = syncReadDataQ /\ readBuffer' = readBuffer
    BY <1>2, <1>7 DEF ProcessReadRequest, Given, Collected, Returned, writeVars
  <2> QED BY <1>5, <2>2, <2>3
<1>8. CASE WriteDataToBuffer
  <2>1. /\ syncWriteDataQ # << >> /\ syncWriteDataQ' = Tail(syncWriteDataQ)
        /\ writeBuffer = << >> /\ writeBuffer' = <<Head(syncWriteDataQ)>>
        /\ dataQ' = dataQ /\ Collected' = Collected
    BY <1>8 DEF WriteDataToBuffer, Collected
  <2>2. writeBuffer' \o syncWriteDataQ' = writeBuffer \o syncWriteDataQ
    <3>1. Append(writeBuffer, Head(syncWriteDataQ)) = <<Head(syncWriteDataQ)>>
      BY <2>1
    <3>2. Append(writeBuffer, Head(syncWriteDataQ)) \o Tail(syncWriteDataQ)
            = writeBuffer \o syncWriteDataQ
      BY <1>1, <2>1, MoveHead
    <3> QED BY <2>1, <3>1, <3>2
  <2>3. Given' = Given
    BY <2>1, <2>2 DEF Given
  <2>4. Asked' = Asked /\ Returned' = Returned
        /\ syncReadDataQ' = syncReadDataQ /\ readBuffer' = readBuffer
    BY <1>2, <1>8 DEF WriteDataToBuffer, Asked, Returned
  <2> QED BY <1>5, <2>3, <2>4
<1>9. CASE CopyWriteData
  <2>1. /\ writeBurstIdx # BurstLength /\ ~ writePending /\ writeBuffer # << >>
        /\ writeBuffer' = << >> /\ writeBurstIdx' = writeBurstIdx + 1
        /\ writeValue' = [writeValue EXCEPT ![writeBurstIdx] = Head(writeBuffer)]
        /\ UNCHANGED <<writePending, dataQ, syncWriteDataQ>>
    BY <1>9 DEF CopyWriteData
  <2>2. /\ writeValue \in [Beats -> BeatType] /\ writeBurstIdx \in Nat /\ writeBurstIdx \in Beats
        /\ Head(writeBuffer) \in BeatType /\ Len(writeBuffer) = 1
    <3>1. writeValue \in [Beats -> BeatType] /\ writeBurstIdx \in 0 .. BurstLength
          /\ Len(writeBuffer) <= 1
      BY <1>0 DEF TypeOK
    <3>2. Head(writeBuffer) \in BeatType
      BY <1>1, <2>1, HeadTailProperties
    <3>3. writeBurstIdx \in Nat /\ writeBurstIdx \in Beats
      BY <2>1, <3>1 DEF Beats
    <3>4. Len(writeBuffer) = 1
      <4> DEFINE n == Len(writeBuffer)
      <4>1. n \in Nat \ {0} /\ n <= 1
        BY <1>1, <2>1, <3>1, EmptySeq
      <4> HIDE DEF n
      <4>2. n = 1
        BY <4>1
      <4> QED BY <4>2 DEF n
    <3> QED BY <3>1, <3>2, <3>3, <3>4
  <2>3. Collected' = Append(Collected, Head(writeBuffer))
    <3>1. Collected = [j \in 1 .. writeBurstIdx |-> writeValue[j - 1]]
      BY <2>1 DEF Collected
    <3>2. Collected' = [j \in 1 .. writeBurstIdx + 1 |-> writeValue'[j - 1]]
      BY <2>1 DEF Collected
    <3>3. \A j \in 1 .. writeBurstIdx + 1 :
            writeValue'[j - 1] = IF j <= writeBurstIdx THEN writeValue[j - 1] ELSE Head(writeBuffer)
      <4> SUFFICES ASSUME NEW j \in 1 .. writeBurstIdx + 1
                   PROVE  writeValue'[j - 1] = IF j <= writeBurstIdx THEN writeValue[j - 1]
                                               ELSE Head(writeBuffer)
        OBVIOUS
      <4>1. j - 1 \in Beats /\ (j <= writeBurstIdx <=> j - 1 # writeBurstIdx)
        BY <2>2 DEF Beats
      <4> QED BY <2>1, <2>2, <4>1
    <3> DEFINE c == Collected
               x == Head(writeBuffer)
               d == [j \in 1 .. writeBurstIdx + 1 |-> writeValue'[j - 1]]
    <3>4. /\ c \in Seq(BeatType) /\ Len(c) = writeBurstIdx /\ x \in BeatType
          /\ \A j \in 1 .. writeBurstIdx : c[j] = writeValue[j - 1]
      BY <1>1, <2>2, <3>1
    <3>5. \A j \in 1 .. writeBurstIdx + 1 :
            writeValue'[j - 1] = IF j <= Len(c) THEN c[j] ELSE x
      BY <2>2, <3>3, <3>4
    <3>6. d = [j \in 1 .. Len(c) + 1 |-> IF j <= Len(c) THEN c[j] ELSE x]
      <4> HIDE DEF c, x
      <4> QED BY <3>4, <3>5
    <3> HIDE DEF c, x, d
    <3>7. d = Append(c, x)
      <4>1. Append(c, x) \in Seq(BeatType) /\ Len(Append(c, x)) = Len(c) + 1
            /\ \A j \in 1 .. Len(c) + 1 : Append(c, x)[j] = IF j <= Len(c) THEN c[j] ELSE x
        BY <3>4
      <4>2. d \in Seq(BeatType) /\ Len(d) = Len(c) + 1
            /\ \A j \in 1 .. Len(c) + 1 : d[j] = IF j <= Len(c) THEN c[j] ELSE x
        <5>1. \A j \in 1 .. Len(c) + 1 : (IF j <= Len(c) THEN c[j] ELSE x) \in BeatType
          BY <3>4
        <5>2. Len(c) + 1 \in Nat
          BY <3>4
        <5> QED BY <3>6, <5>1, <5>2
      <4> QED BY <4>1, <4>2, SeqEqual
    <3> QED BY <3>2, <3>7 DEF c, x, d
  <2>4. Collected' \o (writeBuffer' \o syncWriteDataQ')
          = Collected \o (writeBuffer \o syncWriteDataQ)
    <3> DEFINE d == writeBuffer \o syncWriteDataQ
    <3>1. d \in Seq(BeatType) /\ d # << >> /\ Head(d) = Head(writeBuffer)
          /\ Tail(d) = Tail(writeBuffer) \o syncWriteDataQ
      BY <1>1, <2>1, TailLeft
    <3>2. Tail(writeBuffer) = << >>
      <4>1. Tail(writeBuffer) \in Seq(BeatType) /\ Len(Tail(writeBuffer)) = 0
        BY <1>1, <2>1, <2>2, HeadTailProperties
      <4> DEFINE t == Tail(writeBuffer)
      <4>2. t \in Seq(BeatType) /\ Len(t) = 0
        BY <4>1
      <4> HIDE DEF t
      <4>3. t = << >>
        BY <4>2
      <4> QED BY <4>3 DEF t
    <3>3. writeBuffer' \o syncWriteDataQ' = Tail(d)
      BY <2>1, <3>1, <3>2
    <3> HIDE DEF d
    <3>4. Append(Collected, Head(d)) \o Tail(d) = Collected \o d
      BY <1>1, <3>1, MoveHead
    <3>5. Collected' = Append(Collected, Head(d))
      BY <2>3, <3>1
    <3>6. Collected' \o (writeBuffer' \o syncWriteDataQ') = Collected \o d
      BY <3>3, <3>4, <3>5
    <3> QED BY <3>6 DEF d
  <2>5. Given' = Given
    BY <2>1, <2>4 DEF Given
  <2>6. Asked' = Asked /\ Returned' = Returned
        /\ syncReadDataQ' = syncReadDataQ /\ readBuffer' = readBuffer
    BY <1>2, <1>9 DEF CopyWriteData, Asked, Returned
  <2> QED BY <1>5, <2>5, <2>6
<1>10. CASE ProcessWriteRequest0
  <2>1. /\ ~ writePending /\ writeBurstIdx = BurstLength
        /\ syncRequestQ # << >> /\ syncRequestQ' = Tail(syncRequestQ)
        /\ addrQ' = Append(addrQ, Head(syncRequestQ)) /\ mergeReqQ' = mergeReqQ
        /\ dataQ' = Append(dataQ, writeValue[0])
        /\ IF LastBeat = 0 THEN writeBurstIdx' = 0 /\ writePending' = writePending
           ELSE writeBurstIdx' = 1 /\ writePending' = TRUE
        /\ UNCHANGED <<writeBuffer, writeValue, syncWriteDataQ>>
    BY <1>10 DEF ProcessWriteRequest0, EnqueueAddress
  <2>2. Collected # << >> /\ Head(Collected) = writeValue[0] /\ Collected' = Tail(Collected)
    <3>1. Collected = [j \in 1 .. BurstLength |-> writeValue[0 + j - 1]]
      <4>1. Collected = [j \in 1 .. BurstLength |-> writeValue[j - 1]]
        BY <2>1 DEF Collected
      <4>2. \A j \in 1 .. BurstLength : 0 + j - 1 = j - 1
        OBVIOUS
      <4> QED BY <4>1, <4>2
    <3>2. Collected' = [j \in 1 .. BurstLength - 1 |-> writeValue[(0 + 1) + j - 1]]
      <4>1. CASE LastBeat = 0
        <5>1. Collected' = [j \in 1 .. 0 |-> writeValue'[j - 1]]
          BY <2>1, <4>1 DEF Collected
        <5>2. BurstLength - 1 = 0
          BY <4>1
        <5> QED BY <5>1, <5>2
      <4>2. CASE LastBeat # 0
        <5>1. Collected' = [j \in 1 .. BurstLength - 1 |-> writeValue[1 + j - 1]]
          BY <2>1, <4>2 DEF Collected
        <5> QED BY <5>1
      <4> QED BY <4>1, <4>2
    <3>3. writeValue \in [0 .. LastBeat -> BeatType] /\ LastBeat \in Nat
          /\ 0 + BurstLength <= LastBeat + 1
      BY <1>0 DEF TypeOK, Beats
    <3> QED BY <3>1, <3>2, <3>3, Slice
  <2>3. Given' = Given
    BY <1>0, <2>1, <2>2, BeatSent
  <2>4. Asked' = Asked
    BY <1>0, <2>1, RequestSent
  <2>5. Returned' = Returned
        /\ syncReadDataQ' = syncReadDataQ /\ readBuffer' = readBuffer
    BY <1>2, <1>10 DEF ProcessWriteRequest0, Returned
  <2> QED BY <1>5, <2>3, <2>4, <2>5
<1>11. CASE ProcessWriteRequest1
  <2>1. /\ writePending /\ writeBurstIdx \in Nat /\ writeBurstIdx >= 1 /\ writeBurstIdx <= LastBeat
        /\ dataQ' = Append(dataQ, writeValue[writeBurstIdx])
        /\ IF writeBurstIdx = LastBeat THEN writeBurstIdx' = 0 /\ writePending' = FALSE
           ELSE writeBurstIdx' = writeBurstIdx + 1 /\ writePending' = writePending
        /\ UNCHANGED <<writeBuffer, writeValue, syncWriteDataQ>>
    <3>1. writePending /\ writeBurstIdx \in 1 .. LastBeat
      BY <1>0, <1>11 DEF ProcessWriteRequest1, WriteInv
    <3>2. writeBurstIdx \in Nat /\ writeBurstIdx >= 1 /\ writeBurstIdx <= LastBeat
      BY <3>1
    <3> QED BY <1>11, <3>1, <3>2 DEF ProcessWriteRequest1
  <2> DEFINE n == BurstLength - writeBurstIdx
  <2>2. n \in Nat /\ n >= 1 /\ writeBurstIdx + n <= LastBeat + 1
    BY <2>1
  <2>3. Collected # << >> /\ Head(Collected) = writeValue[writeBurstIdx]
        /\ Collected' = Tail(Collected)
    <3>1. Collected = [j \in 1 .. n |-> writeValue[writeBurstIdx + j - 1]]
      BY <2>1 DEF Collected
    <3>2. Collected' = [j \in 1 .. n - 1 |-> writeValue[(writeBurstIdx + 1) + j - 1]]
      <4>1. CASE writeBurstIdx = LastBeat
        <5>1. Collected' = [j \in 1 .. 0 |-> writeValue'[j - 1]]
          BY <2>1, <4>1 DEF Collected
        <5>2. n - 1 = 0
          BY <4>1
        <5> QED BY <5>1, <5>2
      <4>2. CASE writeBurstIdx # LastBeat
        <5>1. Collected' = [j \in 1 .. BurstLength - (writeBurstIdx + 1) |->
                              writeValue[(writeBurstIdx + 1) + j - 1]]
          BY <2>1, <4>2 DEF Collected
        <5>2. BurstLength - (writeBurstIdx + 1) = n - 1
          BY <2>1
        <5> QED BY <5>1, <5>2
      <4> QED BY <4>1, <4>2
    <3>3. writeValue \in [0 .. LastBeat -> BeatType] /\ LastBeat \in Nat
      BY <1>0 DEF TypeOK, Beats
    <3> DEFINE m == writeBurstIdx
               s == [j \in 1 .. n |-> writeValue[m + j - 1]]
               t == [j \in 1 .. n - 1 |-> writeValue[(m + 1) + j - 1]]
    <3>4. m \in Nat /\ m + n <= LastBeat + 1 /\ Collected = s /\ Collected' = t
      BY <2>1, <2>2, <3>1, <3>2
    <3> HIDE DEF n, m
    <3>5. s # << >> /\ Head(s) = writeValue[m] /\ Tail(s) = t
      <4>1. n \in Nat /\ n >= 1 /\ m \in Nat /\ m + n <= LastBeat + 1
        BY <2>2, <3>4
      <4> QED BY <3>3, <4>1, Slice
    <3> HIDE DEF s, t
    <3>6. Collected # << >> /\ Head(Collected) = writeValue[m] /\ Collected' = Tail(Collected)
      BY <3>4, <3>5
    <3> QED BY <3>6 DEF m
  <2>4. Given' = Given
    BY <1>0, <2>1, <2>3, BeatSent
  <2>5. Asked' = Asked /\ Returned' = Returned
        /\ syncReadDataQ' = syncReadDataQ /\ readBuffer' = readBuffer
    BY <1>2, <1>11 DEF ProcessWriteRequest1, Asked, Returned
  <2> QED BY <1>5, <2>4, <2>5
<1>12. CASE ReadRAMBufferToModel
  <2>1. /\ readBuffer # << >> /\ readBuffer' = Tail(readBuffer)
        /\ syncReadDataQ' = Append(syncReadDataQ, Head(readBuffer))
    BY <1>12 DEF ReadRAMBufferToModel
  <2>2. Returned' = Returned
    <3>1. Append(syncReadDataQ, Head(readBuffer)) \o Tail(readBuffer) = syncReadDataQ \o readBuffer
      BY <1>1, <2>1, MoveHead
    <3> QED BY <1>2, <2>1, <3>1 DEF Returned
  <2>3. Asked' = Asked /\ Given' = Given
    BY <1>12 DEF ReadRAMBufferToModel, Asked, Given, Collected, writeVars
  <2> QED BY <1>5, <2>1, <2>2, <2>3
<1> QED BY <1>6, <1>7, <1>8, <1>9, <1>10, <1>11, <1>12 DEF Rules

(* A step that touches none of the queues.                                 *)
streamVars == <<initVars, mergeReqQ, syncRequestQ, addrQ, syncWriteDataQ, writeVars, dataQ,
                readBuffer, syncReadDataQ, mem, userVars>>

(* It keeps the streams.                                                   *)
LEMMA StreamUntouched ==
  ASSUME SramInv, SramInv', StreamInv, UNCHANGED streamVars PROVE StreamInv'
<1>1. UNCHANGED <<initVars, mergeReqQ, syncRequestQ, addrQ, syncWriteDataQ, writeVars, dataQ,
                  readBuffer, syncReadDataQ, mem, requests, masks, responses>>
  BY DEF streamVars, userVars
<1>2. PhaseInv' /\ initPhase' = initPhase
  BY <1>1 DEF StreamInv, PhaseInv, initVars
<1>3. Issued' = Issued /\ IssuedBeats' = IssuedBeats
  BY <1>1 DEF Issued, IssuedBeats, InitBeats, initVars
<1>4. Asked' = Asked /\ Given' = Given /\ Returned' = Returned
  BY <1>1 DEF Asked, Given, Collected, Returned, writeVars
<1>5. Done = 0 => syncReadDataQ' = << >> /\ readBuffer' = << >>
  BY <1>1 DEF StreamInv, ReadsReturned
<1> QED BY <1>1, <1>2, <1>3, <1>4, <1>5, StreamStays

(* A request of the client.                                                *)
LEMMA ClientRequestStream ==
  ASSUME SramInv, SramInv', StreamInv, state = "READY", NEW r \in Requests,
         mergeReqQ' = Append(mergeReqQ, r), requests' = Append(requests, r),
         UNCHANGED <<initVars, syncRequestQ, addrQ, syncWriteDataQ, writeVars, dataQ,
                     readBuffer, syncReadDataQ, mem, masks, responses>>
  PROVE  StreamInv'
<1> USE SramConstants
<1>0. TypeOK /\ WriteInv /\ PhaseInv /\ RequestsInOrder /\ ReadsReturned
  BY DEF SramInv, StreamInv
<1>1. /\ addrQ \in Seq(Requests) /\ syncRequestQ \in Seq(Requests) /\ mergeReqQ \in Seq(Requests)
      /\ requests \in Seq(Requests) /\ masks \in Seq(BOOLEAN)
  BY <1>0 DEF TypeOK
<1>2. /\ Len(requests) \in Nat /\ Len(requests') = Len(requests) + 1
      /\ requests'[Len(requests) + 1] = r
      /\ \A i \in 1 .. Len(requests) : requests'[i] = requests[i]
      /\ Len(masks) \in Nat
  BY <1>1
<1>3. Extended
  BY <1>2 DEF Extended
<1>4. /\ InitRequests \in Nat /\ InitRequests = NumAddrs + 2
      /\ Issued = InitRequests + Len(requests)
  BY <1>0, StreamBounds
<1>5. state' = "READY" /\ initPhase = 1 /\ initPhase' = 1 /\ init0Stage = 2 /\ init0Stage' = 2
  BY <1>0 DEF PhaseInv, initVars
<1>6. Issued' = Issued + 1 /\ IssuedBeats' = IssuedBeats
  <2>1. Issued' = 2 + (NumAddrs + Len(requests'))
    BY <1>5 DEF Issued
  <2>2. IssuedBeats' = IssuedBeats
    BY <1>5 DEF IssuedBeats, InitBeats
  <2> QED BY <1>2, <1>4, <2>1, <2>2
<1>7. r = RequestAt(requests', Issued + 1)
  <2>1. /\ Issued + 1 # 1 /\ Issued + 1 # 2 /\ ~ (Issued + 1 <= InitRequests)
        /\ (Issued + 1) - InitRequests = Len(requests) + 1
    BY <1>2, <1>4
  <2>2. RequestAt(requests', Issued + 1) = requests'[(Issued + 1) - InitRequests]
    BY <2>1 DEF RequestAt
  <2> QED BY <1>2, <2>1, <2>2
<1>8. Asked' = Append(Asked, r)
  <2> DEFINE a == addrQ
             b == syncRequestQ
             c == mergeReqQ
  <2>1. Asked = a \o (b \o c) /\ Asked' = a \o (b \o Append(c, r))
    BY DEF Asked
  <2>2. a \in Seq(Requests) /\ b \in Seq(Requests) /\ c \in Seq(Requests)
    BY <1>1
  <2> HIDE DEF a, b, c
  <2>3. b \o Append(c, r) = Append(b \o c, r)
    BY <2>2, AppendRight
  <2> DEFINE d == b \o c
  <2>4. d \in Seq(Requests)
    BY <2>2, ConcatProperties
  <2> HIDE DEF d
  <2>5. a \o Append(d, r) = Append(a \o d, r)
    BY <2>2, <2>4, AppendRight
  <2> QED BY <2>1, <2>3, <2>5 DEF d
<1>9. Given' = Given /\ Returned' = Returned
  BY DEF Given, Collected, Returned, writeVars
<1>10. PhaseInv'
  BY <1>5 DEF PhaseInv
<1>11. Done = 0 => syncReadDataQ' = << >> /\ readBuffer' = << >>
  BY <1>0 DEF ReadsReturned
<1> QED BY <1>3, <1>5, <1>6, <1>7, <1>8, <1>9, <1>10, <1>11, StreamAsked

(* A beat of the client.                                                   *)
LEMMA WriteDataStream ==
  ASSUME SramInv, SramInv', StreamInv, NEW masked \in BOOLEAN, WriteData(masked)
  PROVE  StreamInv'
<1> USE SramConstants
<1>0. TypeOK /\ TypeOK' /\ WriteInv /\ PhaseInv /\ RequestsInOrder /\ ReadsReturned
  BY DEF SramInv, StreamInv
<1> DEFINE x == Beat(Len(masks) + 1, masked)
<1>1. /\ state = "READY" /\ syncWriteDataQ' = Append(syncWriteDataQ, x)
      /\ masks' = Append(masks, masked)
      /\ UNCHANGED <<initVars, mergeReqQ, syncRequestQ, addrQ, writeVars, dataQ,
                     readBuffer, syncReadDataQ, mem, requests, responses>>
  BY DEF WriteData, EnqWriteData, ctrlVars
<1>2. requests \in Seq(Requests) /\ masks \in Seq(BOOLEAN)
  BY <1>0 DEF TypeOK
<1>3. /\ Len(masks) \in Nat /\ Len(masks') = Len(masks) + 1
      /\ masks'[Len(masks) + 1] = masked
      /\ \A i \in 1 .. Len(masks) : masks'[i] = masks[i]
      /\ Len(requests) \in Nat
  BY <1>1, <1>2
<1>4. x \in BeatType
  BY <1>3 DEF Beat, BeatType
<1>5. Extended
  BY <1>1, <1>3 DEF Extended
<1>6. /\ InitBeats \in Nat /\ InitBeats >= BurstLength /\ IssuedBeats = InitBeats + Len(masks)
  BY <1>0, <1>1, StreamBounds
<1>7. state' = "READY" /\ initPhase = 1 /\ initPhase' = 1 /\ init0Stage = 2 /\ init0Stage' = 2
  BY <1>0, <1>1 DEF PhaseInv, initVars
<1>8. Issued' = Issued /\ IssuedBeats' = IssuedBeats + 1
  <2>1. Issued' = Issued
    BY <1>1, <1>7 DEF Issued
  <2>2. IssuedBeats' = InitBeats + Len(masks')
    BY <1>7 DEF IssuedBeats, InitBeats
  <2> QED BY <1>3, <1>6, <2>1, <2>2
<1>9. Asked' = Asked /\ Returned' = Returned
  BY <1>1 DEF Asked, Returned
<1>10. RequestsInOrder' /\ Done' = Done
  BY <1>0, <1>1, <1>8, <1>9, RequestsStay
<1>11. BeatsInOrder'
  <2>1. (IssuedBeats + 1) - InitBeats = Len(masks) + 1 /\ ~ (IssuedBeats + 1 <= InitBeats)
    BY <1>3, <1>6
  <2>2. x = Beat((IssuedBeats + 1) - InitBeats, masks'[(IssuedBeats + 1) - InitBeats])
    BY <1>3, <2>1
  <2>3. Given' = Append(Given, x)
    <3> HIDE DEF x
    <3>1. Given' = dataQ \o (Collected \o (writeBuffer \o Append(syncWriteDataQ, x)))
      <4>1. dataQ' = dataQ /\ Collected' = Collected /\ writeBuffer' = writeBuffer
        BY <1>1 DEF Collected, writeVars
      <4> QED BY <1>1, <4>1 DEF Given
    <3> QED BY <1>0, <1>4, <3>1, BeatAtTheEnd
  <2> HIDE DEF x
  <2> QED BY <1>0, <1>4, <1>5, <1>8, <1>10, <2>1, <2>2, <2>3, BeatGiven
<1>12. MemoryIs'
  BY <1>0, <1>1, <1>5, <1>10, MemoryStays
<1>13. ReadsReturned'
  <2>1. Done = 0 => syncReadDataQ' = << >> /\ readBuffer' = << >>
    BY <1>0, <1>1 DEF ReadsReturned
  <2> QED BY <1>0, <1>5, <1>7, <1>9, <1>10, <2>1, ReadsStay
<1>14. PhaseInv'
  BY <1>7 DEF PhaseInv
<1> QED BY <1>10, <1>11, <1>12, <1>13, <1>14 DEF StreamInv

(* The client takes a beat it asked for.                                   *)
LEMMA ReadRspStream ==
  ASSUME SramInv, SramInv', StreamInv, ReadRsp PROVE StreamInv'
<1>0. TypeOK /\ PhaseInv /\ ReadsReturned
  BY DEF SramInv, StreamInv
<1>1. /\ state = "READY" /\ syncReadDataQ # << >> /\ syncReadDataQ' = Tail(syncReadDataQ)
      /\ responses' = Append(responses, Head(syncReadDataQ))
      /\ UNCHANGED <<initVars, mergeReqQ, syncRequestQ, addrQ, syncWriteDataQ, writeVars, dataQ,
                     readBuffer, mem, requests, masks>>
  BY DEF ReadRsp, ctrlVars
<1>2. Returned' = Returned
  <2> DEFINE a == responses
             b == syncReadDataQ
             c == readBuffer
             T == Nat \cup {Unknown}
  <2>1. a \in Seq(T) /\ b \in Seq(T) /\ c \in Seq(T) /\ b # << >>
    BY <1>0, <1>1 DEF TypeOK
  <2>2. Returned = a \o (b \o c) /\ Returned' = Append(a, Head(b)) \o (Tail(b) \o c)
    BY <1>1 DEF Returned
  <2> HIDE DEF a, b, c, T
  <2>3. Append(a, Head(b)) \o (Tail(b) \o c) = a \o (b \o c)
    BY <2>1, ThreeQueues
  <2> QED BY <2>2, <2>3
<1>3. PhaseInv' /\ initPhase' = initPhase
  BY <1>0, <1>1 DEF PhaseInv, initVars
<1>4. Issued' = Issued /\ IssuedBeats' = IssuedBeats
  BY <1>1 DEF Issued, IssuedBeats, InitBeats, initVars
<1>5. Asked' = Asked /\ Given' = Given
  BY <1>1 DEF Asked, Given, Collected, writeVars
<1>6. Done # 0
  BY <1>0, <1>1 DEF ReadsReturned
<1> QED BY <1>1, <1>2, <1>3, <1>4, <1>5, <1>6, StreamStays

(* The methods.                                                            *)
LEMMA ClientStream ==
  ASSUME SramInv, SramInv', StreamInv, Client PROVE StreamInv'
<1>1. ASSUME NEW a \in Addrs, ReadReq(a) PROVE StreamInv'
  <2>1. Read(a) \in Requests
    BY RequestTypes
  <2> DEFINE r == Read(a)
  <2>2. /\ state = "READY" /\ mergeReqQ' = Append(mergeReqQ, r) /\ requests' = Append(requests, r)
        /\ UNCHANGED <<initVars, syncRequestQ, addrQ, syncWriteDataQ, writeVars, dataQ,
                       readBuffer, syncReadDataQ, mem, masks, responses>>
    BY <1>1 DEF ReadReq, ctrlVars
  <2>3. r \in Requests
    BY <2>1
  <2> HIDE DEF r
  <2> QED BY <2>2, <2>3, ClientRequestStream
<1>2. ASSUME NEW a \in Addrs, WriteReq(a) PROVE StreamInv'
  <2>1. Write(a) \in Requests
    BY RequestTypes
  <2> DEFINE r == Write(a)
  <2>2. /\ state = "READY" /\ mergeReqQ' = Append(mergeReqQ, r) /\ requests' = Append(requests, r)
        /\ UNCHANGED <<initVars, syncRequestQ, addrQ, syncWriteDataQ, writeVars, dataQ,
                       readBuffer, syncReadDataQ, mem, masks, responses>>
    BY <1>2 DEF WriteReq, ctrlVars
  <2>3. r \in Requests
    BY <2>1
  <2> HIDE DEF r
  <2> QED BY <2>2, <2>3, ClientRequestStream
<1>3. ASSUME NEW masked \in BOOLEAN, WriteData(masked) PROVE StreamInv'
  BY <1>3, WriteDataStream
<1>4. CASE ReadRsp
  BY <1>4, ReadRspStream
<1>5. ASSUME NEW n \in MaxReadSettings, SetMaxReads(n) PROVE StreamInv'
  <2>1. UNCHANGED streamVars
    BY <1>5 DEF SetMaxReads, streamVars, ctrlVars
  <2> QED BY <2>1, StreamUntouched
<1> QED BY <1>1, <1>2, <1>3, <1>4, <1>5 DEF Client

(* The writes of the initialisation are done when the client's are.        *)
LEMMA WriteBeatsOfClient ==
  ASSUME NEW rs, NEW n \in Nat
  PROVE  WriteBeats(rs, InitRequests + n) = InitBeats + BeatsOf("WRITE", rs, n)
<1> USE SramConstants
<1>1. InitRequests \in Nat /\ InitRequests = NumAddrs + 2 /\ InitBeats \in Nat
  BY DEF InitRequests, InitBeats
<1>2. CASE n = 0
  <2>1. BeatsOf("WRITE", rs, 0) = 0
    BY BeatsOfType
  <2>2. InitRequests + 0 = InitRequests /\ InitRequests - 1 = 1 + NumAddrs
        /\ InitRequests # 0 /\ InitRequests <= InitRequests
    BY <1>1
  <2>3. WriteBeats(rs, InitRequests) = InitBeats
    BY <2>2 DEF WriteBeats, InitBeats
  <2> QED BY <1>1, <1>2, <2>1, <2>2, <2>3
<1>3. CASE n # 0
  <2>1. (InitRequests + n) - InitRequests = n /\ InitRequests + n # 0
        /\ ~ (InitRequests + n <= InitRequests)
    BY <1>1, <1>3
  <2> QED BY <2>1 DEF WriteBeats
<1> QED BY <1>2, <1>3

(* The controller takes the first request it was asked for.                *)
LEMMA AddressTaken ==
  ASSUME SramInv, SramInv', StreamInv, addrQ # << >>, addrQ' = Tail(addrQ),
         UNCHANGED <<initVars, syncRequestQ, mergeReqQ, requests, masks, responses>>
  PROVE  /\ RequestsInOrder' /\ PhaseInv' /\ initPhase' = initPhase
         /\ Done' = Done + 1 /\ IssuedBeats' = IssuedBeats
         /\ Head(addrQ) = RequestAt(requests, Done + 1)
         /\ Done + 1 <= InitRequests => ClientDone = 0 /\ ClientDone' = 0
         /\ Done + 1 > InitRequests =>
              /\ state = "READY" /\ initPhase = 1
              /\ ClientDone' = ClientDone + 1 /\ Done = InitRequests + ClientDone
              /\ ClientDone + 1 <= Len(requests)
              /\ Head(addrQ) = requests[ClientDone + 1]
<1> USE SramConstants
<1>0. TypeOK /\ TypeOK' /\ WriteInv /\ PhaseInv /\ RequestsInOrder
  BY DEF SramInv, StreamInv
<1>1. PhaseInv' /\ initPhase' = initPhase /\ Issued' = Issued /\ IssuedBeats' = IssuedBeats
      /\ InitRequests' = InitRequests
  <2>1. PhaseInv' /\ initPhase' = initPhase
    BY <1>0 DEF PhaseInv, initVars
  <2>2. Issued' = Issued /\ IssuedBeats' = IssuedBeats /\ InitRequests' = InitRequests
    BY DEF Issued, IssuedBeats, InitBeats, InitRequests, initVars
  <2> QED BY <2>1, <2>2
<1>2. Asked # << >> /\ Head(Asked) = Head(addrQ) /\ Asked' = Tail(Asked)
  <2> DEFINE a == addrQ
             d == syncRequestQ \o mergeReqQ
  <2>1. a \in Seq(Requests) /\ d \in Seq(Requests) /\ a # << >>
    <3>1. syncRequestQ \in Seq(Requests) /\ mergeReqQ \in Seq(Requests) /\ addrQ \in Seq(Requests)
      BY <1>0 DEF TypeOK
    <3> QED BY <3>1, ConcatProperties
  <2>2. Asked = a \o d /\ Asked' = Tail(a) \o d
    BY DEF Asked
  <2> HIDE DEF a, d
  <2>3. a \o d # << >> /\ Head(a \o d) = Head(a) /\ Tail(a) \o d = Tail(a \o d)
    BY <2>1, TailLeft
  <2>4. Asked # << >> /\ Head(Asked) = Head(a) /\ Asked' = Tail(Asked)
    BY <2>2, <2>3
  <2> QED BY <2>4 DEF a
<1>3. /\ RequestsInOrder' /\ Done' = Done + 1 /\ Done + 1 <= Issued
      /\ Head(addrQ) = RequestAt(requests, Done + 1)
  BY <1>1, <1>2, RequestTaken
<1>4. /\ Done \in Nat /\ Issued \in Nat /\ InitRequests \in Nat /\ InitRequests = NumAddrs + 2
      /\ Len(requests) \in Nat
      /\ state = "READY" => Issued = InitRequests + Len(requests)
      /\ state # "READY" => Issued <= InitRequests
  BY <1>0, StreamBounds
<1>5. ASSUME Done + 1 <= InitRequests PROVE ClientDone = 0 /\ ClientDone' = 0
  <2>1. Done <= InitRequests /\ Done' <= InitRequests'
    BY <1>1, <1>3, <1>4, <1>5
  <2> QED BY <2>1 DEF ClientDone
<1>6. ASSUME Done + 1 > InitRequests
      PROVE  /\ state = "READY" /\ initPhase = 1
             /\ ClientDone' = ClientDone + 1 /\ Done = InitRequests + ClientDone
             /\ ClientDone + 1 <= Len(requests)
             /\ Head(addrQ) = requests[ClientDone + 1]
  <2>1. state = "READY"
    BY <1>3, <1>4, <1>6
  <2>2. initPhase = 1
    BY <1>0, <2>1 DEF PhaseInv
  <2>3. ClientDone = Done - InitRequests
    <3>1. IF Done <= InitRequests THEN Done - InitRequests = 0 ELSE TRUE
      BY <1>4, <1>6
    <3> QED BY <3>1 DEF ClientDone
  <2>4. ClientDone' = (Done + 1) - InitRequests
    <3>1. ~ (Done' <= InitRequests')
      BY <1>1, <1>3, <1>4, <1>6
    <3> QED BY <1>1, <1>3, <3>1 DEF ClientDone
  <2>5. RequestAt(requests, Done + 1) = requests[(Done + 1) - InitRequests]
    <3>1. Done + 1 # 1 /\ Done + 1 # 2 /\ ~ (Done + 1 <= InitRequests)
      BY <1>4, <1>6
    <3> QED BY <3>1 DEF RequestAt
  <2>6. (Done + 1) - InitRequests = (Done - InitRequests) + 1
        /\ Done = InitRequests + (Done - InitRequests)
        /\ (Done - InitRequests) + 1 <= Len(requests)
    BY <1>3, <1>4, <2>1
  <2> QED BY <1>3, <2>1, <2>2, <2>3, <2>4, <2>5, <2>6
<1> QED BY <1>1, <1>3, <1>5, <1>6

(* A read: the first one of the initialisation, or one of the client.      *)
LEMMA ControllerReadStream ==
  ASSUME SramInv, SramInv', StreamInv, ControllerRead PROVE StreamInv'
<1> USE SramConstants
<1>0. /\ TypeOK /\ TypeOK' /\ WriteInv /\ PhaseInv /\ RequestsInOrder /\ BeatsInOrder
      /\ MemoryIs /\ ReadsReturned
  BY DEF SramInv, StreamInv
<1> DEFINE r == Head(addrQ)
<1>1. /\ addrQ # << >> /\ r.op = "READ" /\ addrQ' = Tail(addrQ)
      /\ readBuffer' = readBuffer \o Burst(r.addr)
      /\ UNCHANGED <<initVars, mergeReqQ, syncRequestQ, syncWriteDataQ, writeVars, syncReadDataQ,
                     mem, dataQ, requests, masks, responses>>
  BY DEF ControllerRead, ctrlVars, userVars
<1>2. r \in Requests /\ r.addr \in Addrs
  <2>1. addrQ \in Seq(Requests)
    BY <1>0 DEF TypeOK
  <2>2. r \in Requests
    BY <1>1, <2>1, HeadTailProperties
  <2> QED BY <2>2, RequestTypes
<1>3. /\ RequestsInOrder' /\ PhaseInv' /\ initPhase' = initPhase
      /\ Done' = Done + 1 /\ IssuedBeats' = IssuedBeats
      /\ r = RequestAt(requests, Done + 1)
      /\ Done + 1 <= InitRequests => ClientDone = 0 /\ ClientDone' = 0
      /\ Done + 1 > InitRequests =>
           /\ state = "READY" /\ initPhase = 1
           /\ ClientDone' = ClientDone + 1 /\ Done = InitRequests + ClientDone
           /\ ClientDone + 1 <= Len(requests)
           /\ r = requests[ClientDone + 1]
  BY <1>1, AddressTaken
<1> HIDE DEF r
<1>4. /\ Done \in Nat /\ InitRequests \in Nat /\ InitRequests = NumAddrs + 2
      /\ ClientDone \in Nat /\ Len(requests) \in Nat /\ InitBeats \in Nat
  BY <1>0, StreamBounds
<1>5. Given' = Given /\ DoneBeats' = DoneBeats /\ InitRequests' = InitRequests /\ InitBeats' = InitBeats
  <2>1. Given' = Given
    BY <1>1 DEF Given, Collected, writeVars
  <2> QED BY <1>3, <2>1 DEF DoneBeats, InitRequests, InitBeats
<1>6. WriteBeats(requests, Done + 1) = WriteBeats(requests, Done) => BeatsInOrder'
  BY <1>0, <1>1, <1>3, <1>5 DEF BeatsInOrder
<1>7. CASE Done + 1 <= InitRequests
  <2>1. Done = 0
    <3>1. Done + 1 = 1 \/ RequestAt(requests, Done + 1).op = "WRITE"
      BY <1>7 DEF RequestAt, Write
    <3> QED BY <1>1, <1>3, <1>4, <3>1
  <2>2. BeatsInOrder'
    <3>1. WriteBeats(requests, 1) = 0 /\ WriteBeats(requests, 0) = 0
      <4>1. BurstLength * (1 - 1) = 0
        OBVIOUS
      <4> QED BY <1>4, <4>1 DEF WriteBeats
    <3> QED BY <1>6, <2>1, <3>1
  <2>3. MemoryIs'
    <3>1. Done' = 1 /\ Done' < InitRequests' /\ \A a \in Addrs : ~ (a < Done' - 2)
      BY <1>3, <1>4, <1>5, <2>1 DEF Addrs
    <3> QED BY <1>4, <1>5, <3>1 DEF MemoryIs
  <2>4. ReadsReturned'
    <3>1. initPhase' = 0 /\ Done' # 0
      BY <1>0, <1>3, <1>4, <2>1 DEF ReadsReturned
    <3> QED BY <3>1 DEF ReadsReturned
  <2> QED BY <1>3, <2>2, <2>3, <2>4 DEF StreamInv
<1>8. CASE Done + 1 > InitRequests
  <2> DEFINE c == ClientDone
             f == MemoryOf(requests, masks)
             R(n) == BeatsOf("READ", requests, n)
  <2>1. /\ initPhase = 1 /\ c \in Nat /\ c + 1 \in Nat /\ c + 1 <= Len(requests)
        /\ ClientDone' = c + 1 /\ Done = InitRequests + c /\ r = requests[c + 1]
    BY <1>3, <1>4, <1>8
  <2>2. requests[c + 1].op = "READ"
    BY <1>1, <2>1
  <2>3. BeatsInOrder'
    <3>1. BeatsOf("WRITE", requests, c + 1) = BeatsOf("WRITE", requests, c)
      <4>1. BeatsOf("WRITE", requests, c + 1) = BeatsOf("WRITE", requests, c) + 0
        BY <2>1, <2>2, BeatsOfNext
      <4>2. BeatsOf("WRITE", requests, c) \in Nat
        BY <2>1, BeatsOfType
      <4> QED BY <4>1, <4>2
    <3>2. Done + 1 = InitRequests + (c + 1)
      BY <1>4, <2>1
    <3>3. WriteBeats(requests, InitRequests + (c + 1)) = InitBeats + BeatsOf("WRITE", requests, c + 1)
          /\ WriteBeats(requests, InitRequests + c) = InitBeats + BeatsOf("WRITE", requests, c)
      BY <2>1, WriteBeatsOfClient
    <3> QED BY <1>6, <2>1, <3>1, <3>2, <3>3
  <2>4. f[c + 1] = f[c] /\ mem = f[c] /\ mem' = f[c + 1]
    <3>1. requests \in Seq(Requests)
      BY <1>0 DEF TypeOK
    <3>2. c + 1 \in 1 .. Len(requests) /\ (c + 1) - 1 = c
      BY <1>4, <2>1
    <3>3. f[c + 1] = Changed(f[(c + 1) - 1], requests, masks, c + 1)
      BY <3>1, <3>2, MemoryExists
    <3>4. f[c + 1] = f[c]
      BY <2>2, <3>2, <3>3 DEF Changed
    <3>5. mem = f[c]
      <4>1. Done >= InitRequests
        BY <1>4, <2>1
      <4> QED BY <1>0, <4>1 DEF MemoryIs
    <3> QED BY <1>1, <3>4, <3>5
  <2>5. MemoryIs'
    <3>1. /\ ~ (Done' < InitRequests') /\ requests' = requests /\ masks' = masks
      BY <1>1, <1>3, <1>4, <1>5, <1>8
    <3>2. mem' = MemoryOf(requests', masks')[ClientDone']
      BY <2>1, <2>4, <3>1
    <3> HIDE DEF f
    <3> QED BY <3>1, <3>2 DEF MemoryIs
  <2>6. /\ Len(Returned) = R(c)
        /\ \A i \in 1 .. c, b \in Beats :
             requests[i].op = "READ" => Returned[R(i - 1) + b + 1] = f[i][requests[i].addr][b]
    BY <1>0, <2>1 DEF ReadsReturned
  <2>7. R(c) \in Nat /\ R(c + 1) = R(c) + BurstLength
    BY <2>1, <2>2, BeatsOfType, BeatsOfNext
  <2> DEFINE v == Burst(r.addr)
             T == Nat \cup {Unknown}
  <2>8. v \in Seq(T) /\ Len(v) = BurstLength /\ \A b \in Beats : v[b + 1] = mem[r.addr][b]
    <3>1. mem[r.addr] \in [Beats -> T]
      BY <1>0, <1>2 DEF TypeOK
    <3> DEFINE m == mem[r.addr]
    <3>2. m \in [Beats -> T] /\ v = [i \in 1 .. BurstLength |-> m[i - 1]]
      BY <3>1 DEF Burst
    <3> HIDE DEF m, T
    <3>3. \A i \in 1 .. BurstLength : i - 1 \in Beats
      BY DEF Beats
    <3>4. \A b \in Beats : b + 1 \in 1 .. BurstLength /\ (b + 1) - 1 = b
      BY DEF Beats
    <3> HIDE DEF v
    <3>5. v \in Seq(T) /\ Len(v) = BurstLength
      BY <3>2, <3>3
    <3>6. \A b \in Beats : v[b + 1] = m[b]
      BY <3>2, <3>4
    <3> QED BY <3>5, <3>6 DEF m
  <2>9. Returned' = Returned \o v
    <3> DEFINE x == responses
               y == syncReadDataQ
               z == readBuffer
    <3>1. x \in Seq(T) /\ y \in Seq(T) /\ z \in Seq(T) /\ v \in Seq(T)
      BY <1>0, <2>8 DEF TypeOK
    <3>2. Returned = x \o (y \o z) /\ Returned' = x \o (y \o (z \o v))
      BY <1>1 DEF Returned
    <3> HIDE DEF x, y, z, v, T
    <3>3. y \o (z \o v) = (y \o z) \o v
      BY SMTT(30), <3>1, ConcatAssociative
    <3> DEFINE yz == y \o z
    <3>4. yz \in Seq(T)
      BY <3>1, ConcatProperties
    <3> HIDE DEF yz
    <3>5. x \o (yz \o v) = (x \o yz) \o v
      BY SMTT(30), <3>1, <3>4, ConcatAssociative
    <3>6. Returned = x \o yz /\ Returned' = x \o (yz \o v)
      BY <3>2, <3>3 DEF yz
    <3> QED BY <3>5, <3>6
  <2>10. /\ Len(Returned') = R(c) + BurstLength
         /\ \A k \in 1 .. R(c) + BurstLength :
              Returned'[k] = IF k <= R(c) THEN Returned[k] ELSE v[k - R(c)]
    <3>1. Returned \in Seq(T)
      BY <1>0, StreamTypes
    <3> DEFINE q == Returned
    <3>2. q \in Seq(T) /\ v \in Seq(T) /\ Len(q) = R(c) /\ Len(v) = BurstLength
      BY <2>6, <2>8, <3>1
    <3> HIDE DEF q, v, T, R
    <3>3. /\ Len(q \o v) = Len(q) + Len(v)
          /\ \A k \in 1 .. Len(q) + Len(v) : (q \o v)[k] = IF k <= Len(q) THEN q[k] ELSE v[k - Len(q)]
      BY <3>2, ConcatProperties
    <3>4. Len(q \o v) = R(c) + BurstLength
          /\ \A k \in 1 .. R(c) + BurstLength : (q \o v)[k] = IF k <= R(c) THEN q[k] ELSE v[k - R(c)]
      BY <3>2, <3>3
    <3> QED BY <2>9, <3>4 DEF q
  <2> HIDE DEF v, T, f
  <2>11. ASSUME NEW i \in 1 .. c + 1, NEW b \in Beats, requests[i].op = "READ"
         PROVE  Returned'[R(i - 1) + b + 1] = f[i][requests[i].addr][b]
    <3>1. b \in Nat /\ b + 1 <= BurstLength /\ i \in Nat /\ i >= 1 /\ i - 1 \in Nat
      BY <2>1 DEF Beats
    <3>2. R(i - 1) \in Nat
      BY <3>1, BeatsOfType
    <3> DEFINE k == R(i - 1) + b + 1
    <3>3. CASE i <= c
      <4>1. R(i - 1) + BurstLength <= R(c)
        BY <2>1, <2>11, <3>1, <3>3, BeatsOfAmong
      <4>2. k \in 1 .. R(c) + BurstLength /\ k <= R(c)
        <5> HIDE DEF R
        <5> QED BY <2>7, <3>1, <3>2, <4>1
      <4>3. Returned[k] = f[i][requests[i].addr][b]
        <5>1. i \in 1 .. c
          BY <2>1, <3>3
        <5> QED BY <2>6, <2>11, <5>1
      <4> HIDE DEF k
      <4>4. Returned'[k] = Returned[k]
        BY <2>10, <4>2
      <4>5. Returned'[k] = f[i][requests[i].addr][b]
        BY <4>3, <4>4
      <4> QED BY <4>5 DEF k
    <3>4. CASE i > c
      <4>1. i = c + 1 /\ i - 1 = c
        BY <2>1, <3>4
      <4>2. k \in 1 .. R(c) + BurstLength /\ ~ (k <= R(c)) /\ k - R(c) = b + 1
        <5>1. R(i - 1) = R(c)
          BY <4>1
        <5> HIDE DEF R
        <5> QED BY <2>7, <3>1, <5>1
      <4> HIDE DEF k
      <4>3. Returned'[k] = v[b + 1]
        BY <2>10, <4>2
      <4>4. v[b + 1] = f[i][requests[i].addr][b]
        BY <2>1, <2>4, <2>8, <4>1
      <4>5. Returned'[k] = f[i][requests[i].addr][b]
        BY <4>3, <4>4
      <4> QED BY <4>5 DEF k
    <3> QED BY <2>1, <3>1, <3>3, <3>4
  <2>12. ReadsReturned'
    <3>1. Done' # 0
      BY <1>3, <1>4
    <3>2. Len(Returned') = BeatsOf("READ", requests', ClientDone')
      BY <1>1, <2>1, <2>7, <2>10
    <3>3. ASSUME NEW i \in 1 .. ClientDone', NEW b \in Beats', requests'[i].op = "READ"
          PROVE  Returned'[BeatsOf("READ", requests', i - 1) + b + 1]
                   = MemoryOf(requests', masks')[i][requests'[i].addr][b]
      <4>1. i \in 1 .. c + 1 /\ b \in Beats /\ requests[i].op = "READ"
        BY <1>1, <2>1, <3>3 DEF Beats
      <4>2. Returned'[R(i - 1) + b + 1] = f[i][requests[i].addr][b]
        BY <2>11, <4>1
      <4> QED BY <1>1, <4>2 DEF f
    <3> QED BY <3>1, <3>2, <3>3 DEF ReadsReturned
  <2> QED BY <1>3, <2>3, <2>5, <2>12 DEF StreamInv
<1> QED BY <1>4, <1>7, <1>8

(* A write takes the first burst that was given.                           *)
LEMMA BurstOfWrite ==
  ASSUME SramInv, ControllerWrite
  PROVE  /\ Len(Given) >= BurstLength /\ Len(Given') = Len(Given) - BurstLength
         /\ \A j \in 1 .. Len(Given') : Given'[j] = Given[j + BurstLength]
         /\ \A b \in Beats : Given[b + 1] = dataQ[b + 1] /\ b + 1 \in 1 .. Len(Given)
<1> USE SramConstants
<1>0. TypeOK /\ WriteInv
  BY DEF SramInv
<1> DEFINE p == dataQ
           q == Collected \o (writeBuffer \o syncWriteDataQ)
           s == SubSeq(p, BurstLength + 1, Len(p))
<1>1. p \in Seq(BeatType) /\ q \in Seq(BeatType) /\ Len(p) >= BurstLength
  BY <1>0, StreamTypes DEF TypeOK, ControllerWrite
<1>2. Given = p \o q /\ Given' = s \o q
  BY DEF ControllerWrite, Given, Collected, writeVars
<1> HIDE DEF p, q
<1>3. /\ s \in Seq(BeatType) /\ Len(s) = Len(p) - BurstLength
      /\ \A i \in 1 .. Len(p) - BurstLength : s[i] = p[i + BurstLength]
  BY <1>1
<1>4. Len(p) \in Nat /\ Len(q) \in Nat
  BY <1>1, LenProperties
<1> HIDE DEF s
<1>5. /\ Len(p \o q) = Len(p) + Len(q)
      /\ \A i \in 1 .. Len(p) + Len(q) : (p \o q)[i] = IF i <= Len(p) THEN p[i] ELSE q[i - Len(p)]
  BY <1>1, ConcatProperties
<1>6. /\ Len(s \o q) = Len(s) + Len(q)
      /\ \A i \in 1 .. Len(s) + Len(q) : (s \o q)[i] = IF i <= Len(s) THEN s[i] ELSE q[i - Len(s)]
  BY <1>1, <1>3, ConcatProperties
<1>7. Len(Given) >= BurstLength /\ Len(Given') = Len(Given) - BurstLength
  BY <1>1, <1>2, <1>3, <1>4, <1>5, <1>6
<1>8. ASSUME NEW j \in 1 .. Len(Given') PROVE Given'[j] = Given[j + BurstLength]
  <2>1. j \in 1 .. Len(s) + Len(q) /\ j + BurstLength \in 1 .. Len(p) + Len(q)
        /\ (j <= Len(s) <=> j + BurstLength <= Len(p))
        /\ j - Len(s) = (j + BurstLength) - Len(p)
    BY <1>2, <1>3, <1>4, <1>6
  <2>2. CASE j <= Len(s)
    <3>1. Given'[j] = s[j] /\ Given[j + BurstLength] = p[j + BurstLength]
      BY <1>2, <1>5, <1>6, <2>1, <2>2
    <3>2. j \in 1 .. Len(p) - BurstLength
      BY <1>3, <2>1, <2>2
    <3> QED BY <1>3, <3>1, <3>2
  <2>3. CASE ~ (j <= Len(s))
    BY <1>2, <1>5, <1>6, <2>1, <2>3
  <2> QED BY <2>2, <2>3
<1>9. ASSUME NEW b \in Beats PROVE Given[b + 1] = p[b + 1] /\ b + 1 \in 1 .. Len(Given)
  <2>1. b + 1 \in 1 .. Len(p) + Len(q) /\ b + 1 <= Len(p)
    BY <1>1, <1>4 DEF Beats
  <2> QED BY <1>2, <1>5, <2>1
<1> QED BY <1>7, <1>8, <1>9 DEF p

(* Each write has a burst of beats.                                        *)
LEMMA WriteBeatsNext ==
  ASSUME NEW rs, NEW k \in Nat, k >= 1, RequestAt(rs, k + 1).op = "WRITE"
  PROVE  WriteBeats(rs, k + 1) = WriteBeats(rs, k) + BurstLength
<1> USE SramConstants
<1>1. InitRequests \in Nat /\ InitRequests = NumAddrs + 2 /\ InitBeats \in Nat
  BY DEF InitRequests, InitBeats
<1>2. CASE k + 1 <= InitRequests
  <2>1. /\ k # 0 /\ k + 1 # 0 /\ k <= InitRequests /\ (k + 1) - 1 = (k - 1) + 1 /\ k - 1 \in Nat
    BY <1>1, <1>2
  <2>2. WriteBeats(rs, k + 1) = BurstLength * ((k - 1) + 1) /\ WriteBeats(rs, k) = BurstLength * (k - 1)
    BY <1>2, <2>1 DEF WriteBeats
  <2>3. \A n \in Nat : BurstLength * (n + 1) = BurstLength * n + BurstLength
    OBVIOUS
  <2> QED BY <2>1, <2>2, <2>3
<1>3. CASE k + 1 > InitRequests
  <2> DEFINE n == k - InitRequests
  <2>1. n \in Nat /\ k = InitRequests + n /\ k + 1 = InitRequests + (n + 1)
        /\ (k + 1) - InitRequests = n + 1
        /\ k + 1 # 1 /\ k + 1 # 2 /\ ~ (k + 1 <= InitRequests)
    BY <1>1, <1>3
  <2>2. rs[n + 1].op = "WRITE"
    BY <2>1 DEF RequestAt
  <2> HIDE DEF n
  <2>3. BeatsOf("WRITE", rs, n + 1) = BeatsOf("WRITE", rs, n) + BurstLength
        /\ BeatsOf("WRITE", rs, n) \in Nat
    BY <2>1, <2>2, BeatsOfNext, BeatsOfType
  <2>4. WriteBeats(rs, k) = InitBeats + BeatsOf("WRITE", rs, n)
        /\ WriteBeats(rs, k + 1) = InitBeats + BeatsOf("WRITE", rs, n + 1)
    <3>1. n + 1 \in Nat
      BY <2>1
    <3>2. WriteBeats(rs, InitRequests + n) = InitBeats + BeatsOf("WRITE", rs, n)
          /\ WriteBeats(rs, InitRequests + (n + 1)) = InitBeats + BeatsOf("WRITE", rs, n + 1)
      BY <2>1, <3>1, WriteBeatsOfClient
    <3> QED BY <2>1, <3>2
  <2> QED BY <1>1, <2>3, <2>4
<1> QED BY <1>1, <1>2, <1>3

(* A write: one of the initialisation, or one of the client.               *)
LEMMA ControllerWriteStream ==
  ASSUME SramInv, SramInv', StreamInv, ControllerWrite PROVE StreamInv'
<1> USE SramConstants
<1>0. /\ TypeOK /\ TypeOK' /\ WriteInv /\ PhaseInv /\ RequestsInOrder /\ BeatsInOrder
      /\ MemoryIs /\ ReadsReturned
  BY DEF SramInv, StreamInv
<1> DEFINE r == Head(addrQ)
           old == mem[r.addr]
           new == [b \in Beats |-> IF dataQ[b + 1].masked THEN old[b] ELSE dataQ[b + 1].value]
<1>1. /\ addrQ # << >> /\ r.op = "WRITE" /\ addrQ' = Tail(addrQ)
      /\ mem' = [mem EXCEPT ![r.addr] = new]
      /\ UNCHANGED <<initVars, mergeReqQ, syncRequestQ, readBuffer, syncReadDataQ,
                     requests, masks, responses>>
  BY DEF ControllerWrite, userVars
<1>2. r \in Requests /\ r.addr \in Addrs
  <2>1. addrQ \in Seq(Requests)
    BY <1>0 DEF TypeOK
  <2>2. r \in Requests
    BY <1>1, <2>1, HeadTailProperties
  <2> QED BY <2>2, RequestTypes
<1>3. /\ RequestsInOrder' /\ PhaseInv' /\ initPhase' = initPhase
      /\ Done' = Done + 1 /\ IssuedBeats' = IssuedBeats
      /\ r = RequestAt(requests, Done + 1)
      /\ Done + 1 <= InitRequests => ClientDone = 0 /\ ClientDone' = 0
      /\ Done + 1 > InitRequests =>
           /\ state = "READY" /\ initPhase = 1
           /\ ClientDone' = ClientDone + 1 /\ Done = InitRequests + ClientDone
           /\ ClientDone + 1 <= Len(requests)
           /\ r = requests[ClientDone + 1]
  BY <1>1, AddressTaken
<1> HIDE DEF r, old
<1>4. /\ Done \in Nat /\ InitRequests \in Nat /\ InitRequests = NumAddrs + 2
      /\ ClientDone \in Nat /\ Len(requests) \in Nat /\ InitBeats \in Nat
      /\ Len(masks) \in Nat
  BY <1>0, StreamBounds
<1>5. Done >= 1
  <2>1. RequestAt(requests, 1).op = "READ"
    BY DEF RequestAt, Read
  <2>2. Done # 0
    BY <1>1, <1>3, <2>1
  <2> QED BY <1>4, <2>2
<1>6. WriteBeats(requests, Done + 1) = WriteBeats(requests, Done) + BurstLength
  <2>1. RequestAt(requests, Done + 1).op = "WRITE"
    BY <1>1, <1>3
  <2> QED BY <1>4, <1>5, <2>1, WriteBeatsNext
<1>7. BeatsInOrder'
  BY <1>1, <1>3, <1>6, BurstOfWrite, BurstTaken
<1>8. \A b \in Beats : dataQ[b + 1] = Given[b + 1] /\ b + 1 \in 1 .. Len(Given)
  BY BurstOfWrite
<1>9. InitRequests' = InitRequests
  BY DEF InitRequests
<1>10. mem \in [Addrs -> [Beats -> Nat \cup {Unknown}]]
  BY <1>0 DEF TypeOK
<1>11. MemoryIs'
  <2>1. CASE Done + 1 = 2
    <3>1. Done' < InitRequests' /\ \A a \in Addrs : ~ (a < Done' - 2)
      BY <1>3, <1>4, <1>9, <2>1 DEF Addrs
    <3> QED BY <1>3, <1>4, <1>9, <3>1 DEF MemoryIs
  <2>2. CASE Done + 1 > 2 /\ Done + 1 <= InitRequests
    <3> DEFINE blank == [b \in Beats |-> Pattern]
    <3>1. r.addr = Done - 2
      <4>1. Done + 1 # 1 /\ Done + 1 # 2 /\ (Done + 1) - 3 = Done - 2
        BY <1>4, <2>2
      <4>2. r = Write((Done + 1) - 3)
        BY <1>3, <2>2, <4>1 DEF RequestAt
      <4> QED BY <4>1, <4>2 DEF Write
    <3>2. new = blank
      <4>1. DoneBeats \in Nat /\ DoneBeats >= BurstLength /\ DoneBeats + BurstLength <= InitBeats
        <5>1. DoneBeats = BurstLength * (Done - 1)
          <6>1. Done # 0 /\ Done <= InitRequests
            BY <1>4, <1>5, <2>2
          <6> QED BY <1>0, <6>1 DEF BeatsInOrder, WriteBeats
        <5>2. \A m, n \in Nat : m <= n => BurstLength * m <= BurstLength * n
              /\ BurstLength * m \in Nat /\ BurstLength * (m + 1) = BurstLength * m + BurstLength
          OBVIOUS
        <5>3. Done - 1 \in Nat /\ 1 \in Nat /\ 1 <= Done - 1 /\ (Done - 1) + 1 \in Nat
              /\ (Done - 1) + 1 <= 1 + NumAddrs /\ 1 + NumAddrs \in Nat
          BY <1>4, <2>2
        <5> DEFINE d == Done - 1
        <5>4. BurstLength * 1 <= BurstLength * d /\ BurstLength * d \in Nat
              /\ BurstLength * (d + 1) = BurstLength * d + BurstLength
              /\ BurstLength * (d + 1) <= InitBeats
          <6>1. d \in Nat /\ 1 \in Nat /\ 1 <= d /\ d + 1 \in Nat /\ d + 1 <= 1 + NumAddrs
                /\ 1 + NumAddrs \in Nat
            BY <5>3
          <6> HIDE DEF d
          <6>2. BurstLength * (d + 1) <= BurstLength * (1 + NumAddrs)
            BY <5>2, <6>1
          <6>3. BurstLength * 1 <= BurstLength * d /\ BurstLength * d \in Nat
                /\ BurstLength * (d + 1) = BurstLength * d + BurstLength
            BY <5>2, <6>1
          <6> QED BY <6>2, <6>3 DEF InitBeats
        <5>5. DoneBeats = BurstLength * d
          BY <5>1
        <5> HIDE DEF d
        <5> QED BY <5>4, <5>5
      <4>2. ASSUME NEW b \in Beats PROVE dataQ[b + 1] = Beat(Pattern, FALSE)
        <5>1. b \in Nat /\ b + 1 <= BurstLength
          BY DEF Beats
        <5>2. b + 1 \in 1 .. Len(Given) /\ dataQ[b + 1] = Given[b + 1]
          BY <1>8
        <5>3. DoneBeats + (b + 1) > BurstLength /\ DoneBeats + (b + 1) <= InitBeats
          BY <1>4, <4>1, <5>1
        <5> QED BY <1>0, <5>2, <5>3 DEF BeatsInOrder
      <4>3. \A b \in Beats : (IF dataQ[b + 1].masked THEN old[b] ELSE dataQ[b + 1].value) = Pattern
        BY <4>2 DEF Beat
      <4> QED BY <4>3
    <3> HIDE DEF new, blank
    <3>3. ASSUME NEW a \in Addrs, a < Done - 1 PROVE mem'[a] = blank
      <4>1. CASE a = r.addr
        BY <1>1, <1>10, <3>2, <4>1
      <4>2. CASE a # r.addr
        <5>1. a < Done - 2 /\ Done < InitRequests
          BY <1>4, <2>2, <3>1, <3>3, <4>2 DEF Addrs
        <5>2. mem[a] = blank
          BY <1>0, <5>1 DEF MemoryIs, blank
        <5> QED BY <1>1, <1>10, <4>2, <5>2
      <4> QED BY <4>1, <4>2
    <3>4. CASE Done + 1 < InitRequests
      <4>1. ~ (Done' >= InitRequests') /\ Done' - 2 = Done - 1
        BY <1>3, <1>4, <1>9, <3>4
      <4> QED BY <3>3, <4>1 DEF MemoryIs, blank, Addrs, Beats
    <3>5. CASE Done + 1 = InitRequests
      <4>1. ~ (Done' < InitRequests') /\ \A a \in Addrs : a < Done - 1
        BY <1>3, <1>4, <1>9, <3>5 DEF Addrs
      <4>2. mem' \in [Addrs -> [Beats -> Nat \cup {Unknown}]]
        BY <1>0 DEF TypeOK, Addrs, Beats
      <4>3. mem' = Blank
        <5>1. mem' = [a \in Addrs |-> mem'[a]]
          BY <4>2
        <5>2. \A a \in Addrs : mem'[a] = blank
          BY <3>3, <4>1
        <5>3. mem' = [a \in Addrs |-> blank]
          BY <5>1, <5>2
        <5> QED BY <5>3 DEF Blank, blank
      <4>4. MemoryOf(requests, masks)[0] = Blank
        <5>1. requests \in Seq(Requests)
          BY <1>0 DEF TypeOK
        <5> QED BY <5>1, MemoryExists
      <4>5. ClientDone' = 0
        BY <1>3, <2>2
      <4>6. mem' = MemoryOf(requests', masks')[ClientDone']
        BY <1>1, <4>3, <4>4, <4>5
      <4> QED BY <4>1, <4>6 DEF MemoryIs
    <3> QED BY <1>4, <2>2, <3>4, <3>5
  <2>3. CASE Done + 1 > InitRequests
    <3> DEFINE c == ClientDone
               f == MemoryOf(requests, masks)
               w == BeatsOf("WRITE", requests, c)
    <3>1. /\ c \in Nat /\ c + 1 <= Len(requests) /\ ClientDone' = c + 1
          /\ Done = InitRequests + c /\ r = requests[c + 1] /\ state = "READY"
          /\ c + 1 \in 1 .. Len(requests) /\ (c + 1) - 1 = c
      BY <1>3, <1>4, <2>3
    <3>2. w \in Nat /\ DoneBeats = InitBeats + w
      <4>1. w \in Nat
        BY <3>1, BeatsOfType
      <4>2. WriteBeats(requests, InitRequests + c) = InitBeats + w
        BY <3>1, WriteBeatsOfClient
      <4> QED BY <1>0, <3>1, <4>1, <4>2 DEF BeatsInOrder
    <3>3. DoneBeats + Len(Given) = InitBeats + Len(masks) /\ Len(Given) \in Nat
      <4>1. DoneBeats + Len(Given) = IssuedBeats /\ IssuedBeats = InitBeats + Len(masks)
        BY <1>0, <3>1, StreamBounds
      <4> QED BY <1>0, <4>1, StreamTypes
    <3> HIDE DEF w
    <3>4. ASSUME NEW b \in Beats
          PROVE  ~ (w + b + 1 > Len(masks)) /\ dataQ[b + 1] = Beat(w + b + 1, masks[w + b + 1])
      <4>0. b \in Nat
        BY DEF Beats
      <4>1. b \in Nat /\ b + 1 \in 1 .. Len(Given) /\ dataQ[b + 1] = Given[b + 1]
        BY <1>8, <4>0
      <4>2. DoneBeats + (b + 1) > InitBeats /\ (DoneBeats + (b + 1)) - InitBeats = w + b + 1
            /\ ~ (w + b + 1 > Len(masks))
        BY <1>4, <3>2, <3>3, <4>1
      <4>3. Given[b + 1] = Beat((DoneBeats + (b + 1)) - InitBeats,
                                masks[(DoneBeats + (b + 1)) - InitBeats])
        BY <1>0, <4>1, <4>2 DEF BeatsInOrder
      <4> QED BY <4>1, <4>2, <4>3
    <3> DEFINE next == [b \in Beats |-> IF w + b + 1 > Len(masks) \/ masks[w + b + 1]
                                        THEN old[b] ELSE w + b + 1]
    <3>5. new = next
      <4>1. \A b \in Beats : (IF dataQ[b + 1].masked THEN old[b] ELSE dataQ[b + 1].value)
                               = IF w + b + 1 > Len(masks) \/ masks[w + b + 1]
                                 THEN old[b] ELSE w + b + 1
        <5> SUFFICES ASSUME NEW b \in Beats
                     PROVE  (IF dataQ[b + 1].masked THEN old[b] ELSE dataQ[b + 1].value)
                              = IF w + b + 1 > Len(masks) \/ masks[w + b + 1]
                                THEN old[b] ELSE w + b + 1
          OBVIOUS
        <5> DEFINE k == w + b + 1
        <5>1. ~ (k > Len(masks)) /\ dataQ[b + 1].masked = masks[k] /\ dataQ[b + 1].value = k
          <6>1. ~ (k > Len(masks)) /\ dataQ[b + 1] = Beat(k, masks[k])
            BY <3>4
          <6> HIDE DEF k
          <6> QED BY <6>1 DEF Beat
        <5> HIDE DEF k
        <5>2. (IF dataQ[b + 1].masked THEN old[b] ELSE dataQ[b + 1].value)
                = IF k > Len(masks) \/ masks[k] THEN old[b] ELSE k
          <6>1. CASE masks[k]
            BY <5>1, <6>1
          <6>2. CASE ~ masks[k]
            BY <5>1, <6>2
          <6> QED BY <6>1, <6>2
        <5> QED BY <5>2 DEF k
      <4> QED BY <4>1
    <3>6. f[c + 1] = [f[c] EXCEPT ![r.addr] = next] /\ mem = f[c]
      <4>1. requests \in Seq(Requests)
        BY <1>0 DEF TypeOK
      <4>2. f[c + 1] = Changed(f[(c + 1) - 1], requests, masks, c + 1)
        BY <3>1, <4>1, MemoryExists
      <4>3. mem = f[c]
        <5>1. Done >= InitRequests
          BY <1>4, <3>1
        <5> QED BY <1>0, <5>1 DEF MemoryIs
      <4>4. f[c + 1] = Changed(mem, requests, masks, c + 1)
        BY <3>1, <4>2, <4>3
      <4>5. requests[c + 1].op # "READ" /\ requests[c + 1].addr = r.addr
        BY <1>1, <3>1
      <4> DEFINE m == mem
                 a == r.addr
                 up == [b \in Beats |-> IF w + b + 1 > Len(masks) \/ masks[w + b + 1]
                                        THEN m[a][b] ELSE w + b + 1]
      <4>6. next = up
        BY DEF old
      <4>7. Changed(m, requests, masks, c + 1) = [m EXCEPT ![a] = up]
        BY <3>1, <4>5 DEF Changed, w
      <4> HIDE DEF next, up, f
      <4> QED BY <4>3, <4>4, <4>6, <4>7
    <3> HIDE DEF next, new
    <3>7. mem' = f[c + 1]
      BY <1>1, <3>5, <3>6
    <3>8. ~ (Done' < InitRequests')
      BY <1>3, <1>4, <1>9, <2>3
    <3>9. mem' = MemoryOf(requests', masks')[ClientDone']
      BY <1>1, <3>1, <3>7
    <3> QED BY <3>8, <3>9 DEF MemoryIs
  <2> QED BY <1>4, <1>5, <2>1, <2>2, <2>3
<1>12. ReadsReturned'
  <2>1. Done' # 0 /\ Returned' = Returned
    BY <1>1, <1>3, <1>4 DEF Returned
  <2>2. /\ ClientDone' \in Nat /\ (ClientDone' = ClientDone \/ ClientDone' = ClientDone + 1)
        /\ BeatsOf("READ", requests, ClientDone') = BeatsOf("READ", requests, ClientDone)
        /\ ClientDone' = ClientDone + 1 => requests[ClientDone + 1].op = "WRITE"
    <3>1. CASE Done + 1 <= InitRequests
      BY <1>3, <3>1
    <3>2. CASE Done + 1 > InitRequests
      <4>1. ClientDone' = ClientDone + 1 /\ requests[ClientDone + 1].op = "WRITE"
        BY <1>1, <1>3, <3>2
      <4>2. BeatsOf("READ", requests, ClientDone + 1) = BeatsOf("READ", requests, ClientDone) + 0
            /\ BeatsOf("READ", requests, ClientDone) \in Nat
        <5>1. requests[ClientDone + 1].op # "READ"
          BY <4>1
        <5> DEFINE n == ClientDone
        <5>2. n \in Nat /\ requests[n + 1].op # "READ"
          BY <1>4, <5>1
        <5> HIDE DEF n
        <5>3. BeatsOf("READ", requests, n + 1) = BeatsOf("READ", requests, n) + 0
              /\ BeatsOf("READ", requests, n) \in Nat
          <6>1. BeatsOf("READ", requests, n + 1)
                  = BeatsOf("READ", requests, n)
                      + IF requests[n + 1].op = "READ" THEN BurstLength ELSE 0
            BY <5>2, BeatsOfNext
          <6>2. BeatsOf("READ", requests, n) \in Nat
            BY <5>2, BeatsOfType
          <6> QED BY <5>2, <6>1, <6>2
        <5> QED BY <5>3 DEF n
      <4>3. BeatsOf("READ", requests, ClientDone + 1) = BeatsOf("READ", requests, ClientDone)
        BY <4>2
      <4> QED BY <1>4, <4>1, <4>3
    <3> QED BY <1>4, <3>1, <3>2
  <2>3. ASSUME initPhase' = 1
        PROVE  /\ Len(Returned') = BeatsOf("READ", requests', ClientDone')
               /\ \A i \in 1 .. ClientDone', b \in Beats' :
                    requests'[i].op = "READ" =>
                      Returned'[BeatsOf("READ", requests', i - 1) + b + 1]
                        = MemoryOf(requests', masks')[i][requests'[i].addr][b]
    <3>1. /\ Len(Returned) = BeatsOf("READ", requests, ClientDone)
          /\ \A i \in 1 .. ClientDone, b \in Beats :
               requests[i].op = "READ" =>
                 Returned[BeatsOf("READ", requests, i - 1) + b + 1]
                   = MemoryOf(requests, masks)[i][requests[i].addr][b]
      BY <1>0, <1>3, <2>3 DEF ReadsReturned
    <3>2. ASSUME NEW i \in 1 .. ClientDone', NEW b \in Beats, requests[i].op = "READ"
          PROVE  Returned[BeatsOf("READ", requests, i - 1) + b + 1]
                   = MemoryOf(requests, masks)[i][requests[i].addr][b]
      <4>1. i \in 1 .. ClientDone
        BY <1>4, <2>2, <3>2
      <4> QED BY <3>1, <3>2, <4>1
    <3>3. Beats' = Beats
      BY DEF Beats
    <3> QED BY <1>1, <2>1, <2>2, <3>1, <3>2, <3>3
  <2> QED BY <2>1, <2>3 DEF ReadsReturned
<1> QED BY <1>3, <1>7, <1>11, <1>12 DEF StreamInv

(* The controller's steps.                                                 *)
LEMMA ControllerStream ==
  ASSUME SramInv, SramInv', StreamInv, Controller PROVE StreamInv'
<1>1. CASE ClockLocks
  <2>1. UNCHANGED streamVars
    BY <1>1 DEF ClockLocks, streamVars
  <2> QED BY <2>1, StreamUntouched
<1>2. CASE Calibrated
  <2>1. UNCHANGED streamVars
    BY <1>2 DEF Calibrated, streamVars
  <2> QED BY <2>1, StreamUntouched
<1>3. CASE ControllerRead
  BY <1>3, ControllerReadStream
<1>4. CASE ControllerWrite
  BY <1>4, ControllerWriteStream
<1> QED BY <1>1, <1>2, <1>3, <1>4 DEF Controller

(* At the start nothing was asked and nothing given.                       *)
LEMMA InitStream == ASSUME Init PROVE StreamInv
<1> USE SramConstants
<1>1. /\ state = "INIT" /\ initPhase = 0 /\ init0Stage = 0 /\ initBurstIdx = 0 /\ initAddr = 0
      /\ mergeReqQ = << >> /\ syncRequestQ = << >> /\ addrQ = << >> /\ dataQ = << >>
      /\ syncWriteDataQ = << >> /\ writeBuffer = << >> /\ writePending = FALSE
      /\ writeBurstIdx = 0 /\ readBuffer = << >> /\ syncReadDataQ = << >>
      /\ requests = << >> /\ masks = << >> /\ responses = << >>
  BY DEF Init
<1>2. Asked = << >> /\ Len(Asked) = 0
  BY <1>1 DEF Asked
<1>3. Collected = << >>
  BY <1>1 DEF Collected
<1>4. Given = << >> /\ Len(Given) = 0
  BY <1>1, <1>3 DEF Given
<1>5. Issued = 0 /\ IssuedBeats = 0 /\ Done = 0 /\ DoneBeats = 0
  <2>1. Issued = 0 /\ IssuedBeats = 0
    BY <1>1 DEF Issued, IssuedBeats
  <2>2. Done = Issued - Len(Asked) /\ DoneBeats = IssuedBeats - Len(Given)
    BY DEF Done, DoneBeats
  <2> DEFINE m == Len(Asked)
             n == Len(Given)
  <2>3. m = 0 /\ n = 0 /\ Done = Issued - m /\ DoneBeats = IssuedBeats - n
    BY <1>2, <1>4, <2>2
  <2> HIDE DEF m, n
  <2> QED BY <2>1, <2>3
<1>6. PhaseInv
  BY <1>1 DEF PhaseInv
<1>7. RequestsInOrder
  BY <1>2, <1>5 DEF RequestsInOrder
<1>8. BeatsInOrder
  BY <1>4, <1>5 DEF BeatsInOrder, WriteBeats
<1>9. MemoryIs
  <2>1. ~ (Done >= InitRequests) /\ \A a \in Addrs : ~ (a < Done - 2)
    BY <1>5 DEF InitRequests, Addrs
  <2> QED BY <2>1 DEF MemoryIs
<1>10. ReadsReturned
  BY <1>1 DEF ReadsReturned
<1> QED BY <1>6, <1>7, <1>8, <1>9, <1>10 DEF StreamInv

(* Every step keeps the streams in order.                                  *)
LEMMA StepStream == ASSUME SramInv, SramInv', StreamInv, [Next]_vars PROVE StreamInv'
<1>1. CASE InitRequest
  BY <1>1, InitRequestStream
<1>2. CASE InitLoopBack
  BY <1>2, InitLoopBackStream
<1>3. CASE InitPhase1
  BY <1>3, InitPhase1Stream
<1>4. CASE Rules
  BY <1>4, RulesStream
<1>5. CASE Controller
  BY <1>5, ControllerStream
<1>6. CASE Client
  BY <1>6, ClientStream
<1>7. CASE UNCHANGED vars
  <2>1. UNCHANGED streamVars
    BY <1>7 DEF vars, streamVars, ctrlVars
  <2> QED BY <2>1, StreamUntouched
<1> QED BY <1>1, <1>2, <1>3, <1>4, <1>5, <1>6, <1>7 DEF Next, InitRules

(* What was returned are the first of the beats that came back, and those  *)
(* are what the reads saw.                                                 *)
LEMMA StreamIsMemory == ASSUME SramInv, StreamInv PROVE ReadsSeeEarlierWrites
<1> USE SramConstants
<1>0. TypeOK /\ WriteInv /\ CreditInv /\ PhaseInv /\ RequestsInOrder /\ ReadsReturned
  BY DEF SramInv, StreamInv
<1>1. /\ requests \in Seq(Requests) /\ responses \in Seq(Nat \cup {Unknown})
      /\ syncReadDataQ \in Seq(Nat \cup {Unknown}) /\ readBuffer \in Seq(Nat \cup {Unknown})
  BY <1>0 DEF TypeOK
<1>2. Len(requests) \in Nat /\ Len(responses) \in Nat
  BY <1>1, LenProperties
<1>3. CASE state = "INIT"
  <2>1. Len(requests) = 0 /\ Len(responses) = 0
    BY <1>0, <1>3 DEF PhaseInv
  <2>2. BeatsOf("READ", requests, 0) = 0
    BY BeatsOfType
  <2>3. 1 .. Len(requests) = {}
    BY <2>1
  <2> QED BY <2>1, <2>2, <2>3 DEF ReadsSeeEarlierWrites
<1>4. CASE state = "READY"
  <2> DEFINE c == ClientDone
             n == Len(responses)
             f == MemoryOf(requests, masks)
             R(m) == BeatsOf("READ", requests, m)
  <2>1. initPhase = 1
    BY <1>0, <1>4 DEF PhaseInv
  <2>2. c \in Nat /\ c <= Len(requests)
    BY <1>0, StreamBounds
  <2>3. /\ Len(Returned) = R(c)
        /\ \A i \in 1 .. c, b \in Beats :
             requests[i].op = "READ" => Returned[R(i - 1) + b + 1] = f[i][requests[i].addr][b]
    BY <1>0, <2>1 DEF ReadsReturned
  <2>4. \A k \in 1 .. n : Returned[k] = responses[k]
    <3> DEFINE a == responses
               d == syncReadDataQ \o readBuffer
               T == Nat \cup {Unknown}
    <3>1. a \in Seq(T) /\ d \in Seq(T)
      BY <1>1, ConcatProperties
    <3>2. Returned = a \o d
      BY DEF Returned
    <3> HIDE DEF a, d, T
    <3>3. Len(a) \in Nat /\ Len(d) \in Nat
          /\ \A k \in 1 .. Len(a) + Len(d) : (a \o d)[k] = IF k <= Len(a) THEN a[k] ELSE d[k - Len(a)]
      BY <3>1, ConcatProperties
    <3>4. \A k \in 1 .. Len(a) : (a \o d)[k] = a[k]
      BY <3>3
    <3> QED BY <3>2, <3>4 DEF a
  <2>5. n <= R(c)
    <3>1. Len(Returned) = Len(responses) + Len(syncReadDataQ) + Len(readBuffer)
      BY <1>0, StreamTypes
    <3>2. Len(syncReadDataQ) \in Nat /\ Len(readBuffer) \in Nat
      BY <1>1, LenProperties
    <3> QED BY <1>2, <2>3, <3>1, <3>2
  <2>6. R(c) <= R(Len(requests)) /\ R(c) \in Nat /\ R(Len(requests)) \in Nat
    BY <1>2, <2>2, BeatsOfGrow, BeatsOfType
  <2>7. n <= R(Len(requests))
    BY <1>2, <2>5, <2>6
  <2>8. ASSUME NEW i \in 1 .. Len(requests), NEW b \in Beats, requests[i].op = "READ",
               R(i - 1) + b + 1 <= n
        PROVE  responses[R(i - 1) + b + 1] = f[i][requests[i].addr][b]
    <3>1. i \in Nat /\ i >= 1 /\ i - 1 \in Nat /\ b \in Nat
      BY <1>2 DEF Beats
    <3>2. R(i - 1) \in Nat
      BY <3>1, BeatsOfType
    <3>3. i <= c
      <4>1. SUFFICES ASSUME i > c PROVE FALSE
        BY <2>2, <3>1
      <4>2. c <= i - 1
        BY <2>2, <3>1, <4>1
      <4>3. R(c) <= R(i - 1)
        BY <2>2, <3>1, <4>2, BeatsOfGrow
      <4> HIDE DEF R
      <4> QED BY <1>2, <2>5, <2>6, <2>8, <3>1, <3>2, <4>3
    <3>4. R(i - 1) + b + 1 \in 1 .. n /\ i \in 1 .. c
      <4> HIDE DEF R
      <4> QED BY <1>2, <2>2, <2>8, <3>1, <3>2, <3>3
    <3>5. Returned[R(i - 1) + b + 1] = f[i][requests[i].addr][b]
      BY <2>3, <2>8, <3>4
    <3>6. Returned[R(i - 1) + b + 1] = responses[R(i - 1) + b + 1]
      <4> HIDE DEF R
      <4> QED BY <2>4, <3>4
    <3> QED BY <3>5, <3>6
  <2> QED BY <2>7, <2>8 DEF ReadsSeeEarlierWrites
<1> QED BY <1>0, <1>3, <1>4 DEF TypeOK

(* What the device was asked for and given reaches the controller in the   *)
(* order of the requests and of the data, whatever the rules that carry    *)
(* them do first, and what comes back is in that order too.                *)
THEOREM StreamInvariant == Spec => []StreamInv
<1>1. Init => StreamInv
  BY InitStream
<1>2. SramInv /\ SramInv' /\ StreamInv /\ [Next]_vars => StreamInv'
  BY StepStream
<1> QED BY <1>1, <1>2, SramInvariant, PTL DEF Spec

(* Every read (readReq, readRsp) returns what the last write before it, in *)
(* the order of the requests, put there, with the beats that were given    *)
(* for that write (writeReq, writeData), masked beats left out; what was   *)
(* never written is the pattern of the initialisation.                     *)
THEOREM ReadsSeeEarlierWritesCorrect == Spec => []ReadsSeeEarlierWrites
<1>1. SramInv /\ StreamInv => ReadsSeeEarlierWrites
  BY StreamIsMemory
<1> QED BY <1>1, SramInvariant, StreamInvariant, PTL
================================================================================
