----------------------------- MODULE ArchesMpi_proof -----------------------------
(***************************************************************************)
(* Proofs about the Arches MPI channel, for queues of any capacity, any    *)
(* sizes of messages and any number of them.                               *)
(***************************************************************************)
EXTENDS ArchesMpi, FiniteSetTheorems, FunctionTheorems, SequenceTheorems, TLAPS

Words == Operations \cup Tags

(* Answers of the engine, the words of commands and the data. *)
Resp    == cmdIn \o respCmd
Answers == dataIn \o respData

FinalOf(q) == q[Len(q)]

(* Entries of a queue that are in a set. *)
CountIn(q, S) == Cardinality({i \in DOMAIN q : q[i] \in S})

Messages    == [tag : {"DATA", "ACK"}, chunk : Chunks]
AckMessages == {m \in Messages : m.tag = "ACK"}

(* The stages of the initialisation, of the requests and of the servers.   *)
StageInv ==
  /\ IF state = "init"
     THEN /\ initStage < 4 /\ recvReqStage = 0 /\ recvRespStage = 0 /\ sendStage = 0
          /\ sendServerState = "idle" /\ recvServerState = "idle"
     ELSE initStage = 4
  /\ sendStage = 1 => sendServerState = "idle"
  /\ recvReqStage = 1 => recvServerState = "idle"
  /\ recvRespStage = 1 => recvServerState = "busy"

HostInv ==
  /\ hpc = "write" <=> outgoing # << >>
  /\ hpc \in {"ack", "copy"} => outstandingReq # << >>

(* A SEND, and no other word, brings data; half a command ends with what   *)
(* the rule that is between its two words has sent.                        *)
WordInv ==
  /\ \A i \in DOMAIN cmdOut : cmdOut[i].withData <=> cmdOut[i].word = "SEND"
  /\ Len(CommandWords) % 2 = 1 =>
       FinalOf(CommandWords) = IF state = "init" THEN "RECV0"
                               ELSE IF recvReqStage = 1 THEN "RECV" ELSE "SEND"

(* There is one answer at a time: its header and its tag, or only its tag  *)
(* once the header was taken.  An answer to a receive has one chunk.       *)
RespInv ==
  /\ \/ Resp = << >> /\ initStage # 3 /\ recvRespStage = 0
     \/ \E t \in {"RANK", "DATA", "ACK"} :
          /\ t = "RANK" <=> state = "init"
          /\ Resp = IF initStage = 3 \/ recvRespStage = 1 THEN <<t>> ELSE <<"HEADER", t>>
  /\ Count(CommandWords, "RECV0") + (IF mpeRecv = "RECV0" THEN 1 ELSE 0) + Count(Resp, "RANK")
       = IF initStage \in 1 .. 3 THEN 1 ELSE 0
  /\ Len(Answers) = Count(Resp, "DATA") + Count(Resp, "ACK")

(* What Handshake counts, the answers in one piece.                        *)
AtHost == IF hpc = "copy" THEN 0 ELSE Len(outstandingReq)

SendTokens ==
  Count(CommandWords, "SEND") + Len(toHost) + AtHost + CountIn(toFPGA, AckMessages)
    + Count(Resp, "ACK")

RecvTokens ==
  Count(CommandWords, "RECV") + (IF mpeRecv = "RECV" THEN 1 ELSE 0) + Count(Resp, "DATA")
    + Count(Resp, "ACK")

TokenInv ==
  /\ SendTokens = IF sendServerState = "busy" \/ sendStage = 1 THEN 1 ELSE 0
  /\ RecvTokens = IF recvServerState = "busy" \/ recvReqStage = 1 THEN 1 ELSE 0

MpiInv == TypeOK /\ StageInv /\ HostInv /\ WordInv /\ CommandsWhole /\ RespInv /\ TokenInv

-----------------------------------------------------------------------------
(* Counting entries. *)

(* A queue has a number of such entries, no larger than its length.        *)
LEMMA CountType ==
  ASSUME NEW T, NEW q \in Seq(T), NEW S
  PROVE  /\ IsFiniteSet({i \in DOMAIN q : q[i] \in S})
         /\ CountIn(q, S) \in Nat /\ CountIn(q, S) <= Len(q)
<1>1. DOMAIN q = 1 .. Len(q) /\ Len(q) \in Nat
  OBVIOUS
<1>2. IsFiniteSet(1 .. Len(q)) /\ Cardinality(1 .. Len(q)) = Len(q)
  BY <1>1, FS_Interval
<1>3. IsFiniteSet({i \in DOMAIN q : q[i] \in S})
      /\ Cardinality({i \in DOMAIN q : q[i] \in S}) <= Cardinality(1 .. Len(q))
  BY <1>1, <1>2, FS_Subset
<1> QED BY <1>2, <1>3, FS_CardinalityType DEF CountIn

(* An empty queue has none. *)
LEMMA CountEmpty == ASSUME NEW S PROVE CountIn(<< >>, S) = 0
<1>1. {i \in DOMAIN << >> : << >>[i] \in S} = {}
  OBVIOUS
<1> QED BY <1>1, FS_EmptySet DEF CountIn

(* An entry put into the queue counts if it is in the set ... *)
LEMMA CountAppend ==
  ASSUME NEW T, NEW q \in Seq(T), NEW x \in T, NEW S
  PROVE  CountIn(Append(q, x), S) = CountIn(q, S) + IF x \in S THEN 1 ELSE 0
<1> DEFINE I == {i \in DOMAIN q : q[i] \in S}
           J == {i \in DOMAIN Append(q, x) : Append(q, x)[i] \in S}
<1>1. IsFiniteSet(I) /\ Len(q) + 1 \notin I /\ CountIn(q, S) \in Nat
  BY CountType
<1>2. J = IF x \in S THEN I \cup {Len(q) + 1} ELSE I
  OBVIOUS
<1>3. Cardinality(I \cup {Len(q) + 1}) = Cardinality(I) + 1
  <2> HIDE DEF I
  <2> QED BY <1>1, FS_AddElement
<1>4. CountIn(q, S) = Cardinality(I) /\ CountIn(Append(q, x), S) = Cardinality(J)
  BY DEF CountIn
<1> HIDE DEF I, J
<1> QED BY <1>1, <1>2, <1>3, <1>4

(* ... and so does the one at the head. *)
LEMMA CountHead ==
  ASSUME NEW T, NEW q \in Seq(T), q # << >>, NEW S
  PROVE  CountIn(q, S) = CountIn(Tail(q), S) + IF Head(q) \in S THEN 1 ELSE 0
<1> DEFINE I == {i \in DOMAIN q : q[i] \in S}
           J == {i \in DOMAIN Tail(q) : Tail(q)[i] \in S}
           K == {i + 1 : i \in J}
<1>0. Tail(q) \in Seq(T) /\ Len(Tail(q)) = Len(q) - 1 /\ Len(q) \in Nat /\ Len(q) > 0
  OBVIOUS
<1>1. IsFiniteSet(J) /\ CountIn(Tail(q), S) \in Nat
  BY <1>0, CountType
<1>2. IsFiniteSet(K) /\ Cardinality(K) = Cardinality(J)
  <2> DEFINE f == [i \in J |-> i + 1]
  <2>1. J \subseteq Int
    BY <1>0
  <2> HIDE DEF J
  <2>2. f \in Bijection(J, K)
    BY <2>1 DEF Bijection, Injection, Surjection, IsInjective
  <2> QED BY <2>2, <1>1, FS_Bijection DEF ExistsBijection
<1>3. I = IF Head(q) \in S THEN K \cup {1} ELSE K
  <2>1. ASSUME NEW i \in Nat, i > 1 PROVE i \in I <=> i - 1 \in J
    BY <1>0, <2>1
  <2>2. \A i \in K : i \in Nat /\ i > 1 /\ i - 1 \in J
    BY <1>0
  <2>3. \A i \in Nat : i > 1 /\ i - 1 \in J => i \in K
    OBVIOUS
  <2>4. 1 \in I <=> Head(q) \in S
    BY <1>0
  <2>5. \A i \in I : i \in Nat /\ (i = 1 \/ i > 1)
    BY <1>0
  <2> HIDE DEF I, J, K
  <2>6. ASSUME NEW i \in I PROVE (i = 1 /\ Head(q) \in S) \/ i \in K
    BY <2>1, <2>3, <2>4, <2>5
  <2>7. ASSUME NEW i \in K PROVE i \in I
    BY <2>1, <2>2
  <2> QED BY <2>4, <2>6, <2>7
<1>4. 1 \notin K
  BY <1>0
<1>5. Cardinality(K \cup {1}) = Cardinality(K) + 1
  <2> HIDE DEF K
  <2> QED BY <1>2, <1>4, FS_AddElement
<1>6. CountIn(q, S) = Cardinality(I) /\ CountIn(Tail(q), S) = Cardinality(J)
  BY DEF CountIn
<1> HIDE DEF K, I, J
<1> QED BY <1>1, <1>2, <1>3, <1>5, <1>6

(* ... and the entries of two queues are those of their concatenation.     *)
LEMMA CountConcat ==
  ASSUME NEW T, NEW p \in Seq(T), NEW q \in Seq(T), NEW S
  PROVE  CountIn(p \o q, S) = CountIn(p, S) + CountIn(q, S)
<1> DEFINE I == {i \in DOMAIN p : p[i] \in S}
           J == {i \in DOMAIN q : q[i] \in S}
           K == {i + Len(p) : i \in J}
           U == {i \in DOMAIN (p \o q) : (p \o q)[i] \in S}
<1>0. /\ p \o q \in Seq(T) /\ Len(p \o q) = Len(p) + Len(q) /\ Len(p) \in Nat /\ Len(q) \in Nat
      /\ \A i \in 1 .. Len(p) + Len(q) :
           (p \o q)[i] = IF i <= Len(p) THEN p[i] ELSE q[i - Len(p)]
      /\ DOMAIN p = 1 .. Len(p) /\ DOMAIN q = 1 .. Len(q) /\ DOMAIN (p \o q) = 1 .. Len(p) + Len(q)
  BY ConcatProperties, LenProperties
<1>1. IsFiniteSet(I) /\ IsFiniteSet(J) /\ CountIn(q, S) \in Nat
  BY CountType
<1>2. IsFiniteSet(K) /\ Cardinality(K) = Cardinality(J)
  <2> DEFINE f == [i \in J |-> i + Len(p)]
  <2>1. J \subseteq Int
    BY <1>0
  <2> HIDE DEF J
  <2>2. f \in Bijection(J, K)
    BY <2>1, <1>0 DEF Bijection, Injection, Surjection, IsInjective
  <2> QED BY <2>2, <1>1, FS_Bijection DEF ExistsBijection
<1>3. U = I \cup K
  <2>1. ASSUME NEW i \in U PROVE i \in I \cup K
    <3>1. i \in 1 .. Len(p) + Len(q) /\ (p \o q)[i] \in S
      BY <1>0
    <3>2. CASE i <= Len(p)
      BY <1>0, <3>1, <3>2
    <3>3. CASE i > Len(p)
      <4>1. i - Len(p) \in J
        BY <1>0, <3>1, <3>3
      <4>2. i = (i - Len(p)) + Len(p)
        BY <1>0, <3>1
      <4> QED BY <4>1, <4>2
    <3> QED BY <1>0, <3>1, <3>2, <3>3
  <2>2. ASSUME NEW i \in I PROVE i \in U
    BY <1>0
  <2>3. ASSUME NEW i \in J PROVE i + Len(p) \in U
    BY <1>0
  <2> QED BY <2>1, <2>2, <2>3
<1>4. I \cap K = {}
  BY <1>0
<1>5. Cardinality(I \cup K) = Cardinality(I) + Cardinality(K)
  <2> HIDE DEF I, K
  <2>1. Cardinality(I \cap K) = 0
    BY <1>4, FS_EmptySet
  <2>2. Cardinality(I) \in Nat /\ Cardinality(K) \in Nat
    BY <1>1, <1>2, FS_CardinalityType
  <2>3. Cardinality(I \cup K) = Cardinality(I) + Cardinality(K) - Cardinality(I \cap K)
    BY <1>1, <1>2, FS_Union
  <2> QED BY <2>1, <2>2, <2>3
<1>6. CountIn(p \o q, S) = Cardinality(U) /\ CountIn(p, S) = Cardinality(I)
      /\ CountIn(q, S) = Cardinality(J)
  BY DEF CountIn
<1> HIDE DEF I, J, K, U
<1> QED BY <1>2, <1>3, <1>5, <1>6

(* Count counts the entries that are equal to x.                           *)
LEMMA CountIsCountIn == \A q, x : Count(q, x) = CountIn(q, {x})
<1> SUFFICES ASSUME NEW q, NEW x PROVE Count(q, x) = CountIn(q, {x})
  OBVIOUS
<1>1. {i \in DOMAIN q : q[i] = x} = {i \in DOMAIN q : q[i] \in {x}}
  OBVIOUS
<1> QED BY <1>1 DEF Count, CountIn

(* The lemmas above for Count.                                             *)
LEMMA CountNone == \A x : Count(<< >>, x) = 0
BY CountEmpty, CountIsCountIn

LEMMA CountNat ==
  ASSUME NEW T, NEW q \in Seq(T), NEW x
  PROVE  Count(q, x) \in Nat /\ Count(q, x) <= Len(q)
BY CountType, CountIsCountIn

LEMMA CountPut ==
  ASSUME NEW T, NEW q \in Seq(T), NEW w \in T, NEW x
  PROVE  Count(Append(q, w), x) = Count(q, x) + IF w = x THEN 1 ELSE 0
<1>1. w \in {x} <=> w = x
  OBVIOUS
<1>2. CountIn(Append(q, w), {x}) = CountIn(q, {x}) + IF w \in {x} THEN 1 ELSE 0
  BY CountAppend
<1> QED BY <1>1, <1>2, CountIsCountIn

LEMMA CountTake ==
  ASSUME NEW T, NEW q \in Seq(T), q # << >>, NEW x
  PROVE  Count(q, x) = Count(Tail(q), x) + IF Head(q) = x THEN 1 ELSE 0
<1>1. Head(q) \in {x} <=> Head(q) = x
  OBVIOUS
<1>2. CountIn(q, {x}) = CountIn(Tail(q), {x}) + IF Head(q) \in {x} THEN 1 ELSE 0
  BY CountHead
<1> QED BY <1>1, <1>2, CountIsCountIn
-----------------------------------------------------------------------------
(* The words of a queue of words and one of commands behind it.            *)
WordsOf(m, c) == m \o [i \in DOMAIN c |-> c[i].word]

Commands == [word : Words, withData : BOOLEAN]

LEMMA WordsOfType ==
  ASSUME NEW m \in Seq(Words), NEW c \in Seq(Commands)
  PROVE  /\ WordsOf(m, c) \in Seq(Words) /\ Len(WordsOf(m, c)) = Len(m) + Len(c)
         /\ \A i \in 1 .. Len(m) + Len(c) :
              WordsOf(m, c)[i] = IF i <= Len(m) THEN m[i] ELSE c[i - Len(m)].word
         /\ Len(m) \in Nat /\ Len(c) \in Nat
<1> DEFINE w == [i \in DOMAIN c |-> c[i].word]
<1>1. DOMAIN c = 1 .. Len(c) /\ Len(c) \in Nat /\ Len(m) \in Nat
  OBVIOUS
<1>2. \A i \in 1 .. Len(c) : c[i].word \in Words
  <2>1. \A i \in 1 .. Len(c) : c[i] \in Commands
    BY ElementOfSeq
  <2> QED BY <2>1 DEF Commands
<1>3. w \in Seq(Words) /\ Len(w) = Len(c) /\ \A i \in 1 .. Len(c) : w[i] = c[i].word
  <2>1. w \in [1 .. Len(c) -> Words]
    BY <1>1, <1>2
  <2> QED BY <1>1, <2>1
<1>4. WordsOf(m, c) = m \o w
  BY DEF WordsOf
<1> HIDE DEF w
<1>5. /\ m \o w \in Seq(Words) /\ Len(m \o w) = Len(m) + Len(w)
      /\ \A i \in 1 .. Len(m) + Len(w) : (m \o w)[i] = IF i <= Len(m) THEN m[i] ELSE w[i - Len(m)]
  BY <1>3, ConcatProperties
<1>6. \A i \in 1 .. Len(m) + Len(c) : i > Len(m) => i - Len(m) \in 1 .. Len(c)
  BY <1>1
<1> QED BY <1>1, <1>3, <1>4, <1>5, <1>6

(* A command put behind the others adds its word.                          *)
LEMMA WordsPut ==
  ASSUME NEW m \in Seq(Words), NEW c \in Seq(Commands), NEW r \in Commands
  PROVE  WordsOf(m, Append(c, r)) = Append(WordsOf(m, c), r.word)
<1>1. Append(c, r) \in Seq(Commands) /\ Len(Append(c, r)) = Len(c) + 1 /\ r.word \in Words
  BY DEF Commands
<1> DEFINE p == WordsOf(m, Append(c, r))
           q == Append(WordsOf(m, c), r.word)
<1>2. p \in Seq(Words) /\ Len(p) = Len(m) + (Len(c) + 1) /\ Len(m) \in Nat /\ Len(c) \in Nat
  BY <1>1, WordsOfType
<1>3. q \in Seq(Words) /\ Len(q) = (Len(m) + Len(c)) + 1
  BY SMTT(30), <1>1, WordsOfType, AppendProperties
<1>4. ASSUME NEW i \in 1 .. Len(p) PROVE p[i] = q[i]
  <2>1. i \in 1 .. Len(m) + Len(Append(c, r))
    BY <1>1, <1>2
  <2>2. p[i] = IF i <= Len(m) THEN m[i] ELSE Append(c, r)[i - Len(m)].word
    BY <1>1, <2>1, WordsOfType
  <2>3. CASE i <= Len(m) + Len(c)
    <3>1. i \in 1 .. Len(m) + Len(c) /\ (i > Len(m) => i - Len(m) \in 1 .. Len(c))
      BY <1>2, <2>3
    <3>2. q[i] = WordsOf(m, c)[i]
      BY <1>1, <3>1, WordsOfType, AppendProperties
    <3>3. WordsOf(m, c)[i] = IF i <= Len(m) THEN m[i] ELSE c[i - Len(m)].word
      BY <3>1, WordsOfType
    <3>4. i > Len(m) => Append(c, r)[i - Len(m)] = c[i - Len(m)]
      BY <3>1, AppendProperties
    <3> QED BY <1>2, <2>2, <3>2, <3>3, <3>4
  <2>4. CASE i > Len(m) + Len(c)
    <3>1. i = (Len(m) + Len(c)) + 1 /\ i - Len(m) = Len(c) + 1 /\ ~ (i <= Len(m))
      BY <1>2, <2>4
    <3>2. q[i] = r.word
      BY <1>1, <3>1, WordsOfType, AppendProperties
    <3>3. Append(c, r)[Len(c) + 1] = r
      BY AppendProperties
    <3> QED BY <2>2, <3>1, <3>2, <3>3
  <2>5. i <= Len(m) + Len(c) \/ i > Len(m) + Len(c)
    <3>1. i \in Int /\ Len(m) + Len(c) \in Int
      BY <1>2
    <3> QED BY <3>1
  <2> QED BY <2>3, <2>4, <2>5
<1>5. Len(p) = Len(q)
  BY <1>2, <1>3
<1> HIDE DEF p, q
<1>6. p = q
  BY <1>2, <1>3, <1>4, <1>5, SeqEqual
<1> QED BY <1>6 DEF p, q

(* The words do not change when the first command goes over to the engine. *)
LEMMA WordsMove ==
  ASSUME NEW m \in Seq(Words), NEW c \in Seq(Commands), c # << >>
  PROVE  /\ Head(c) \in Commands /\ Tail(c) \in Seq(Commands) /\ Len(Tail(c)) = Len(c) - 1
         /\ Append(m, Head(c).word) \in Seq(Words)
         /\ WordsOf(Append(m, Head(c).word), Tail(c)) = WordsOf(m, c)
<1> DEFINE n == Append(m, Head(c).word)
           p == WordsOf(n, Tail(c))
           q == WordsOf(m, c)
<1>1. /\ Head(c) \in Commands /\ Tail(c) \in Seq(Commands) /\ Len(Tail(c)) = Len(c) - 1
      /\ Head(c) = c[1] /\ Len(c) \in Nat /\ Len(c) >= 1
      /\ \A i \in 1 .. Len(c) - 1 : Tail(c)[i] = c[i + 1]
  BY HeadTailProperties, EmptySeq
<1>2. Head(c).word \in Words
  BY <1>1 DEF Commands
<1>3. /\ n \in Seq(Words) /\ Len(n) = Len(m) + 1 /\ n[Len(m) + 1] = c[1].word /\ Len(m) \in Nat
      /\ \A i \in 1 .. Len(m) : n[i] = m[i]
  BY <1>1, <1>2, AppendProperties
<1> HIDE DEF n
<1>4. /\ p \in Seq(Words) /\ Len(p) = Len(m) + Len(c)
      /\ \A i \in 1 .. Len(m) + Len(c) :
           p[i] = IF i <= Len(n) THEN n[i] ELSE Tail(c)[i - Len(n)].word
  <2>1. /\ p \in Seq(Words) /\ Len(p) = Len(n) + Len(Tail(c))
        /\ \A i \in 1 .. Len(n) + Len(Tail(c)) :
             p[i] = IF i <= Len(n) THEN n[i] ELSE Tail(c)[i - Len(n)].word
    BY <1>1, <1>3, WordsOfType
  <2>2. Len(n) + Len(Tail(c)) = Len(m) + Len(c)
    BY <1>1, <1>3
  <2> QED BY <2>1, <2>2
<1>5. /\ q \in Seq(Words) /\ Len(q) = Len(m) + Len(c)
      /\ \A i \in 1 .. Len(m) + Len(c) : q[i] = IF i <= Len(m) THEN m[i] ELSE c[i - Len(m)].word
  BY WordsOfType
<1> HIDE DEF p, q
<1>6. ASSUME NEW i \in 1 .. Len(m) + Len(c) PROVE p[i] = q[i]
  <2>1. CASE i <= Len(m)
    BY <1>1, <1>3, <1>4, <1>5, <2>1
  <2>2. CASE i = Len(m) + 1
    <3>1. p[i] = c[1].word
      BY <1>3, <1>4, <2>2
    <3>2. q[i] = c[1].word
      <4>1. i - Len(m) = 1 /\ ~ (i <= Len(m))
        BY <1>3, <2>2
      <4> QED BY <1>5, <4>1
    <3> QED BY <3>1, <3>2
  <2>3. CASE i > Len(m) + 1
    <3>1. /\ ~ (i <= Len(n)) /\ ~ (i <= Len(m)) /\ i - Len(n) \in 1 .. Len(c) - 1
          /\ (i - Len(n)) + 1 = i - Len(m)
      BY <1>1, <1>3, <2>3
    <3>2. p[i] = Tail(c)[i - Len(n)].word
      BY <1>4, <3>1
    <3>3. q[i] = c[i - Len(m)].word
      BY <1>5, <3>1
    <3> QED BY <1>1, <3>1, <3>2, <3>3
  <2> QED BY <1>1, <1>3, <2>1, <2>2, <2>3
<1>7. p = q
  BY <1>4, <1>5, <1>6, SeqEqual
<1> QED BY <1>1, <1>3, <1>7 DEF n, p, q

(* A queue without its first two entries.                                  *)
LEMMA TakeTwo ==
  ASSUME NEW T, NEW q \in Seq(T), Len(q) >= 2
  PROVE  /\ SubSeq(q, 3, Len(q)) \in Seq(T) /\ Len(SubSeq(q, 3, Len(q))) = Len(q) - 2
         /\ \A i \in 1 .. Len(q) - 2 : SubSeq(q, 3, Len(q))[i] = q[i + 2]
         /\ SubSeq(q, 3, Len(q)) = Tail(Tail(q))
         /\ q # << >> /\ Head(q) = q[1] /\ Tail(q) \in Seq(T) /\ Tail(q) # << >>
         /\ Head(Tail(q)) = q[2] /\ q[1] \in T /\ q[2] \in T /\ Len(q) \in Nat
<1>1. Len(q) \in Nat /\ q # << >> /\ Head(q) = q[1] /\ q[1] \in T /\ q[2] \in T
  OBVIOUS
<1>2. /\ Tail(q) \in Seq(T) /\ Len(Tail(q)) = Len(q) - 1
      /\ \A i \in 1 .. Len(q) - 1 : Tail(q)[i] = q[i + 1]
  BY <1>1, HeadTailProperties
<1>3. Tail(q) # << >> /\ Head(Tail(q)) = q[2]
  <2>1. Len(Tail(q)) >= 1 /\ Tail(q)[1] = q[2]
    BY <1>1, <1>2
  <2>2. Tail(q) # << >>
    BY <2>1
  <2> QED BY <1>2, <2>1, <2>2
<1>4. /\ Tail(Tail(q)) \in Seq(T) /\ Len(Tail(Tail(q))) = Len(q) - 2
      /\ \A i \in 1 .. Len(q) - 2 : Tail(Tail(q))[i] = q[i + 2]
  <2>1. /\ Tail(Tail(q)) \in Seq(T) /\ Len(Tail(Tail(q))) = Len(Tail(q)) - 1
        /\ \A i \in 1 .. Len(Tail(Tail(q))) : Tail(Tail(q))[i] = Tail(q)[i + 1]
    BY <1>2, <1>3, HeadTailProperties
  <2>2. \A i \in 1 .. Len(q) - 2 : Tail(q)[i + 1] = q[i + 2]
    BY <1>1, <1>2
  <2> QED BY <1>1, <1>2, <2>1, <2>2
<1>5. /\ SubSeq(q, 3, Len(q)) \in Seq(T) /\ Len(SubSeq(q, 3, Len(q))) = Len(q) - 2
      /\ \A i \in 1 .. Len(q) - 2 : SubSeq(q, 3, Len(q))[i] = q[i + 2]
  <2>1. \A i \in 3 .. Len(q) : q[i] \in T
    BY <1>1
  <2>2. /\ SubSeq(q, 3, Len(q)) \in Seq(T)
        /\ Len(SubSeq(q, 3, Len(q))) = IF 3 <= Len(q) THEN Len(q) - 3 + 1 ELSE 0
        /\ \A i \in 1 .. Len(q) - 3 + 1 : SubSeq(q, 3, Len(q))[i] = q[3 + i - 1]
    BY <1>1, <2>1, SubSeqProperties
  <2>3. Len(q) - 3 + 1 = Len(q) - 2 /\ \A i \in Int : 3 + i - 1 = i + 2
    BY <1>1
  <2>4. ASSUME NEW i \in 1 .. Len(q) - 2 PROVE SubSeq(q, 3, Len(q))[i] = q[i + 2]
    BY <2>2, <2>3
  <2>5. Len(SubSeq(q, 3, Len(q))) = Len(q) - 2
    <3> DEFINE n == Len(SubSeq(q, 3, Len(q)))
    <3>1. n = IF 3 <= Len(q) THEN Len(q) - 3 + 1 ELSE 0
      BY <2>2
    <3> HIDE DEF n
    <3>2. CASE 3 <= Len(q)
      <4>1. n = Len(q) - 3 + 1
        BY <3>1, <3>2
      <4> QED BY <1>1, <4>1 DEF n
    <3>3. CASE ~ (3 <= Len(q))
      <4>1. n = 0
        BY <3>1, <3>3
      <4>2. Len(q) \in Nat /\ Len(q) >= 2
        BY <1>1
      <4> DEFINE k == Len(q)
      <4>3. k \in Nat /\ k >= 2 /\ ~ (3 <= k)
        BY <3>3, <4>2
      <4> HIDE DEF k
      <4>4. k = 2
        BY <4>3
      <4> QED BY <4>1, <4>4 DEF n, k
    <3> QED BY <3>2, <3>3
  <2> QED BY <2>2, <2>4, <2>5
<1>6. SubSeq(q, 3, Len(q)) = Tail(Tail(q))
  BY <1>4, <1>5, SeqEqual
<1> QED BY <1>1, <1>2, <1>3, <1>5, <1>6

(* When the engine takes a command, its two words go.                      *)
LEMMA WordsTake ==
  ASSUME NEW m \in Seq(Words), NEW c \in Seq(Commands), Len(m) >= 2
  PROVE  WordsOf(SubSeq(m, 3, Len(m)), c) = SubSeq(WordsOf(m, c), 3, Len(WordsOf(m, c)))
<1> DEFINE n == SubSeq(m, 3, Len(m))
           w == WordsOf(m, c)
           p == WordsOf(n, c)
           q == SubSeq(w, 3, Len(w))
<1>1. n \in Seq(Words) /\ Len(n) = Len(m) - 2 /\ \A i \in 1 .. Len(m) - 2 : n[i] = m[i + 2]
  BY TakeTwo
<1> HIDE DEF n
<1>2. /\ w \in Seq(Words) /\ Len(w) = Len(m) + Len(c) /\ Len(m) \in Nat /\ Len(c) \in Nat
      /\ \A i \in 1 .. Len(m) + Len(c) : w[i] = IF i <= Len(m) THEN m[i] ELSE c[i - Len(m)].word
  BY WordsOfType
<1>3. /\ p \in Seq(Words) /\ Len(p) = Len(n) + Len(c)
      /\ \A i \in 1 .. Len(n) + Len(c) : p[i] = IF i <= Len(n) THEN n[i] ELSE c[i - Len(n)].word
  BY <1>1, WordsOfType
<1> HIDE DEF w, p
<1>4. q \in Seq(Words) /\ Len(q) = Len(w) - 2 /\ \A i \in 1 .. Len(w) - 2 : q[i] = w[i + 2]
  BY <1>2, TakeTwo
<1> HIDE DEF q
<1>5. ASSUME NEW i \in 1 .. Len(p) PROVE p[i] = q[i]
  <2>0. Len(p) = Len(m) + Len(c) - 2 /\ i + 2 \in 1 .. Len(m) + Len(c) /\ i \in 1 .. Len(w) - 2
    BY <1>1, <1>2, <1>3
  <2>1. CASE i <= Len(n)
    BY <1>1, <1>2, <1>3, <1>4, <2>0, <2>1
  <2>2. CASE i > Len(n)
    <3>1. ~ (i <= Len(n)) /\ ~ (i + 2 <= Len(m)) /\ (i + 2) - Len(m) = i - Len(n)
      BY <1>1, <1>2, <2>2
    <3>2. i \in 1 .. Len(n) + Len(c) /\ i + 2 \in 1 .. Len(m) + Len(c)
      BY <1>1, <1>2, <2>0
    <3>3. p[i] = c[i - Len(n)].word
      BY ONLY <1>3, <3>1, <3>2
    <3>4. w[i + 2] = c[(i + 2) - Len(m)].word
      BY ONLY <1>2, <3>1, <3>2
    <3>5. q[i] = w[i + 2]
      BY ONLY <1>4, <2>0
    <3> QED BY ONLY <3>1, <3>3, <3>4, <3>5
  <2> QED BY <1>1, <1>2, <2>1, <2>2
<1>6. Len(p) = Len(q)
  BY <1>1, <1>2, <1>3, <1>4
<1>7. p = q
  BY <1>3, <1>4, <1>5, <1>6, SeqEqual
<1> QED BY <1>7 DEF n, w, p, q
-----------------------------------------------------------------------------
(* Whole commands: an operation, then its tag.                             *)
Whole(w) ==
  \A i \in DOMAIN w :
    IF i % 2 = 1 THEN w[i] \in Operations
    ELSE w[i] = IF w[i - 1] = "SEND" THEN "DATA" ELSE "ANY"

LEMMA WholeOperation ==
  ASSUME NEW w \in Seq(Words), Whole(w), Len(w) % 2 = 0, NEW x \in Operations
  PROVE  /\ Whole(Append(w, x)) /\ Append(w, x) \in Seq(Words)
         /\ Len(Append(w, x)) % 2 = 1 /\ FinalOf(Append(w, x)) = x
<1> DEFINE v == Append(w, x)
<1>1. x \in Words
  BY DEF Words
<1>2. /\ v \in Seq(Words) /\ Len(v) = Len(w) + 1 /\ v[Len(w) + 1] = x /\ Len(w) \in Nat
      /\ \A i \in 1 .. Len(w) : v[i] = w[i]
  BY <1>1, AppendProperties
<1>3. DOMAIN v = 1 .. Len(w) + 1 /\ DOMAIN w = 1 .. Len(w)
  BY <1>2, LenProperties
<1> HIDE DEF v
<1>4. Len(v) % 2 = 1
  BY <1>2
<1>5. ASSUME NEW i \in 1 .. Len(w) + 1
      PROVE  IF i % 2 = 1 THEN v[i] \in Operations
             ELSE v[i] = IF v[i - 1] = "SEND" THEN "DATA" ELSE "ANY"
  <2>1. CASE i = Len(w) + 1
    BY <1>2, <1>4, <2>1
  <2>2. CASE i # Len(w) + 1
    <3>1. i \in 1 .. Len(w) /\ v[i] = w[i]
      BY <1>2, <2>2
    <3>2. IF i % 2 = 1 THEN w[i] \in Operations
          ELSE w[i] = IF w[i - 1] = "SEND" THEN "DATA" ELSE "ANY"
      BY <1>3, <3>1 DEF Whole
    <3>3. i % 2 # 1 => i - 1 \in 1 .. Len(w)
      BY <1>2, <3>1
    <3>4. i % 2 # 1 => v[i - 1] = w[i - 1]
      BY <1>2, <3>3
    <3> QED BY <3>1, <3>2, <3>4
  <2> QED BY <2>1, <2>2
<1>6. Whole(v)
  BY <1>3, <1>5 DEF Whole
<1> QED BY <1>2, <1>4, <1>6 DEF v, FinalOf

LEMMA WholeTag ==
  ASSUME NEW w \in Seq(Words), Whole(w), Len(w) % 2 = 1, NEW t \in Tags,
         t = IF FinalOf(w) = "SEND" THEN "DATA" ELSE "ANY"
  PROVE  /\ Whole(Append(w, t)) /\ Append(w, t) \in Seq(Words) /\ Len(Append(w, t)) % 2 = 0
<1> DEFINE v == Append(w, t)
<1>1. t \in Words
  BY DEF Words
<1>2. /\ v \in Seq(Words) /\ Len(v) = Len(w) + 1 /\ v[Len(w) + 1] = t /\ Len(w) \in Nat
      /\ \A i \in 1 .. Len(w) : v[i] = w[i]
  BY <1>1, AppendProperties
<1>3. DOMAIN v = 1 .. Len(w) + 1 /\ DOMAIN w = 1 .. Len(w)
  BY <1>2, LenProperties
<1> HIDE DEF v
<1>4. Len(v) % 2 = 0 /\ Len(w) \in 1 .. Len(w)
  BY <1>2
<1>5. ASSUME NEW i \in 1 .. Len(w) + 1
      PROVE  IF i % 2 = 1 THEN v[i] \in Operations
             ELSE v[i] = IF v[i - 1] = "SEND" THEN "DATA" ELSE "ANY"
  <2>1. CASE i = Len(w) + 1
    <3>1. i - 1 = Len(w) /\ i % 2 # 1
      BY <1>2, <1>4, <2>1
    <3>2. v[i - 1] = FinalOf(w)
      BY <1>2, <1>4, <3>1 DEF FinalOf
    <3> QED BY <1>2, <2>1, <3>1, <3>2
  <2>2. CASE i # Len(w) + 1
    <3>1. i \in 1 .. Len(w) /\ v[i] = w[i]
      BY <1>2, <2>2
    <3>2. IF i % 2 = 1 THEN w[i] \in Operations
          ELSE w[i] = IF w[i - 1] = "SEND" THEN "DATA" ELSE "ANY"
      BY <1>3, <3>1 DEF Whole
    <3>3. i % 2 # 1 => i - 1 \in 1 .. Len(w)
      BY <1>2, <3>1
    <3>4. i % 2 # 1 => v[i - 1] = w[i - 1]
      BY <1>2, <3>3
    <3> QED BY <3>1, <3>2, <3>4
  <2> QED BY <2>1, <2>2
<1>6. Whole(v)
  BY <1>3, <1>5 DEF Whole
<1> QED BY <1>2, <1>4, <1>6 DEF v

LEMMA WholeTake ==
  ASSUME NEW w \in Seq(Words), Whole(w), Len(w) >= 2
  PROVE  /\ w[1] \in Operations /\ w[2] = IF w[1] = "SEND" THEN "DATA" ELSE "ANY"
         /\ Whole(SubSeq(w, 3, Len(w)))
         /\ Len(SubSeq(w, 3, Len(w))) % 2 = Len(w) % 2
         /\ Len(w) % 2 = 1 => FinalOf(SubSeq(w, 3, Len(w))) = FinalOf(w)
<1> DEFINE v == SubSeq(w, 3, Len(w))
           k == Len(w)
<1>1. /\ v \in Seq(Words) /\ Len(v) = k - 2 /\ \A i \in 1 .. k - 2 : v[i] = w[i + 2]
      /\ k \in Nat /\ k >= 2
  BY TakeTwo
<1>2. DOMAIN v = 1 .. k - 2 /\ DOMAIN w = 1 .. k
  BY <1>1, LenProperties
<1>3. \A i \in 1 .. k : IF i % 2 = 1 THEN w[i] \in Operations
                        ELSE w[i] = IF w[i - 1] = "SEND" THEN "DATA" ELSE "ANY"
  BY <1>2 DEF Whole
<1> HIDE DEF v, k
<1>4. w[1] \in Operations /\ w[2] = IF w[1] = "SEND" THEN "DATA" ELSE "ANY"
  <2>1. 1 \in 1 .. k /\ 2 \in 1 .. k /\ 1 % 2 = 1 /\ 2 % 2 # 1 /\ 2 - 1 = 1
    BY <1>1
  <2> QED BY <1>3, <2>1
<1>5. ASSUME NEW i \in 1 .. k - 2
      PROVE  IF i % 2 = 1 THEN v[i] \in Operations
             ELSE v[i] = IF v[i - 1] = "SEND" THEN "DATA" ELSE "ANY"
  <2>1. i + 2 \in 1 .. k /\ (i + 2) % 2 = i % 2 /\ (i + 2) - 1 = i + 1 /\ v[i] = w[i + 2]
    BY <1>1
  <2>2. IF i % 2 = 1 THEN w[i + 2] \in Operations
        ELSE w[i + 2] = IF w[i + 1] = "SEND" THEN "DATA" ELSE "ANY"
    BY <1>3, <2>1
  <2>3. i % 2 # 1 => i - 1 \in 1 .. k - 2 /\ (i - 1) + 2 = i + 1
    BY <1>1
  <2>4. i % 2 # 1 => v[i - 1] = w[i + 1]
    BY <1>1, <2>3
  <2> QED BY <2>1, <2>2, <2>4
<1>6. Whole(v)
  BY <1>2, <1>5 DEF Whole
<1>7. Len(v) % 2 = k % 2
  BY <1>1
<1>8. k % 2 = 1 => v[Len(v)] = w[k]
  <2> SUFFICES ASSUME k % 2 = 1 PROVE v[Len(v)] = w[k]
    OBVIOUS
  <2>1. k - 2 \in 1 .. k - 2 /\ (k - 2) + 2 = k
    BY <1>1
  <2> QED BY <1>1, <2>1
<1> QED BY <1>4, <1>6, <1>7, <1>8 DEF v, k, FinalOf
-----------------------------------------------------------------------------
(* Moving the head of a queue to the end of the one before it.             *)
LEMMA MoveHead ==
  ASSUME NEW T, NEW p \in Seq(T), NEW q \in Seq(T), q # << >>
  PROVE  /\ Head(q) \in T /\ Append(p, Head(q)) \in Seq(T) /\ Tail(q) \in Seq(T)
         /\ Append(p, Head(q)) \o Tail(q) = p \o q
<1>1. Head(q) \in T /\ Tail(q) \in Seq(T) /\ q = <<Head(q)>> \o Tail(q)
  OBVIOUS
<1>2. Append(p, Head(q)) = p \o <<Head(q)>> /\ <<Head(q)>> \in Seq(T)
  BY <1>1, AppendIsConcat
<1>3. Append(p, Head(q)) \in Seq(T)
  BY <1>1
<1> QED BY <1>1, <1>2, <1>3, ConcatAssociative

(* Taking the head of the first of two queues.                             *)
LEMMA TakeFirst ==
  ASSUME NEW T, NEW p \in Seq(T), NEW q \in Seq(T), p # << >>
  PROVE  /\ Head(p) \in T /\ Tail(p) \in Seq(T) /\ p \o q # << >> /\ p \o q \in Seq(T)
         /\ Head(p \o q) = Head(p) /\ Tail(p \o q) = Tail(p) \o q
<1>1. Head(p) \in T /\ Tail(p) \in Seq(T) /\ p = <<Head(p)>> \o Tail(p)
  OBVIOUS
<1>2. <<Head(p)>> \in Seq(T) /\ p \o q \in Seq(T) /\ Tail(p) \o q \in Seq(T)
  BY <1>1, ConcatProperties
<1>3. p \o q = <<Head(p)>> \o (Tail(p) \o q)
  BY <1>1, <1>2, ConcatAssociative
<1> DEFINE r == Tail(p) \o q
<1> HIDE DEF r
<1>4. /\ <<Head(p)>> \o r # << >> /\ Head(<<Head(p)>> \o r) = Head(p)
      /\ Tail(<<Head(p)>> \o r) = r
  <2>1. r \in Seq(T)
    BY <1>2 DEF r
  <2> QED BY <1>1, <2>1
<1> QED BY <1>1, <1>2, <1>3, <1>4 DEF r
-----------------------------------------------------------------------------
(* What the assumption says of each constant. *)
LEMMA MpiConstants ==
  /\ QueueDepth \in Nat /\ QueueDepth >= 1 /\ NetDepth \in Nat /\ NetDepth >= 1
  /\ H2FPayloads \subseteq Nat /\ F2HPayloads \subseteq Nat /\ MaxH2F \in Nat /\ MaxF2H \in Nat
BY MpiAssumption

(* The numbers and the queues of the invariant.                            *)
LEMMA MpiTypes ==
  ASSUME TypeOK
  PROVE  /\ mpeCmd \in Seq(Words) /\ cmdOut \in Seq(Commands) /\ CommandWords \in Seq(Words)
         /\ CommandWords = WordsOf(mpeCmd, cmdOut)
         /\ Len(CommandWords) = Len(mpeCmd) + Len(cmdOut) /\ Len(mpeCmd) \in Nat /\ Len(cmdOut) \in Nat
         /\ Resp \in Seq(Responses) /\ Answers \in Seq(Chunks) /\ toFPGA \in Seq(Messages)
         /\ \A x : /\ Count(CommandWords, x) \in Nat /\ Count(Resp, x) \in Nat
                   /\ Count(respCmd, x) \in Nat /\ Count(cmdIn, x) \in Nat
                   /\ Count(Resp, x) = Count(cmdIn, x) + Count(respCmd, x)
                   /\ Count(mpeCmd, x) \in Nat
         /\ CountIn(toFPGA, AckMessages) \in Nat /\ Len(toHost) \in Nat
         /\ Len(outstandingReq) \in Nat /\ AtHost \in Nat
         /\ Len(Answers) \in Nat /\ SendTokens \in Nat /\ RecvTokens \in Nat
<1>1. /\ mpeCmd \in Seq(Words) /\ cmdOut \in Seq(Commands)
      /\ cmdIn \in Seq(Responses) /\ respCmd \in Seq(Responses)
      /\ dataIn \in Seq(Chunks) /\ respData \in Seq(Chunks)
      /\ toFPGA \in Seq(Messages) /\ toHost \in Seq(Chunks) /\ outstandingReq \in Seq(Chunks)
  BY DEF TypeOK, Words, Commands, Messages
<1>2. CommandWords = WordsOf(mpeCmd, cmdOut)
  BY DEF CommandWords, WordsOf
<1>3. /\ CommandWords \in Seq(Words) /\ Len(CommandWords) = Len(mpeCmd) + Len(cmdOut)
      /\ Len(mpeCmd) \in Nat /\ Len(cmdOut) \in Nat
  BY <1>1, <1>2, WordsOfType
<1>4. Resp \in Seq(Responses) /\ Answers \in Seq(Chunks)
  BY <1>1, ConcatProperties DEF Resp, Answers
<1>5. ASSUME NEW x
      PROVE  /\ Count(CommandWords, x) \in Nat /\ Count(Resp, x) \in Nat
             /\ Count(respCmd, x) \in Nat /\ Count(cmdIn, x) \in Nat
             /\ Count(Resp, x) = Count(cmdIn, x) + Count(respCmd, x)
             /\ Count(mpeCmd, x) \in Nat
  <2>1. Count(CommandWords, x) \in Nat /\ Count(Resp, x) \in Nat /\ Count(mpeCmd, x) \in Nat
        /\ Count(respCmd, x) \in Nat /\ Count(cmdIn, x) \in Nat
    BY <1>1, <1>3, <1>4, CountNat
  <2>2. Count(cmdIn \o respCmd, x) = Count(cmdIn, x) + Count(respCmd, x)
    BY <1>1, CountConcat, CountIsCountIn
  <2> QED BY <2>1, <2>2 DEF Resp
<1>6. CountIn(toFPGA, AckMessages) \in Nat
  BY <1>1, CountType
<1>7. /\ Len(toHost) \in Nat /\ Len(outstandingReq) \in Nat /\ AtHost \in Nat
      /\ Len(Answers) \in Nat
  BY <1>1, <1>4 DEF AtHost
<1>8. SendTokens \in Nat /\ RecvTokens \in Nat
  <2>1. /\ Count(CommandWords, "SEND") \in Nat /\ Count(CommandWords, "RECV") \in Nat
        /\ Count(Resp, "ACK") \in Nat /\ Count(Resp, "DATA") \in Nat
    BY <1>5
  <2> QED BY SMTT(30), <2>1, <1>6, <1>7 DEF SendTokens, RecvTokens
<1> QED BY <1>1, <1>2, <1>3, <1>4, <1>5, <1>6, <1>7, <1>8

(* The tokens are what Handshake counts.                                   *)
LEMMA TokensAreHandshake == TypeOK /\ TokenInv => Handshake
<1> SUFFICES ASSUME TypeOK, TokenInv PROVE Handshake
  OBVIOUS
<1>1. Cardinality({i \in DOMAIN toFPGA : toFPGA[i].tag = "ACK"}) = CountIn(toFPGA, AckMessages)
  <2>1. toFPGA \in Seq(Messages)
    BY MpiTypes
  <2>2. \A i \in DOMAIN toFPGA : toFPGA[i] \in Messages
    BY <2>1
  <2>3. \A i \in DOMAIN toFPGA : toFPGA[i].tag = "ACK" <=> toFPGA[i] \in AckMessages
    BY <2>2 DEF AckMessages
  <2>4. {i \in DOMAIN toFPGA : toFPGA[i].tag = "ACK"}
          = {i \in DOMAIN toFPGA : toFPGA[i] \in AckMessages}
    BY <2>3
  <2> QED BY <2>4 DEF CountIn
<1>2. Count(CommandWords, "SEND") + Len(toHost)
        + (IF hpc = "copy" THEN 0 ELSE Len(outstandingReq))
        + CountIn(toFPGA, AckMessages) + Count(respCmd, "ACK") + Count(cmdIn, "ACK")
      = IF sendServerState = "busy" \/ sendStage = 1 THEN 1 ELSE 0
  <2>1. /\ Count(Resp, "ACK") = Count(cmdIn, "ACK") + Count(respCmd, "ACK")
        /\ Count(cmdIn, "ACK") \in Nat /\ Count(respCmd, "ACK") \in Nat
        /\ Count(CommandWords, "SEND") \in Nat /\ Len(toHost) \in Nat
        /\ AtHost \in Nat /\ CountIn(toFPGA, AckMessages) \in Nat
    BY MpiTypes
  <2> QED BY <2>1 DEF TokenInv, SendTokens, AtHost
<1>3. Count(CommandWords, "RECV") + (IF mpeRecv = "RECV" THEN 1 ELSE 0)
        + Count(respCmd, "DATA") + Count(respCmd, "ACK")
        + Count(cmdIn, "DATA") + Count(cmdIn, "ACK")
      = IF recvServerState = "busy" \/ recvReqStage = 1 THEN 1 ELSE 0
  <2>1. /\ Count(Resp, "ACK") = Count(cmdIn, "ACK") + Count(respCmd, "ACK")
        /\ Count(Resp, "DATA") = Count(cmdIn, "DATA") + Count(respCmd, "DATA")
        /\ Count(cmdIn, "ACK") \in Nat /\ Count(respCmd, "ACK") \in Nat
        /\ Count(cmdIn, "DATA") \in Nat /\ Count(respCmd, "DATA") \in Nat
        /\ Count(CommandWords, "RECV") \in Nat
    BY MpiTypes
  <2> QED BY <2>1 DEF TokenInv, RecvTokens
<1> QED BY <1>1, <1>2, <1>3 DEF Handshake

LEMMA InitMpi == Init => MpiInv
<1> SUFFICES ASSUME Init PROVE MpiInv
  OBVIOUS
<1>1. TypeOK
  <2>1. /\ outgoing \in Seq(Chunks) /\ incomingMessage \in Seq(Chunks)
        /\ outstandingReq \in Seq(Chunks) /\ Len(outstandingReq) <= 1
        /\ h2f \in Seq(H2FPayloads) /\ f2hGot \in Seq(Seq(Chunks))
    BY DEF Init
  <2>2. /\ toHost \in Seq(Chunks) /\ mpeData \in Seq(Chunks)
        /\ toFPGA \in Seq([tag : {"DATA", "ACK"}, chunk : Chunks]) /\ Len(toFPGA) <= NetDepth
    BY MpiConstants DEF Init
  <2>3. /\ mpeCmd \in Seq(Operations \cup Tags)
        /\ respCmd \in Seq(Responses) /\ respData \in Seq(Chunks)
        /\ cmdOut \in Seq([word : Operations \cup Tags, withData : BOOLEAN])
        /\ dataOut \in Seq(Chunks) /\ cmdIn \in Seq(Responses) /\ dataIn \in Seq(Chunks)
    BY DEF Init
  <2>4. {Len(cmdOut), Len(dataOut), Len(cmdIn), Len(dataIn), Len(readBuffer), Len(writeBuffer)}
          \subseteq 0 .. QueueDepth
    BY MpiConstants DEF Init
  <2>5. /\ readBuffer \in Seq(Chunks) /\ writeBuffer \in Seq(Chunks)
        /\ partial \in Seq(Chunks) /\ h2fGot \in Seq(Seq(Chunks)) /\ f2h \in Seq(F2HPayloads)
        /\ f2hSent \in Seq(Chunks)
    BY DEF Init
  <2>6. /\ hpc \in {"idle", "write", "read", "ack", "copy"}
        /\ mpeRecv \in {"none", "RECV0", "RECV"}
        /\ state \in {"init", "ready"} /\ initStage \in 0 .. 4
        /\ queueOwner \in {"none", "send", "recv"}
    BY DEF Init
  <2>7. /\ {recvReqStage, recvRespStage, sendStage} \subseteq {0, 1}
        /\ {sendServerState, recvServerState} \subseteq {"idle", "busy"}
    BY DEF Init
  <2>8. blocking \in BOOLEAN
    BY DEF Init
  <2> QED BY <2>1, <2>2, <2>3, <2>4, <2>5, <2>6, <2>7, <2>8 DEF TypeOK
<1>2. mpeCmd = << >> /\ cmdOut = << >> /\ Len(CommandWords) = 0 /\ CommandWords = << >>
  <2>1. Len(CommandWords) = 0 /\ CommandWords \in Seq(Words) /\ mpeCmd = << >> /\ cmdOut = << >>
    BY <1>1, MpiTypes DEF Init
  <2> QED BY <2>1
<1>3. Resp = << >> /\ Len(Answers) = 0
  BY DEF Init, Resp, Answers
<1>4. StageInv /\ HostInv
  BY DEF Init, StageInv, HostInv
<1>5. WordInv
  BY <1>2 DEF WordInv
<1>6. \A x : Count(CommandWords, x) = 0 /\ Count(Resp, x) = 0 /\ Count(mpeCmd, x) = 0
  BY <1>2, <1>3, CountNone
<1>7. CommandsWhole
  BY <1>2, <1>6 DEF Init, CommandsWhole
<1>8. RespInv
  BY <1>3, <1>6 DEF Init, RespInv
<1>9. TokenInv
  <2>1. toFPGA = << >> /\ toHost = << >> /\ outstandingReq = << >>
    BY DEF Init
  <2>2. CountIn(toFPGA, AckMessages) = 0
    BY <2>1, CountEmpty
  <2> QED BY <1>6, <2>1, <2>2 DEF Init, TokenInv, SendTokens, RecvTokens, AtHost
<1> QED BY <1>1, <1>4, <1>5, <1>7, <1>8, <1>9 DEF MpiInv
-----------------------------------------------------------------------------
(* Steps of the host.  They leave the engine and the FPGA alone.           *)
LEMMA HostFrame ==
  ASSUME MpiInv, HostRest
  PROVE  /\ StageInv' /\ WordInv' /\ CommandsWhole' /\ RespInv'
         /\ CommandWords' = CommandWords /\ Resp' = Resp
         /\ SendTokens' = SendTokens => TokenInv'
<1>0. StageInv /\ WordInv /\ CommandsWhole /\ RespInv /\ TokenInv
  BY DEF MpiInv
<1>1. /\ UNCHANGED <<mpeCmd, mpeData, mpeRecv, respCmd, respData>>
      /\ UNCHANGED <<cmdOut, dataOut, cmdIn, dataIn>>
      /\ UNCHANGED <<state, initStage, recvReqStage, recvRespStage, sendStage>>
      /\ UNCHANGED <<sendServerState, recvServerState, queueOwner>>
  BY DEF HostRest, mpeVars, outVars, inVars, fpgaVars, stageVars, serverVars
<1>2. CommandWords' = CommandWords /\ Resp' = Resp /\ Answers' = Answers
  BY <1>1 DEF CommandWords, Resp, Answers
<1>3. StageInv'
  BY <1>0, <1>1 DEF StageInv
<1>4. WordInv'
  BY <1>0, <1>1, <1>2 DEF WordInv
<1>5. CommandsWhole'
  BY <1>0, <1>1, <1>2 DEF CommandsWhole
<1>6. RespInv'
  BY <1>0, <1>1, <1>2 DEF RespInv
<1>7. SendTokens' = SendTokens => TokenInv'
  BY <1>0, <1>1, <1>2 DEF TokenInv, RecvTokens
<1> QED BY <1>2, <1>3, <1>4, <1>5, <1>6, <1>7

(* Putting a message on its way to the FPGA.                               *)
LEMMA PutMessage ==
  ASSUME TypeOK, NEW m \in Messages, MpiSend(m)
  PROVE  /\ toFPGA' \in Seq(Messages) /\ Len(toFPGA') <= NetDepth
         /\ CountIn(toFPGA', AckMessages)
              = CountIn(toFPGA, AckMessages) + IF m.tag = "ACK" THEN 1 ELSE 0
<1>1. toFPGA \in Seq(Messages) /\ Len(toFPGA) < NetDepth /\ toFPGA' = Append(toFPGA, m)
  BY MpiTypes DEF MpiSend
<1>2. toFPGA' \in Seq(Messages) /\ Len(toFPGA') <= NetDepth
  BY <1>1, MpiConstants
<1>3. m \in AckMessages <=> m.tag = "ACK"
  BY DEF AckMessages
<1>4. CountIn(Append(toFPGA, m), AckMessages)
        = CountIn(toFPGA, AckMessages) + IF m \in AckMessages THEN 1 ELSE 0
  BY <1>1, CountAppend
<1> QED BY <1>1, <1>2, <1>3, <1>4

LEMMA HostStep == ASSUME MpiInv, Host \/ Write \/ Read PROVE MpiInv'
<1>0. TypeOK /\ HostInv /\ TokenInv
  BY DEF MpiInv
<1>1. CASE Write
  <2>0. HostRest
    BY <1>1 DEF Write
  <2>1. PICK payload \in H2FPayloads :
          /\ h2f' = Append(h2f, payload)
          /\ outgoing' = MessageChunks(Len(h2f) + 1, payload)
    BY <1>1 DEF Write
  <2>2. h2f \in Seq(H2FPayloads) /\ Len(h2f) < MaxH2F /\ Len(h2f) \in Nat /\ payload \in Nat
    BY <1>0, <1>1, MpiConstants DEF Write, TypeOK
  <2>3. h2f' \in Seq(H2FPayloads)
    BY <2>1, <2>2
  <2>4. outgoing' \in Seq(Chunks) /\ outgoing' # << >>
    <3>1. \A i \in 1 .. payload + 1 : <<Len(h2f) + 1, i - 1>> \in Chunks
      BY <2>2, MpiConstants DEF Chunks
    <3>2. outgoing' \in [1 .. payload + 1 -> Chunks]
      BY <2>1, <3>1 DEF MessageChunks
    <3>3. outgoing' \in Seq(Chunks)
      BY <2>2, <3>2
    <3>4. 1 \in DOMAIN outgoing'
      BY <2>2, <3>2
    <3> QED BY <3>3, <3>4
  <2>5. TypeOK'
    BY <1>0, <1>1, <2>3, <2>4 DEF Write, TypeOK, HostRest, netVars, mpeVars, outVars, inVars,
       fpgaVars, stageVars, serverVars, clientVars
  <2>6. HostInv'
    BY <1>1, <2>4 DEF Write, HostInv
  <2>7. SendTokens' = SendTokens
    BY <1>1, <2>0, HostFrame DEF Write, SendTokens, AtHost, netVars
  <2> QED BY <2>0, <2>5, <2>6, <2>7, HostFrame DEF MpiInv
<1>2. CASE WriteChunk
  <2>0. HostRest
    BY <1>2 DEF WriteChunk
  <2>1. /\ outgoing \in Seq(Chunks) /\ outgoing # << >> /\ outgoing' = Tail(outgoing)
        /\ hpc = "write" /\ hpc' = IF Len(outgoing) = 1 THEN "idle" ELSE "write"
    BY <1>0, <1>2 DEF WriteChunk, TypeOK, HostInv
  <2>2. /\ outgoing' \in Seq(Chunks) /\ hpc' \in {"idle", "write"}
        /\ hpc' = "write" <=> outgoing' # << >>
    <3>1. outgoing' \in Seq(Chunks) /\ Len(outgoing') = Len(outgoing) - 1
      BY <2>1, HeadTailProperties
    <3>2. outgoing' # << >> <=> Len(outgoing') # 0
      BY SMTT(30), <3>1
    <3>3. Len(outgoing) \in Nat
      BY <2>1
    <3>4. Len(outgoing') # 0 <=> Len(outgoing) # 1
      BY <3>1, <3>3
    <3> QED BY <2>1, <3>1, <3>2, <3>4
  <2>3. /\ Msg("DATA", Head(outgoing)) \in Messages /\ Msg("DATA", Head(outgoing)).tag # "ACK"
        /\ MpiSend(Msg("DATA", Head(outgoing)))
    BY <1>2, <2>1 DEF WriteChunk, Msg, Messages
  <2>4. /\ toFPGA' \in Seq(Messages) /\ Len(toFPGA') <= NetDepth
        /\ CountIn(toFPGA', AckMessages) = CountIn(toFPGA, AckMessages)
    <3> DEFINE m == Msg("DATA", Head(outgoing))
    <3>1. m \in Messages /\ m.tag # "ACK" /\ MpiSend(m)
      BY <2>3
    <3> HIDE DEF m
    <3>2. CountIn(toFPGA', AckMessages) = CountIn(toFPGA, AckMessages) + 0
      BY <1>0, <3>1, PutMessage
    <3> QED BY <1>0, <3>1, <3>2, PutMessage, MpiTypes
  <2>5. TypeOK'
    BY <1>0, <1>2, <2>2, <2>4 DEF WriteChunk, TypeOK, HostRest, mpeVars, outVars, inVars,
       fpgaVars, stageVars, serverVars, clientVars, Messages
  <2>6. HostInv'
    BY <1>2, <2>2 DEF WriteChunk, HostInv
  <2>7. SendTokens' = SendTokens
    <3>1. AtHost' = AtHost /\ toHost' = toHost
      BY <1>2, <2>1, <2>2 DEF WriteChunk, AtHost
    <3> QED BY <2>0, <2>4, <3>1, HostFrame DEF SendTokens
  <2> QED BY <2>0, <2>5, <2>6, <2>7, HostFrame DEF MpiInv
<1>3. CASE TryRead
  <2>0. HostRest
    BY <1>3 DEF TryRead
  <2>1. TypeOK'
    BY <1>0, <1>3 DEF TryRead, TypeOK, HostRest, netVars, mpeVars, outVars, inVars,
       fpgaVars, stageVars, serverVars, clientVars
  <2>2. HostInv'
    BY <1>0, <1>3 DEF TryRead, HostInv, netVars
  <2>3. SendTokens' = SendTokens
    BY <1>3, <2>0, HostFrame DEF TryRead, SendTokens, AtHost, netVars
  <2> QED BY <2>0, <2>1, <2>2, <2>3, HostFrame DEF MpiInv
<1>4. CASE Read
  <2>0. HostRest
    BY <1>4 DEF Read
  <2>1. TypeOK'
    BY <1>0, <1>4 DEF Read, TypeOK, HostRest, netVars, mpeVars, outVars, inVars,
       fpgaVars, stageVars, serverVars, clientVars
  <2>2. HostInv'
    BY <1>0, <1>4 DEF Read, HostInv, netVars
  <2>3. SendTokens' = SendTokens
    BY <1>4, <2>0, HostFrame DEF Read, SendTokens, AtHost, netVars
  <2> QED BY <2>0, <2>1, <2>2, <2>3, HostFrame DEF MpiInv
<1>5. CASE ReadTest
  <2>0. HostRest
    BY <1>5 DEF ReadTest
  <2>1. TypeOK'
    BY <1>0, <1>5 DEF ReadTest, TypeOK, HostRest, netVars, mpeVars, outVars, inVars,
       fpgaVars, stageVars, serverVars, clientVars
  <2>2. HostInv'
    BY <1>0, <1>5 DEF ReadTest, HostInv, netVars
  <2>3. SendTokens' = SendTokens
    BY <1>5, <2>0, HostFrame DEF ReadTest, SendTokens, AtHost, netVars
  <2> QED BY <2>0, <2>1, <2>2, <2>3, HostFrame DEF MpiInv
<1>6. CASE SendAck
  <2>0. HostRest
    BY <1>6 DEF SendAck
  <2>1. /\ Msg("ACK", FortyTwo) \in Messages /\ Msg("ACK", FortyTwo).tag = "ACK"
        /\ MpiSend(Msg("ACK", FortyTwo))
    BY <1>6, MpiConstants DEF SendAck, Msg, Messages, Chunks, FortyTwo
  <2>2. /\ toFPGA' \in Seq(Messages) /\ Len(toFPGA') <= NetDepth
        /\ CountIn(toFPGA', AckMessages) = CountIn(toFPGA, AckMessages) + 1
    <3> DEFINE m == Msg("ACK", FortyTwo)
    <3>1. m \in Messages /\ m.tag = "ACK" /\ MpiSend(m)
      BY <2>1
    <3> HIDE DEF m
    <3> QED BY <1>0, <3>1, PutMessage
  <2>3. TypeOK'
    BY <1>0, <1>6, <2>2 DEF SendAck, TypeOK, HostRest, mpeVars, outVars, inVars,
       fpgaVars, stageVars, serverVars, clientVars, Messages
  <2>4. HostInv'
    BY <1>0, <1>6 DEF SendAck, HostInv
  <2>5. SendTokens' = SendTokens
    <3>1. AtHost = 1 /\ AtHost' = 0 /\ toHost' = toHost
      <4>1. /\ outstandingReq \in Seq(Chunks) /\ Len(outstandingReq) <= 1 /\ outstandingReq # << >>
            /\ hpc = "ack" /\ hpc' = "copy"
        BY <1>0, <1>6 DEF SendAck, HostInv, TypeOK
      <4>2. Len(outstandingReq) = 1
        <5> DEFINE n == Len(outstandingReq)
        <5>1. n \in Nat /\ n # 0 /\ n <= 1
          BY <4>1
        <5> HIDE DEF n
        <5>2. n = 1
          BY <5>1
        <5> QED BY <5>2 DEF n
      <4> QED BY <1>6, <4>1, <4>2 DEF SendAck, AtHost
    <3>2. Count(CommandWords, "SEND") \in Nat /\ Count(Resp, "ACK") \in Nat /\ Len(toHost) \in Nat
          /\ CountIn(toFPGA, AckMessages) \in Nat
      BY <1>0, MpiTypes
    <3>3. CommandWords' = CommandWords /\ Resp' = Resp
      BY <2>0, HostFrame
    <3> QED BY <2>2, <3>1, <3>2, <3>3 DEF SendTokens
  <2> QED BY <2>0, <2>3, <2>4, <2>5, HostFrame DEF MpiInv
<1>7. CASE CopyChunk
  <2>0. HostRest
    BY <1>7 DEF CopyChunk
  <2> DEFINE chunks == incomingMessage \o outstandingReq
  <2>1. chunks \in Seq(Chunks)
    BY <1>0, ConcatProperties DEF TypeOK
  <2>2. /\ incomingMessage' \in Seq(Chunks) /\ f2hGot' \in Seq(Seq(Chunks))
        /\ hpc' \in {"idle", "read"} /\ outstandingReq' = << >>
    <3>1. CASE Complete(chunks)
      <4>1. f2hGot' = Append(f2hGot, chunks) /\ incomingMessage' = << >> /\ hpc' = "idle"
            /\ outstandingReq' = << >>
        BY <1>7, <3>1 DEF CopyChunk
      <4>2. f2hGot \in Seq(Seq(Chunks))
        BY <1>0 DEF TypeOK
      <4> HIDE DEF chunks
      <4> QED BY <2>1, <4>1, <4>2
    <3>2. CASE ~ Complete(chunks)
      <4>1. f2hGot' = f2hGot /\ incomingMessage' = chunks /\ outstandingReq' = << >>
            /\ hpc' \in {"idle", "read"}
        BY <1>7, <3>2 DEF CopyChunk
      <4> QED BY <1>0, <2>1, <4>1 DEF TypeOK
    <3> QED BY <3>1, <3>2
  <2> HIDE DEF chunks
  <2>3. outstandingReq' \in Seq(Chunks) /\ Len(outstandingReq') <= 1
    BY <2>2
  <2>4. TypeOK'
    BY <1>0, <1>7, <2>2, <2>3 DEF CopyChunk, TypeOK, HostRest, mpeVars, outVars, inVars,
       fpgaVars, stageVars, serverVars, clientVars
  <2>5. HostInv'
    BY <1>0, <1>7, <2>2 DEF CopyChunk, HostInv
  <2>6. SendTokens' = SendTokens
    <3>1. AtHost = 0 /\ AtHost' = 0
      BY <1>7, <2>2 DEF CopyChunk, AtHost
    <3>2. UNCHANGED <<toHost, toFPGA>>
      BY <1>7 DEF CopyChunk
    <3> QED BY <2>0, <3>1, <3>2, HostFrame DEF SendTokens
  <2> QED BY <2>0, <2>4, <2>5, <2>6, HostFrame DEF MpiInv
<1> QED BY <1>1, <1>2, <1>3, <1>4, <1>5, <1>6, <1>7 DEF Host
-----------------------------------------------------------------------------
(* Steps of the network and the engine.                                    *)

(* Counting an answer.                                                     *)
LEMMA CountShort ==
  ASSUME NEW t, NEW x
  PROVE  /\ Count(<<t>>, x) = IF t = x THEN 1 ELSE 0
         /\ x # "HEADER" => Count(<<"HEADER", t>>, x) = IF t = x THEN 1 ELSE 0
<1> DEFINE T == {"HEADER", t}
           e == << >>
           h == <<"HEADER">>
<1>1. e \in Seq(T) /\ h \in Seq(T) /\ t \in T /\ "HEADER" \in T
  OBVIOUS
<1>2. <<t>> = Append(e, t) /\ h = Append(e, "HEADER") /\ <<"HEADER", t>> = Append(h, t)
  OBVIOUS
<1>3. Count(e, x) = 0
  BY CountNone
<1> HIDE DEF T, e, h
<1>4. Count(Append(e, t), x) = 0 + IF t = x THEN 1 ELSE 0
  BY <1>1, <1>3, CountPut
<1>5. Count(h, x) = 0 + IF "HEADER" = x THEN 1 ELSE 0
  BY <1>1, <1>2, <1>3, CountPut
<1>6. Count(Append(h, t), x) = Count(h, x) + IF t = x THEN 1 ELSE 0
  BY <1>1, CountPut
<1>7. x # "HEADER" => Count(h, x) = 0
  BY <1>5
<1>8. x # "HEADER" => Count(Append(h, t), x) = IF t = x THEN 1 ELSE 0
  BY <1>6, <1>7
<1>9. Count(Append(e, t), x) = IF t = x THEN 1 ELSE 0
  BY <1>4
<1> QED BY <1>2, <1>8, <1>9

(* There is an answer of a kind if the last word there is says so.         *)
LEMMA AnswerCounts ==
  ASSUME RespInv
  PROVE  /\ \A x \in {"RANK", "DATA", "ACK"} :
              Count(Resp, x) = IF Resp # << >> /\ FinalOf(Resp) = x THEN 1 ELSE 0
         /\ Resp # << >> => FinalOf(Resp) \in {"RANK", "DATA", "ACK"}
         /\ Resp # << >> => (FinalOf(Resp) = "RANK" <=> state = "init")
<1>1. CASE Resp = << >>
  BY <1>1, CountNone
<1>2. CASE Resp # << >>
  <2>1. PICK t \in {"RANK", "DATA", "ACK"} :
          /\ t = "RANK" <=> state = "init"
          /\ Resp \in {<<t>>, <<"HEADER", t>>}
    BY <1>2 DEF RespInv
  <2>2. FinalOf(Resp) = t
    BY <2>1 DEF FinalOf
  <2>3. ASSUME NEW x \in {"RANK", "DATA", "ACK"}
        PROVE  Count(Resp, x) = IF t = x THEN 1 ELSE 0
    <3>1. Count(<<t>>, x) = IF t = x THEN 1 ELSE 0
      BY CountShort
    <3>2. Count(<<"HEADER", t>>, x) = IF t = x THEN 1 ELSE 0
      BY CountShort
    <3> QED BY <2>1, <3>1, <3>2
  <2> QED BY <1>2, <2>1, <2>2, <2>3
<1> QED BY <1>1, <1>2

(* When the first command goes, its words do.                              *)
LEMMA TakeCommand ==
  ASSUME TypeOK, CommandsWhole, Len(mpeCmd) >= 2,
         mpeCmd' = SubSeq(mpeCmd, 3, Len(mpeCmd)), cmdOut' = cmdOut
  PROVE  /\ mpeCmd' \in Seq(Words) /\ CommandWords' \in Seq(Words) /\ Whole(CommandWords')
         /\ mpeCmd[1] \in Operations
         /\ Len(CommandWords') % 2 = Len(CommandWords) % 2
         /\ Len(CommandWords) % 2 = 1 => FinalOf(CommandWords') = FinalOf(CommandWords)
         /\ \A x \in Operations :
              /\ Count(CommandWords, x) = Count(CommandWords', x) + IF mpeCmd[1] = x THEN 1 ELSE 0
              /\ Count(mpeCmd, x) = Count(mpeCmd', x) + IF mpeCmd[1] = x THEN 1 ELSE 0
              /\ Count(CommandWords', x) \in Nat /\ Count(mpeCmd', x) \in Nat
<1> DEFINE w == CommandWords
<1>1. /\ mpeCmd \in Seq(Words) /\ cmdOut \in Seq(Commands) /\ w \in Seq(Words)
      /\ w = WordsOf(mpeCmd, cmdOut) /\ CommandWords' = WordsOf(mpeCmd', cmdOut')
      /\ Len(w) = Len(mpeCmd) + Len(cmdOut) /\ Len(mpeCmd) \in Nat /\ Len(cmdOut) \in Nat
  BY MpiTypes DEF CommandWords, WordsOf
<1>2. Len(w) >= 2 /\ w[1] = mpeCmd[1] /\ w[2] = mpeCmd[2]
  <2>1. 1 \in 1 .. Len(mpeCmd) + Len(cmdOut) /\ 2 \in 1 .. Len(mpeCmd) + Len(cmdOut)
        /\ 1 <= Len(mpeCmd) /\ 2 <= Len(mpeCmd)
    BY <1>1
  <2>2. \A i \in 1 .. Len(mpeCmd) + Len(cmdOut) :
          w[i] = IF i <= Len(mpeCmd) THEN mpeCmd[i] ELSE cmdOut[i - Len(mpeCmd)].word
    BY <1>1, WordsOfType
  <2> QED BY <1>1, <2>1, <2>2
<1>3. CommandWords' = SubSeq(w, 3, Len(w))
  BY <1>1, WordsTake
<1>4. Whole(w)
  BY DEF CommandsWhole, Whole
<1>5. /\ w[1] \in Operations /\ w[2] = IF w[1] = "SEND" THEN "DATA" ELSE "ANY"
      /\ Whole(CommandWords') /\ Len(CommandWords') % 2 = Len(w) % 2
      /\ Len(w) % 2 = 1 => FinalOf(CommandWords') = FinalOf(w)
  BY <1>1, <1>2, <1>3, <1>4, WholeTake
<1>6. ASSUME NEW q \in Seq(Words), Len(q) >= 2, q[1] = w[1], q[2] = w[2], NEW x \in Operations
      PROVE  /\ Count(q, x) = Count(SubSeq(q, 3, Len(q)), x) + IF w[1] = x THEN 1 ELSE 0
             /\ Count(SubSeq(q, 3, Len(q)), x) \in Nat /\ SubSeq(q, 3, Len(q)) \in Seq(Words)
  <2>1. /\ SubSeq(q, 3, Len(q)) = Tail(Tail(q)) /\ q # << >> /\ Head(q) = w[1]
        /\ SubSeq(q, 3, Len(q)) \in Seq(Words)
        /\ Tail(q) \in Seq(Words) /\ Tail(q) # << >> /\ Head(Tail(q)) = w[2]
    BY <1>6, TakeTwo
  <2>2. Count(q, x) = Count(Tail(q), x) + IF w[1] = x THEN 1 ELSE 0
    BY <2>1, CountTake
  <2>3. Count(Tail(q), x) = Count(Tail(Tail(q)), x) + IF w[2] = x THEN 1 ELSE 0
    BY <2>1, CountTake
  <2>4. w[2] # x
    BY <1>5 DEF Operations
  <2>5. Count(SubSeq(q, 3, Len(q)), x) \in Nat
    BY <2>1, CountNat
  <2>6. Count(Tail(q), x) = Count(SubSeq(q, 3, Len(q)), x)
    <3> DEFINE n == Count(Tail(Tail(q)), x)
    <3>1. n = Count(SubSeq(q, 3, Len(q)), x)
      BY <2>1
    <3>2. Count(Tail(q), x) = n + IF w[2] = x THEN 1 ELSE 0
      BY <2>3
    <3> HIDE DEF n
    <3>3. Count(Tail(q), x) = n
      BY <2>4, <2>5, <3>1, <3>2
    <3> QED BY <3>1, <3>3
  <2> QED BY <2>1, <2>2, <2>5, <2>6
<1>7. \A x \in Operations :
        /\ Count(w, x) = Count(CommandWords', x) + IF mpeCmd[1] = x THEN 1 ELSE 0
        /\ Count(mpeCmd, x) = Count(mpeCmd', x) + IF mpeCmd[1] = x THEN 1 ELSE 0
        /\ Count(CommandWords', x) \in Nat /\ Count(mpeCmd', x) \in Nat
  <2> SUFFICES ASSUME NEW x \in Operations
               PROVE  /\ Count(w, x) = Count(CommandWords', x) + IF mpeCmd[1] = x THEN 1 ELSE 0
                      /\ Count(mpeCmd, x) = Count(mpeCmd', x) + IF mpeCmd[1] = x THEN 1 ELSE 0
                      /\ Count(CommandWords', x) \in Nat /\ Count(mpeCmd', x) \in Nat
    OBVIOUS
  <2> HIDE DEF w
  <2>1. /\ Count(w, x) = Count(SubSeq(w, 3, Len(w)), x) + IF w[1] = x THEN 1 ELSE 0
        /\ Count(SubSeq(w, 3, Len(w)), x) \in Nat
    BY <1>1, <1>2, <1>6
  <2>2. /\ Count(mpeCmd, x) = Count(SubSeq(mpeCmd, 3, Len(mpeCmd)), x) + IF w[1] = x THEN 1 ELSE 0
        /\ Count(SubSeq(mpeCmd, 3, Len(mpeCmd)), x) \in Nat
    BY <1>1, <1>2, <1>6
  <2> QED BY <1>2, <1>3, <2>1, <2>2
<1>8. CommandWords' \in Seq(Words) /\ mpeCmd' \in Seq(Words)
  BY <1>1, <1>2, <1>3, TakeTwo
<1> QED BY <1>2, <1>5, <1>7, <1>8
(* Steps of the engine leave host, rules and clients alone.                *)
LEMMA EngineFrame ==
  ASSUME MpiInv, UNCHANGED <<hpc, blocking, outgoing, incomingMessage, h2f, f2hGot>>,
         UNCHANGED fpgaVars
  PROVE  /\ StageInv'
         /\ SendTokens' = SendTokens /\ RecvTokens' = RecvTokens => TokenInv'
         /\ UNCHANGED <<state, initStage, recvReqStage, recvRespStage, sendStage, sendServerState,
                        recvServerState, queueOwner>>
BY DEF MpiInv, StageInv, TokenInv, fpgaVars, stageVars, serverVars

LEMMA ArriveStep == ASSUME MpiInv, Arrive PROVE MpiInv'
<1>0. TypeOK /\ HostInv /\ TokenInv /\ WordInv /\ CommandsWhole /\ RespInv
  BY DEF MpiInv
<1>1. /\ UNCHANGED <<hpc, blocking, outgoing, incomingMessage, h2f, f2hGot>> /\ UNCHANGED fpgaVars
      /\ UNCHANGED <<mpeCmd, mpeData, mpeRecv, respCmd, respData, cmdOut, dataOut, cmdIn, dataIn>>
      /\ toFPGA' = toFPGA
      /\ UNCHANGED <<state, initStage, recvReqStage, recvRespStage, sendStage, sendServerState,
                     recvServerState, queueOwner>>
  BY DEF Arrive, hostVars, mpeVars, outVars, inVars, fpgaVars, stageVars, serverVars
<1>2. /\ toHost \in Seq(Chunks) /\ toHost # << >> /\ outstandingReq = << >>
      /\ toHost' = Tail(toHost) /\ outstandingReq' = <<Head(toHost)>>
  BY <1>0 DEF Arrive, TypeOK
<1>3. /\ toHost' \in Seq(Chunks) /\ Len(toHost') = Len(toHost) - 1 /\ Len(toHost) \in Nat
      /\ outstandingReq' \in Seq(Chunks) /\ Len(outstandingReq') = 1
      /\ Len(outstandingReq) = 0 /\ outstandingReq' # << >>
  BY <1>2, HeadTailProperties
<1>4. TypeOK'
  BY <1>0, <1>1, <1>3 DEF TypeOK, fpgaVars, stageVars, serverVars, clientVars
<1>5. HostInv'
  BY <1>0, <1>1, <1>3 DEF HostInv
<1>6. CommandWords' = CommandWords /\ Resp' = Resp /\ Answers' = Answers
  BY <1>1 DEF CommandWords, Resp, Answers
<1>7. WordInv' /\ CommandsWhole' /\ RespInv'
  BY <1>0, <1>1, <1>6 DEF WordInv, CommandsWhole, RespInv
<1>8. SendTokens' = SendTokens /\ RecvTokens' = RecvTokens
  <2>1. AtHost = 0 /\ AtHost' = 1
    BY <1>0, <1>1, <1>2, <1>3 DEF HostInv, AtHost
  <2>2. /\ Count(CommandWords, "SEND") \in Nat /\ Count(Resp, "ACK") \in Nat
        /\ CountIn(toFPGA, AckMessages) \in Nat
    BY <1>0, MpiTypes
  <2>3. SendTokens' = SendTokens
    BY <1>1, <1>3, <1>6, <2>1, <2>2 DEF SendTokens
  <2> QED BY <1>1, <1>6, <2>3 DEF RecvTokens
<1> QED BY <1>1, <1>4, <1>5, <1>7, <1>8, EngineFrame DEF MpiInv

LEMMA MpeCommandStep == ASSUME MpiInv, MpeCommand PROVE MpiInv'
<1>0. TypeOK /\ HostInv /\ TokenInv /\ WordInv /\ CommandsWhole /\ RespInv
  BY DEF MpiInv
<1>1. /\ UNCHANGED <<hpc, blocking, outgoing, incomingMessage, h2f, f2hGot>> /\ UNCHANGED fpgaVars
      /\ UNCHANGED <<respCmd, respData, cmdOut, dataOut, cmdIn, dataIn, outstandingReq, toFPGA>>
      /\ UNCHANGED <<state, initStage, recvReqStage, recvRespStage, sendStage, sendServerState,
                     recvServerState, queueOwner>>
      /\ Len(mpeCmd) >= 2 /\ mpeCmd' = SubSeq(mpeCmd, 3, Len(mpeCmd))
  BY DEF MpeCommand, hostVars, outVars, inVars, fpgaVars, stageVars, serverVars
<1> DEFINE op == mpeCmd[1]
<1>2. /\ mpeCmd' \in Seq(Words) /\ CommandWords' \in Seq(Words) /\ Whole(CommandWords')
      /\ op \in Operations
      /\ Len(CommandWords') % 2 = Len(CommandWords) % 2
      /\ Len(CommandWords) % 2 = 1 => FinalOf(CommandWords') = FinalOf(CommandWords)
      /\ \A x \in Operations :
           /\ Count(CommandWords, x) = Count(CommandWords', x) + IF op = x THEN 1 ELSE 0
           /\ Count(mpeCmd, x) = Count(mpeCmd', x) + IF op = x THEN 1 ELSE 0
           /\ Count(CommandWords', x) \in Nat /\ Count(mpeCmd', x) \in Nat
  BY <1>0, <1>1, TakeCommand
<1>3. Resp' = Resp /\ Answers' = Answers /\ AtHost' = AtHost
  BY <1>1 DEF Resp, Answers, AtHost
<1>4. HostInv' /\ WordInv'
  BY <1>0, <1>1, <1>2 DEF HostInv, WordInv
<1>5. /\ Count(CommandWords, "SEND") = Count(CommandWords', "SEND") + IF op = "SEND" THEN 1 ELSE 0
      /\ Count(mpeCmd, "SEND") = Count(mpeCmd', "SEND") + IF op = "SEND" THEN 1 ELSE 0
      /\ Count(CommandWords', "SEND") \in Nat /\ Count(mpeCmd', "SEND") \in Nat
      /\ Count(CommandWords, "RECV") = Count(CommandWords', "RECV") + IF op = "RECV" THEN 1 ELSE 0
      /\ Count(CommandWords', "RECV") \in Nat
      /\ Count(CommandWords, "RECV0") = Count(CommandWords', "RECV0") + IF op = "RECV0" THEN 1 ELSE 0
      /\ Count(CommandWords', "RECV0") \in Nat
  BY <1>2 DEF Operations
<1>6. /\ Count(Resp, "ACK") \in Nat /\ Count(Resp, "DATA") \in Nat /\ Count(Resp, "RANK") \in Nat
      /\ CountIn(toFPGA, AckMessages) \in Nat /\ AtHost \in Nat /\ Len(toHost) \in Nat
  BY <1>0, MpiTypes
<1>7. CASE op = "SEND"
  <2>1. /\ mpeData \in Seq(Chunks) /\ mpeData # << >> /\ mpeData' = Tail(mpeData)
        /\ toHost \in Seq(Chunks) /\ toHost' = Append(toHost, Head(mpeData)) /\ mpeRecv' = mpeRecv
    BY <1>0, <1>7 DEF MpeCommand, TypeOK
  <2>2. /\ mpeData' \in Seq(Chunks) /\ Len(mpeData') = Len(mpeData) - 1 /\ Len(mpeData) \in Nat
        /\ toHost' \in Seq(Chunks) /\ Len(toHost') = Len(toHost) + 1
    BY <2>1, HeadTailProperties
  <2>3. TypeOK'
    BY <1>0, <1>1, <1>2, <2>1, <2>2 DEF TypeOK, fpgaVars, stageVars, serverVars, clientVars, Words
  <2>4. CommandsWhole'
    <3>1. /\ Count(mpeCmd', "SEND") = Len(mpeData')
          /\ Count(CommandWords', "SEND") = Len(mpeData') + Len(dataOut')
      <4>1. dataOut' = dataOut /\ Len(dataOut) \in Nat
        BY <1>0, <1>1 DEF TypeOK
      <4> QED BY <1>0, <1>5, <1>7, <2>2, <4>1 DEF CommandsWhole
    <3> QED BY <1>0, <1>1, <1>2, <3>1 DEF CommandsWhole, Whole
  <2>5. RespInv'
    BY SMTT(30), <1>0, <1>1, <1>3, <1>5, <1>7, <2>1 DEF RespInv
  <2>6. SendTokens' = SendTokens
    <3>1. Count(CommandWords, "SEND") = Count(CommandWords', "SEND") + 1
      BY <1>5, <1>7
    <3> QED BY SMTT(30), <1>1, <1>3, <1>5, <1>6, <2>2, <3>1 DEF SendTokens
  <2>7. RecvTokens' = RecvTokens
    <3>1. Count(CommandWords, "RECV") = Count(CommandWords', "RECV")
      BY <1>5, <1>7
    <3> QED BY <1>3, <2>1, <3>1 DEF RecvTokens
  <2> QED BY <1>1, <1>4, <2>3, <2>4, <2>5, <2>6, <2>7, EngineFrame DEF MpiInv
<1>8. CASE op # "SEND"
  <2>1. /\ mpeRecv = "none" /\ mpeRecv' = op /\ toHost' = toHost /\ mpeData' = mpeData
        /\ op \in {"RECV0", "RECV"}
    BY <1>2, <1>8 DEF MpeCommand, Operations
  <2>2. TypeOK'
    BY <1>0, <1>1, <1>2, <2>1 DEF TypeOK, fpgaVars, stageVars, serverVars, clientVars, Words
  <2>3. CommandsWhole'
    <3>1. /\ Count(mpeCmd', "SEND") = Count(mpeCmd, "SEND")
          /\ Count(CommandWords', "SEND") = Count(CommandWords, "SEND")
      BY <1>5, <1>8
    <3> QED BY <1>0, <1>1, <1>2, <2>1, <3>1 DEF CommandsWhole, Whole
  <2>4. Count(CommandWords', "RECV0") + (IF mpeRecv' = "RECV0" THEN 1 ELSE 0)
          = Count(CommandWords, "RECV0") + (IF mpeRecv = "RECV0" THEN 1 ELSE 0)
    BY <1>5, <2>1
  <2>5. RespInv'
    <3>1. Count(CommandWords', "RECV0") + (IF mpeRecv' = "RECV0" THEN 1 ELSE 0) + Count(Resp, "RANK")
            = Count(CommandWords, "RECV0") + (IF mpeRecv = "RECV0" THEN 1 ELSE 0) + Count(Resp, "RANK")
      BY <2>4
    <3> QED BY <1>0, <1>1, <1>3, <3>1 DEF RespInv
  <2>6. SendTokens' = SendTokens
    BY <1>1, <1>3, <1>5, <1>8, <2>1 DEF SendTokens
  <2>7. RecvTokens' = RecvTokens
    <3>1. Count(CommandWords', "RECV") + (IF mpeRecv' = "RECV" THEN 1 ELSE 0)
            = Count(CommandWords, "RECV") + (IF mpeRecv = "RECV" THEN 1 ELSE 0)
      BY <1>5, <2>1
    <3> QED BY <1>3, <3>1 DEF RecvTokens
  <2> QED BY <1>1, <1>4, <2>2, <2>3, <2>5, <2>6, <2>7, EngineFrame DEF MpiInv
<1> QED BY <1>7, <1>8
(* An answer of the engine when there is none. *)
LEMMA PutAnswer ==
  ASSUME MpiInv, Resp = << >>, cmdIn' = cmdIn,
         NEW t \in {"RANK", "DATA", "ACK"}, respCmd' = respCmd \o <<"HEADER", t>>
  PROVE  /\ Resp' = <<"HEADER", t>> /\ respCmd' \in Seq(Responses)
         /\ \A x \in {"RANK", "DATA", "ACK"} :
              Count(Resp, x) = 0 /\ Count(Resp', x) = IF t = x THEN 1 ELSE 0
         /\ initStage # 3 /\ recvRespStage = 0
<1> DEFINE a == <<"HEADER", t>>
<1>1. cmdIn \in Seq(Responses) /\ respCmd \in Seq(Responses) /\ a \in Seq(Responses)
  BY DEF MpiInv, TypeOK, Responses
<1>2. cmdIn \o respCmd = << >>
  BY DEF Resp
<1>3. Resp' = cmdIn \o (respCmd \o a) /\ respCmd' = respCmd \o a
  BY DEF Resp
<1> HIDE DEF a
<1>4. cmdIn \o (respCmd \o a) = (cmdIn \o respCmd) \o a /\ respCmd \o a \in Seq(Responses)
  BY SMTT(30), <1>1, ConcatAssociative, ConcatProperties
<1>5. << >> \o a = a
  BY <1>1
<1>6. Resp' = a
  BY <1>2, <1>3, <1>4, <1>5
<1>7. Resp' = <<"HEADER", t>>
  BY <1>6 DEF a
<1>8. ASSUME NEW x \in {"RANK", "DATA", "ACK"}
      PROVE  Count(Resp, x) = 0 /\ Count(Resp', x) = IF t = x THEN 1 ELSE 0
  BY <1>7, CountNone, CountShort
<1>9. initStage # 3 /\ recvRespStage = 0
  BY DEF MpiInv, RespInv
<1> QED BY <1>3, <1>4, <1>7, <1>8, <1>9

LEMMA MpeRankStep == ASSUME MpiInv, MpeRank PROVE MpiInv'
<1>0. TypeOK /\ StageInv /\ HostInv /\ TokenInv /\ WordInv /\ CommandsWhole /\ RespInv
  BY DEF MpiInv
<1>1. /\ UNCHANGED <<hpc, blocking, outgoing, incomingMessage, h2f, f2hGot>> /\ UNCHANGED fpgaVars
      /\ UNCHANGED <<mpeCmd, mpeData, respData, cmdOut, dataOut, cmdIn, dataIn>>
      /\ UNCHANGED <<outstandingReq, toHost, toFPGA>>
      /\ UNCHANGED <<state, initStage, recvReqStage, recvRespStage, sendStage, sendServerState,
                     recvServerState, queueOwner>>
      /\ mpeRecv = "RECV0" /\ mpeRecv' = "none" /\ respCmd' = respCmd \o <<"HEADER", "RANK">>
  BY DEF MpeRank, hostVars, netVars, outVars, inVars, fpgaVars, stageVars, serverVars
<1>2. CommandWords' = CommandWords /\ Answers' = Answers /\ AtHost' = AtHost
  BY <1>1 DEF CommandWords, Answers, AtHost
<1>3. /\ Count(CommandWords, "RECV0") = 0 /\ Count(Resp, "RANK") = 0 /\ initStage \in 1 .. 3
      /\ state = "init"
  <2>1. Count(CommandWords, "RECV0") \in Nat /\ Count(Resp, "RANK") \in Nat
    BY <1>0, MpiTypes
  <2>2. Count(CommandWords, "RECV0") + 1 + Count(Resp, "RANK") = IF initStage \in 1 .. 3 THEN 1 ELSE 0
    BY <1>0, <1>1 DEF RespInv
  <2> QED BY <1>0, <2>1, <2>2 DEF StageInv
<1>4. Resp = << >>
  BY <1>0, <1>3, AnswerCounts
<1>5. /\ Resp' = <<"HEADER", "RANK">> /\ respCmd' \in Seq(Responses)
      /\ Count(Resp', "RANK") = 1 /\ Count(Resp', "DATA") = 0 /\ Count(Resp', "ACK") = 0
      /\ Count(Resp, "DATA") = 0 /\ Count(Resp, "ACK") = 0
      /\ initStage # 3 /\ recvRespStage = 0
  BY <1>1, <1>4, PutAnswer
<1>6. TypeOK'
  BY <1>0, <1>1, <1>5 DEF TypeOK, fpgaVars, stageVars, serverVars, clientVars
<1>7. RespInv'
  <2>1. Len(Answers') = Count(Resp', "DATA") + Count(Resp', "ACK")
    BY <1>0, <1>2, <1>5 DEF RespInv
  <2>2. Count(CommandWords', "RECV0") + (IF mpeRecv' = "RECV0" THEN 1 ELSE 0) + Count(Resp', "RANK")
          = IF initStage' \in 1 .. 3 THEN 1 ELSE 0
    BY <1>1, <1>2, <1>3, <1>5
  <2>3. \E t \in {"RANK", "DATA", "ACK"} :
          /\ t = "RANK" <=> state' = "init"
          /\ Resp' = IF initStage' = 3 \/ recvRespStage' = 1 THEN <<t>> ELSE <<"HEADER", t>>
    BY <1>1, <1>3, <1>5
  <2> QED BY <2>1, <2>2, <2>3 DEF RespInv
<1>8. HostInv' /\ WordInv' /\ CommandsWhole'
  BY <1>0, <1>1, <1>2 DEF HostInv, WordInv, CommandsWhole
<1>9. SendTokens' = SendTokens /\ RecvTokens' = RecvTokens
  <2>1. SendTokens' = SendTokens
    BY <1>1, <1>2, <1>5 DEF SendTokens
  <2> QED BY <1>1, <1>2, <1>5, <2>1 DEF RecvTokens
<1> QED BY <1>1, <1>6, <1>7, <1>8, <1>9, EngineFrame DEF MpiInv

LEMMA MpeReceiveStep == ASSUME MpiInv, MpeReceive PROVE MpiInv'
<1>0. TypeOK /\ StageInv /\ HostInv /\ TokenInv /\ WordInv /\ CommandsWhole /\ RespInv
  BY DEF MpiInv
<1> DEFINE m == Head(toFPGA)
           t == m.tag
<1>1. /\ UNCHANGED <<hpc, blocking, outgoing, incomingMessage, h2f, f2hGot>> /\ UNCHANGED fpgaVars
      /\ UNCHANGED <<mpeCmd, mpeData, cmdOut, dataOut, cmdIn, dataIn>>
      /\ UNCHANGED <<outstandingReq, toHost>>
      /\ UNCHANGED <<state, initStage, recvReqStage, recvRespStage, sendStage, sendServerState,
                     recvServerState, queueOwner>>
      /\ mpeRecv = "RECV" /\ mpeRecv' = "none" /\ respCmd' = respCmd \o <<"HEADER", t>>
      /\ toFPGA # << >> /\ toFPGA' = Tail(toFPGA) /\ respData' = Append(respData, m.chunk)
  BY DEF MpeReceive, hostVars, outVars, inVars, fpgaVars, stageVars, serverVars
<1>2. CommandWords' = CommandWords /\ AtHost' = AtHost
  BY <1>1 DEF CommandWords, AtHost
<1>3. /\ m \in Messages /\ toFPGA' \in Seq(Messages) /\ Len(toFPGA') = Len(toFPGA) - 1
      /\ t \in {"DATA", "ACK"} /\ m.chunk \in Chunks /\ toFPGA \in Seq(Messages)
      /\ m \in AckMessages <=> t = "ACK"
  <2>1. toFPGA \in Seq(Messages)
    BY <1>0, MpiTypes
  <2>2. m \in Messages /\ toFPGA' \in Seq(Messages) /\ Len(toFPGA') = Len(toFPGA) - 1
    BY <1>1, <2>1, HeadTailProperties
  <2> QED BY <2>1, <2>2 DEF Messages, AckMessages
<1>4. /\ Count(CommandWords, "RECV") = 0 /\ Count(Resp, "DATA") = 0 /\ Count(Resp, "ACK") = 0
      /\ recvServerState = "busy" \/ recvReqStage = 1
  <2>1. /\ Count(CommandWords, "RECV") \in Nat /\ Count(Resp, "DATA") \in Nat
        /\ Count(Resp, "ACK") \in Nat
    BY <1>0, MpiTypes
  <2>2. Count(CommandWords, "RECV") + 1 + Count(Resp, "DATA") + Count(Resp, "ACK")
          = IF recvServerState = "busy" \/ recvReqStage = 1 THEN 1 ELSE 0
    BY <1>0, <1>1 DEF TokenInv, RecvTokens
  <2> QED BY <2>1, <2>2
<1>5. state # "init" /\ initStage = 4
  BY <1>0, <1>4 DEF StageInv
<1>6. Resp = << >>
  BY <1>0, <1>4, <1>5, AnswerCounts
<1> HIDE DEF m, t
<1>7. /\ Resp' = <<"HEADER", t>> /\ respCmd' \in Seq(Responses)
      /\ Count(Resp', "RANK") = 0 /\ Count(Resp, "RANK") = 0
      /\ Count(Resp', "DATA") = IF t = "DATA" THEN 1 ELSE 0
      /\ Count(Resp', "ACK") = IF t = "ACK" THEN 1 ELSE 0
      /\ recvRespStage = 0
  <2>1. t \in {"RANK", "DATA", "ACK"}
    BY <1>3
  <2>2. /\ Resp' = <<"HEADER", t>> /\ respCmd' \in Seq(Responses)
        /\ \A x \in {"RANK", "DATA", "ACK"} :
             Count(Resp, x) = 0 /\ Count(Resp', x) = IF t = x THEN 1 ELSE 0
        /\ recvRespStage = 0
    BY <1>1, <1>6, <2>1, PutAnswer
  <2>3. Count(Resp', "RANK") = 0
    BY <1>3, <2>2
  <2> QED BY <2>2, <2>3
<1>8. respData' \in Seq(Chunks) /\ Answers' \in Seq(Chunks) /\ Len(Answers') = Len(Answers) + 1
      /\ Len(Answers) = 0
  <2>1. respData \in Seq(Chunks) /\ dataIn \in Seq(Chunks)
    BY <1>0 DEF TypeOK
  <2>2. respData' \in Seq(Chunks) /\ Len(respData') = Len(respData) + 1
    BY <1>1, <1>3, <2>1, AppendProperties
  <2>3. Len(dataIn \o respData) = Len(dataIn) + Len(respData)
        /\ Len(dataIn \o respData') = Len(dataIn) + Len(respData')
        /\ dataIn \o respData' \in Seq(Chunks)
        /\ Len(dataIn) \in Nat /\ Len(respData) \in Nat
    BY <2>1, <2>2, ConcatProperties
  <2>4. Answers = dataIn \o respData /\ Answers' = dataIn \o respData'
    BY <1>1 DEF Answers
  <2>5. Len(Answers) = 0
    BY <1>0, <1>4 DEF RespInv
  <2> QED BY <2>2, <2>3, <2>4, <2>5
<1>9. TypeOK'
  <2>1. Len(toFPGA') <= NetDepth
    BY <1>0, <1>3, MpiConstants DEF TypeOK
  <2> QED BY <1>0, <1>1, <1>3, <1>7, <1>8, <2>1
      DEF TypeOK, fpgaVars, stageVars, serverVars, clientVars, Messages
<1>10. RespInv'
  <2>1. Len(Answers') = Count(Resp', "DATA") + Count(Resp', "ACK")
    BY <1>3, <1>7, <1>8
  <2>2. Count(CommandWords', "RECV0") + (IF mpeRecv' = "RECV0" THEN 1 ELSE 0) + Count(Resp', "RANK")
          = IF initStage' \in 1 .. 3 THEN 1 ELSE 0
    BY <1>0, <1>1, <1>2, <1>7 DEF RespInv
  <2>3. \E x \in {"RANK", "DATA", "ACK"} :
          /\ x = "RANK" <=> state' = "init"
          /\ Resp' = IF initStage' = 3 \/ recvRespStage' = 1 THEN <<x>> ELSE <<"HEADER", x>>
    BY <1>1, <1>3, <1>5, <1>7
  <2> QED BY <2>1, <2>2, <2>3 DEF RespInv
<1>11. HostInv' /\ WordInv' /\ CommandsWhole'
  BY <1>0, <1>1, <1>2 DEF HostInv, WordInv, CommandsWhole
<1>12. CountIn(toFPGA, AckMessages) = CountIn(toFPGA', AckMessages) + Count(Resp', "ACK")
       /\ CountIn(toFPGA', AckMessages) \in Nat
  <2>1. CountIn(toFPGA, AckMessages)
          = CountIn(Tail(toFPGA), AckMessages) + IF m \in AckMessages THEN 1 ELSE 0
    BY <1>1, <1>3, CountHead DEF m
  <2>2. CountIn(toFPGA', AckMessages) \in Nat
    BY <1>3, CountType
  <2> QED BY <1>1, <1>3, <1>7, <2>1, <2>2
<1>13. SendTokens' = SendTokens
  <2>1. Count(CommandWords, "SEND") \in Nat /\ Len(toHost) \in Nat /\ AtHost \in Nat
    BY <1>0, MpiTypes
  <2>2. Count(Resp', "ACK") \in Nat
    BY <1>7
  <2>3. SendTokens = Count(CommandWords, "SEND") + Len(toHost) + AtHost
                       + (CountIn(toFPGA', AckMessages) + Count(Resp', "ACK")) + 0
    BY <1>4, <1>12 DEF SendTokens
  <2>4. SendTokens' = Count(CommandWords, "SEND") + Len(toHost) + AtHost
                       + CountIn(toFPGA', AckMessages) + Count(Resp', "ACK")
    BY <1>1, <1>2 DEF SendTokens
  <2> QED BY <1>12, <2>1, <2>2, <2>3, <2>4
<1>14. RecvTokens' = RecvTokens
  <2>1. RecvTokens = 0 + 1 + 0 + 0
    BY <1>1, <1>4 DEF RecvTokens
  <2>2. RecvTokens' = 0 + 0 + Count(Resp', "DATA") + Count(Resp', "ACK")
    BY <1>1, <1>2, <1>4 DEF RecvTokens
  <2> QED BY <1>3, <1>7, <2>1, <2>2
<1> QED BY <1>1, <1>9, <1>10, <1>11, <1>13, <1>14, EngineFrame DEF MpiInv
-----------------------------------------------------------------------------
(* Steps of the FPGA's rules and of its client.                            *)

(* They leave host and network alone. *)
LEMMA FpgaFrame ==
  ASSUME MpiInv, UNCHANGED <<hostVars, netVars>>
  PROVE  /\ HostInv' /\ AtHost' = AtHost
         /\ UNCHANGED <<hpc, blocking, outgoing, incomingMessage, h2f, f2hGot>>
         /\ UNCHANGED <<outstandingReq, toHost, toFPGA>>
         /\ CommandWords' = CommandWords /\ Resp' = Resp => SendTokens' = SendTokens
         /\ CommandWords' = CommandWords /\ Resp' = Resp /\ mpeRecv' = mpeRecv
              => RecvTokens' = RecvTokens
<1>1. /\ UNCHANGED <<hpc, blocking, outgoing, incomingMessage, h2f, f2hGot>>
      /\ UNCHANGED <<outstandingReq, toHost, toFPGA>>
  BY DEF hostVars, netVars
<1>2. HostInv' /\ AtHost' = AtHost
  BY <1>1 DEF MpiInv, HostInv, AtHost
<1> QED BY <1>1, <1>2 DEF SendTokens, RecvTokens

LEMMA SyncInStep == ASSUME MpiInv, SyncDataIn \/ SyncCmdIn PROVE MpiInv'
<1>0. TypeOK /\ TokenInv /\ WordInv /\ CommandsWhole /\ RespInv
  BY DEF MpiInv
<1>1. /\ UNCHANGED <<hostVars, netVars>> /\ UNCHANGED fpgaVars
      /\ UNCHANGED <<mpeCmd, mpeData, mpeRecv, cmdOut, dataOut>>
      /\ UNCHANGED <<state, initStage, recvReqStage, recvRespStage, sendStage, sendServerState,
                     recvServerState, queueOwner>>
  BY DEF SyncDataIn, SyncCmdIn, outVars, fpgaVars, stageVars, serverVars
<1>2. UNCHANGED <<hpc, blocking, outgoing, incomingMessage, h2f, f2hGot>>
      /\ UNCHANGED <<outstandingReq, toHost, toFPGA>>
  BY <1>1, FpgaFrame
<1>3. CommandWords' = CommandWords
  BY <1>1 DEF CommandWords
<1>4. /\ dataIn \in Seq(Chunks) /\ respData \in Seq(Chunks)
      /\ cmdIn \in Seq(Responses) /\ respCmd \in Seq(Responses)
      /\ Len(dataIn) \in Nat /\ Len(cmdIn) \in Nat
  BY <1>0 DEF TypeOK
<1>5. /\ Resp' = Resp /\ Answers' = Answers
      /\ dataIn' \in Seq(Chunks) /\ respData' \in Seq(Chunks)
      /\ cmdIn' \in Seq(Responses) /\ respCmd' \in Seq(Responses)
      /\ Len(dataIn') \in 0 .. QueueDepth /\ Len(cmdIn') \in 0 .. QueueDepth
  <2>0. Len(dataIn) \in 0 .. QueueDepth /\ Len(cmdIn) \in 0 .. QueueDepth
    BY <1>0 DEF TypeOK
  <2>1. CASE SyncDataIn
    <3>1. /\ dataIn' = Append(dataIn, Head(respData)) /\ respData' = Tail(respData)
          /\ respData # << >> /\ Len(dataIn) < QueueDepth /\ cmdIn' = cmdIn /\ respCmd' = respCmd
      BY <2>1 DEF SyncDataIn
    <3>2. /\ dataIn' \in Seq(Chunks) /\ respData' \in Seq(Chunks) /\ Head(respData) \in Chunks
          /\ dataIn' \o respData' = dataIn \o respData
      BY <1>4, <3>1, MoveHead
    <3>3. Len(dataIn') = Len(dataIn) + 1
      BY <1>4, <3>1, <3>2, AppendProperties
    <3>4. Len(dataIn') \in 0 .. QueueDepth
      BY <1>4, <3>1, <3>3, MpiConstants
    <3> QED BY <1>4, <2>0, <3>1, <3>2, <3>4 DEF Resp, Answers
  <2>2. CASE SyncCmdIn
    <3>1. /\ cmdIn' = Append(cmdIn, Head(respCmd)) /\ respCmd' = Tail(respCmd)
          /\ respCmd # << >> /\ Len(cmdIn) < QueueDepth /\ dataIn' = dataIn /\ respData' = respData
      BY <2>2 DEF SyncCmdIn
    <3>2. /\ cmdIn' \in Seq(Responses) /\ respCmd' \in Seq(Responses) /\ Head(respCmd) \in Responses
          /\ cmdIn' \o respCmd' = cmdIn \o respCmd
      BY <1>4, <3>1, MoveHead
    <3>3. Len(cmdIn') = Len(cmdIn) + 1
      BY <1>4, <3>1, <3>2, AppendProperties
    <3>4. Len(cmdIn') \in 0 .. QueueDepth
      BY <1>4, <3>1, <3>3, MpiConstants
    <3> QED BY <1>4, <2>0, <3>1, <3>2, <3>4 DEF Resp, Answers
  <2> QED BY <2>1, <2>2
<1>6. TypeOK'
  BY <1>0, <1>1, <1>2, <1>5 DEF TypeOK, fpgaVars, stageVars, serverVars, clientVars
<1>7. WordInv' /\ CommandsWhole' /\ RespInv' /\ StageInv'
  BY <1>0, <1>1, <1>3, <1>5 DEF MpiInv, WordInv, CommandsWhole, RespInv, StageInv
<1>8. HostInv' /\ SendTokens' = SendTokens /\ RecvTokens' = RecvTokens
  BY <1>1, <1>3, <1>5, FpgaFrame
<1>9. TokenInv'
  BY <1>0, <1>1, <1>8 DEF TokenInv
<1> QED BY <1>6, <1>7, <1>8, <1>9 DEF MpiInv

LEMMA SyncCmdOutStep == ASSUME MpiInv, SyncCmdOut PROVE MpiInv'
<1>0. TypeOK /\ TokenInv /\ WordInv /\ CommandsWhole /\ RespInv
  BY DEF MpiInv
<1>1. /\ UNCHANGED <<hostVars, netVars>> /\ UNCHANGED fpgaVars
      /\ UNCHANGED <<mpeRecv, respCmd, respData, cmdIn, dataIn>>
      /\ UNCHANGED <<state, initStage, recvReqStage, recvRespStage, sendStage, sendServerState,
                     recvServerState, queueOwner>>
      /\ cmdOut # << >> /\ cmdOut' = Tail(cmdOut) /\ mpeCmd' = Append(mpeCmd, Head(cmdOut).word)
  BY DEF SyncCmdOut, inVars, fpgaVars, stageVars, serverVars
<1>2. UNCHANGED <<hpc, blocking, outgoing, incomingMessage, h2f, f2hGot>>
      /\ UNCHANGED <<outstandingReq, toHost, toFPGA>>
  BY <1>1, FpgaFrame
<1> DEFINE c == Head(cmdOut)
           word == c.word
<1>3. /\ mpeCmd \in Seq(Words) /\ cmdOut \in Seq(Commands) /\ c \in Commands
      /\ CommandWords = WordsOf(mpeCmd, cmdOut) /\ CommandWords' = WordsOf(mpeCmd', cmdOut')
  BY <1>0, <1>1, MpiTypes DEF CommandWords, WordsOf
<1>4. /\ CommandWords' = CommandWords /\ Resp' = Resp /\ Answers' = Answers
      /\ cmdOut' \in Seq(Commands) /\ Len(cmdOut') = Len(cmdOut) - 1 /\ mpeCmd' \in Seq(Words)
  BY <1>1, <1>3, WordsMove DEF Resp, Answers
<1>5. /\ c.withData <=> word = "SEND"
      /\ \A i \in DOMAIN cmdOut' : cmdOut'[i].withData <=> cmdOut'[i].word = "SEND"
  <2>1. 1 \in DOMAIN cmdOut /\ c = cmdOut[1] /\ DOMAIN cmdOut' = 1 .. Len(cmdOut) - 1
    BY <1>1, <1>3, <1>4
  <2>2. \A i \in 1 .. Len(cmdOut) - 1 : cmdOut'[i] = cmdOut[i + 1] /\ i + 1 \in DOMAIN cmdOut
    BY <1>1, <1>3, HeadTailProperties
  <2> QED BY <1>0, <2>1, <2>2 DEF WordInv
<1>6. Count(mpeCmd', "SEND") = Count(mpeCmd, "SEND") + IF word = "SEND" THEN 1 ELSE 0
  <2>1. word \in Words
    BY <1>3 DEF Commands
  <2> HIDE DEF c, word
  <2>2. Count(Append(mpeCmd, word), "SEND") = Count(mpeCmd, "SEND") + IF word = "SEND" THEN 1 ELSE 0
    BY <1>3, <2>1, CountPut
  <2>3. mpeCmd' = Append(mpeCmd, word)
    BY <1>1 DEF c, word
  <2> QED BY <2>2, <2>3
<1>7. /\ mpeData' \in Seq(Chunks) /\ dataOut' \in Seq(Chunks) /\ Len(dataOut') \in 0 .. QueueDepth
      /\ Len(mpeData') = Len(mpeData) + IF word = "SEND" THEN 1 ELSE 0
      /\ Len(mpeData') + Len(dataOut') = Len(mpeData) + Len(dataOut)
  <2>1. /\ mpeData \in Seq(Chunks) /\ dataOut \in Seq(Chunks) /\ Len(mpeData) \in Nat
        /\ Len(dataOut) \in Nat /\ Len(dataOut) <= QueueDepth
    BY <1>0 DEF TypeOK
  <2>2. CASE c.withData
    <3>1. /\ dataOut # << >> /\ dataOut' = Tail(dataOut)
          /\ mpeData' = Append(mpeData, Head(dataOut)) /\ word = "SEND"
      BY <1>5, <2>2 DEF SyncCmdOut
    <3>2. /\ dataOut' \in Seq(Chunks) /\ Len(dataOut') = Len(dataOut) - 1
          /\ mpeData' \in Seq(Chunks) /\ Len(mpeData') = Len(mpeData) + 1
          /\ Len(dataOut') \in Nat
      BY <2>1, <3>1, HeadTailProperties, AppendProperties, MoveHead
    <3> HIDE DEF c, word
    <3> QED BY <2>1, <3>1, <3>2, MpiConstants
  <2>3. CASE ~ c.withData
    <3>1. dataOut' = dataOut /\ mpeData' = mpeData /\ word # "SEND"
      BY <1>5, <2>3 DEF SyncCmdOut
    <3> HIDE DEF c, word
    <3> QED BY <2>1, <3>1, MpiConstants
  <2> QED BY <2>2, <2>3
<1> HIDE DEF c, word
<1>8. TypeOK'
  <2>1. Len(cmdOut') \in 0 .. QueueDepth
    <3>1. Len(cmdOut) \in 0 .. QueueDepth /\ Len(cmdOut') \in Nat
      BY <1>0, <1>4 DEF TypeOK
    <3> QED BY <1>4, <3>1, MpiConstants
  <2> QED BY <1>0, <1>1, <1>2, <1>4, <1>7, <2>1
      DEF TypeOK, fpgaVars, stageVars, serverVars, clientVars, Words, Commands
<1>9. WordInv' /\ RespInv' /\ StageInv'
  BY <1>0, <1>1, <1>4, <1>5 DEF MpiInv, WordInv, RespInv, StageInv
<1>10. CommandsWhole'
  <2>1. Count(mpeCmd', "SEND") = Len(mpeData')
    BY <1>0, <1>6, <1>7 DEF CommandsWhole
  <2>2. Count(CommandWords', "SEND") = Len(mpeData') + Len(dataOut')
    BY <1>0, <1>4, <1>7 DEF CommandsWhole
  <2> QED BY <1>0, <1>1, <1>4, <2>1, <2>2 DEF CommandsWhole
<1>11. HostInv' /\ SendTokens' = SendTokens /\ RecvTokens' = RecvTokens
  BY <1>1, <1>4, FpgaFrame
<1>12. TokenInv'
  BY <1>0, <1>1, <1>11 DEF TokenInv
<1> QED BY <1>8, <1>9, <1>10, <1>11, <1>12 DEF MpiInv

(* A command word put into its queue. *)
LEMMA PutWord ==
  ASSUME MpiInv, NEW w \in Words, NEW d \in BOOLEAN, CmdEnq(w, d), mpeCmd' = mpeCmd,
         d <=> w = "SEND"
  PROVE  /\ cmdOut' \in Seq(Commands) /\ Len(cmdOut') \in 0 .. QueueDepth
         /\ CommandWords' = Append(CommandWords, w) /\ CommandWords' \in Seq(Words)
         /\ CommandWords \in Seq(Words) /\ Whole(CommandWords)
         /\ Len(CommandWords) \in Nat /\ Len(CommandWords') = Len(CommandWords) + 1
         /\ \A i \in DOMAIN cmdOut' : cmdOut'[i].withData <=> cmdOut'[i].word = "SEND"
         /\ \A x : /\ Count(CommandWords', x) = Count(CommandWords, x) + IF w = x THEN 1 ELSE 0
                   /\ Count(CommandWords, x) \in Nat
<1> DEFINE r == [word |-> w, withData |-> d]
<1>1. /\ cmdOut \in Seq(Commands) /\ mpeCmd \in Seq(Words) /\ CommandWords \in Seq(Words)
      /\ CommandWords = WordsOf(mpeCmd, cmdOut) /\ Len(cmdOut) \in Nat
      /\ \A x : Count(CommandWords, x) \in Nat
  BY MpiTypes DEF MpiInv
<1>2. r \in Commands /\ cmdOut' = Append(cmdOut, r) /\ Len(cmdOut) < QueueDepth /\ r.word = w
  BY DEF CmdEnq, Commands
<1>3. CommandWords' = Append(CommandWords, w)
  <2>1. CommandWords' = WordsOf(mpeCmd, Append(cmdOut, r))
    BY <1>2 DEF CommandWords, WordsOf
  <2> QED BY <1>1, <1>2, <2>1, WordsPut
<1>4. /\ cmdOut' \in Seq(Commands) /\ Len(cmdOut') = Len(cmdOut) + 1
      /\ cmdOut'[Len(cmdOut) + 1] = r /\ \A i \in 1 .. Len(cmdOut) : cmdOut'[i] = cmdOut[i]
  BY <1>1, <1>2, AppendProperties
<1>5. Len(cmdOut') \in 0 .. QueueDepth
  BY <1>1, <1>2, <1>4, MpiConstants
<1>6. \A i \in DOMAIN cmdOut' : cmdOut'[i].withData <=> cmdOut'[i].word = "SEND"
  <2>1. DOMAIN cmdOut' = 1 .. Len(cmdOut) + 1 /\ DOMAIN cmdOut = 1 .. Len(cmdOut)
    BY <1>1, <1>4, LenProperties
  <2>2. \A i \in DOMAIN cmdOut : cmdOut[i].withData <=> cmdOut[i].word = "SEND"
    BY DEF MpiInv, WordInv
  <2>3. r.withData <=> r.word = "SEND"
    OBVIOUS
  <2> HIDE DEF r
  <2> QED BY <1>1, <1>4, <2>1, <2>2, <2>3
<1>7. CommandWords' \in Seq(Words) /\ Len(CommandWords') = Len(CommandWords) + 1
      /\ Len(CommandWords) \in Nat
  BY <1>1, <1>3, AppendProperties
<1>8. ASSUME NEW x
      PROVE  Count(Append(CommandWords, w), x) = Count(CommandWords, x) + IF w = x THEN 1 ELSE 0
  BY <1>1, CountPut
<1>9. Whole(CommandWords)
  BY DEF MpiInv, CommandsWhole, Whole
<1> QED BY <1>1, <1>3, <1>4, <1>5, <1>6, <1>7, <1>8, <1>9

(* An answer taken from its queue. *)
LEMMA TakeAnswer ==
  ASSUME MpiInv, CmdDeq, respCmd' = respCmd
  PROVE  /\ cmdIn' \in Seq(Responses) /\ Len(cmdIn') \in 0 .. QueueDepth
         /\ Resp # << >> /\ Head(Resp) = Head(cmdIn) /\ Resp' = Tail(Resp)
<1>1. /\ cmdIn \in Seq(Responses) /\ respCmd \in Seq(Responses) /\ Len(cmdIn) \in 0 .. QueueDepth
      /\ cmdIn # << >> /\ cmdIn' = Tail(cmdIn)
  BY DEF MpiInv, TypeOK, CmdDeq
<1>2. cmdIn' \in Seq(Responses) /\ Len(cmdIn') = Len(cmdIn) - 1 /\ Len(cmdIn') \in Nat
  BY <1>1, HeadTailProperties
<1>3. Len(cmdIn') \in 0 .. QueueDepth
  BY <1>1, <1>2, MpiConstants
<1>4. cmdIn \o respCmd # << >> /\ Head(cmdIn \o respCmd) = Head(cmdIn)
      /\ Tail(cmdIn \o respCmd) = Tail(cmdIn) \o respCmd
  BY <1>1, TakeFirst
<1> QED BY <1>1, <1>2, <1>3, <1>4 DEF Resp
LEMMA InitRequestStep == ASSUME MpiInv, CmdInitRequest PROVE MpiInv'
<1>0. TypeOK /\ StageInv /\ TokenInv /\ WordInv /\ CommandsWhole /\ RespInv
  BY DEF MpiInv
<1> DEFINE w == IF initStage = 0 THEN "RECV0" ELSE "ANY"
<1>1. /\ UNCHANGED <<hostVars, netVars>> /\ UNCHANGED mpeVars
      /\ UNCHANGED <<mpeCmd, mpeData, mpeRecv, respCmd, respData>>
      /\ UNCHANGED <<dataOut, cmdIn, dataIn, state, recvReqStage, recvRespStage, sendStage>>
      /\ UNCHANGED <<sendServerState, recvServerState, queueOwner, readBuffer, writeBuffer>>
      /\ UNCHANGED <<partial, h2fGot, f2h, f2hSent>>
      /\ CmdEnq(w, FALSE) /\ state = "init" /\ initStage \in {0, 1} /\ initStage' = initStage + 1
  BY DEF CmdInitRequest, FpgaRest, mpeVars, inVars, serverVars, clientVars
<1>2. UNCHANGED <<hpc, blocking, outgoing, incomingMessage, h2f, f2hGot>>
      /\ UNCHANGED <<outstandingReq, toHost, toFPGA>>
  BY <1>1, FpgaFrame
<1>3. /\ recvReqStage = 0 /\ recvRespStage = 0 /\ sendStage = 0
      /\ sendServerState = "idle" /\ recvServerState = "idle"
  BY <1>0, <1>1 DEF StageInv
<1>4. w \in Words /\ (FALSE <=> w = "SEND") /\ w # "RECV"
  BY DEF Words, Operations, Tags
<1>5. /\ cmdOut' \in Seq(Commands) /\ Len(cmdOut') \in 0 .. QueueDepth
      /\ CommandWords' = Append(CommandWords, w) /\ CommandWords \in Seq(Words)
      /\ Whole(CommandWords)
      /\ \A i \in DOMAIN cmdOut' : cmdOut'[i].withData <=> cmdOut'[i].word = "SEND"
      /\ \A x : /\ Count(CommandWords', x) = Count(CommandWords, x) + IF w = x THEN 1 ELSE 0
                /\ Count(CommandWords, x) \in Nat
  BY <1>1, <1>4, PutWord
<1>6. /\ Count(CommandWords', "SEND") = Count(CommandWords, "SEND")
      /\ Count(CommandWords', "RECV") = Count(CommandWords, "RECV")
      /\ Count(CommandWords', "RECV0") = Count(CommandWords, "RECV0") + IF initStage = 0 THEN 1 ELSE 0
      /\ Count(CommandWords, "RECV0") \in Nat
  BY <1>4, <1>5
<1>7. /\ Whole(CommandWords')
      /\ Len(CommandWords') % 2 = 1 <=> initStage' = 1
      /\ Len(CommandWords') % 2 = 1 => FinalOf(CommandWords') = "RECV0"
  <2>1. Len(CommandWords) % 2 = 1 <=> initStage = 1
    BY <1>0, <1>3 DEF CommandsWhole
  <2>2. Len(CommandWords) % 2 \in {0, 1}
    <3>1. Len(CommandWords) \in Nat
      BY <1>5
    <3> QED BY <3>1
  <2>3. CASE initStage = 0
    <3>1. w = "RECV0" /\ w \in Operations /\ Len(CommandWords) % 2 = 0 /\ initStage' = 1
      BY <1>1, <2>1, <2>2, <2>3 DEF Operations
    <3> HIDE DEF w
    <3> QED BY <1>5, <3>1, WholeOperation
  <2>4. CASE initStage = 1
    <3>1. w = "ANY" /\ w \in Tags /\ Len(CommandWords) % 2 = 1 /\ initStage' = 2
      BY <1>1, <2>1, <2>4 DEF Tags
    <3>2. FinalOf(CommandWords) = "RECV0"
      BY <1>0, <1>1, <3>1 DEF WordInv
    <3> HIDE DEF w
    <3> QED BY <1>5, <3>1, <3>2, WholeTag
  <2> QED BY <1>1, <2>3, <2>4
<1> HIDE DEF w
<1>8. Resp' = Resp /\ Answers' = Answers
  BY <1>1 DEF Resp, Answers
<1>9. initStage' \in 1 .. 2
  BY <1>1
<1>10. TypeOK'
  BY <1>0, <1>1, <1>2, <1>5, <1>9 DEF TypeOK, Commands, Words
<1>11. StageInv'
  BY <1>1, <1>3, <1>9 DEF StageInv
<1>12. WordInv'
  BY <1>1, <1>5, <1>7 DEF WordInv
<1>13. CommandsWhole'
  BY <1>0, <1>1, <1>3, <1>6, <1>7 DEF CommandsWhole, Whole
<1>14. RespInv'
  <2>1. Count(CommandWords, "RECV0") + (IF mpeRecv = "RECV0" THEN 1 ELSE 0) + Count(Resp, "RANK")
          = IF initStage = 0 THEN 0 ELSE 1
    BY <1>0, <1>1 DEF RespInv
  <2>2. Count(Resp, "RANK") \in Nat
    BY <1>0, MpiTypes
  <2>3. Count(CommandWords', "RECV0") + (IF mpeRecv' = "RECV0" THEN 1 ELSE 0) + Count(Resp', "RANK") = 1
    BY <1>1, <1>6, <1>8, <2>1, <2>2
  <2>4. initStage # 3 /\ initStage' # 3
    BY <1>1, <1>9
  <2> QED BY <1>0, <1>1, <1>8, <1>9, <2>3, <2>4 DEF RespInv
<1>15. HostInv' /\ AtHost' = AtHost
  BY <1>1, FpgaFrame
<1>16. SendTokens' = SendTokens /\ RecvTokens' = RecvTokens
  BY <1>1, <1>2, <1>6, <1>8, <1>15 DEF SendTokens, RecvTokens
<1>17. TokenInv'
  BY <1>0, <1>1, <1>16 DEF TokenInv
<1> QED BY <1>10, <1>11, <1>12, <1>13, <1>14, <1>15, <1>17 DEF MpiInv

LEMMA InitResponseStep == ASSUME MpiInv, CmdInitResponse PROVE MpiInv'
<1>0. TypeOK /\ StageInv /\ TokenInv /\ WordInv /\ CommandsWhole /\ RespInv
  BY DEF MpiInv
<1>1. /\ UNCHANGED <<hostVars, netVars>> /\ UNCHANGED mpeVars
      /\ UNCHANGED <<mpeCmd, mpeData, mpeRecv, respCmd, respData>>
      /\ UNCHANGED <<cmdOut, dataOut, dataIn, recvReqStage, recvRespStage, sendStage>>
      /\ UNCHANGED <<sendServerState, recvServerState, queueOwner, readBuffer, writeBuffer>>
      /\ UNCHANGED <<partial, h2fGot, f2h, f2hSent>>
      /\ CmdDeq /\ state = "init" /\ initStage \in {2, 3} /\ initStage' = initStage + 1
      /\ state' = IF initStage = 3 THEN "ready" ELSE "init"
  BY DEF CmdInitResponse, FpgaRest, mpeVars, outVars, serverVars, clientVars
<1>2. UNCHANGED <<hpc, blocking, outgoing, incomingMessage, h2f, f2hGot>>
      /\ UNCHANGED <<outstandingReq, toHost, toFPGA>>
  BY <1>1, FpgaFrame
<1>3. /\ recvReqStage = 0 /\ recvRespStage = 0 /\ sendStage = 0
      /\ sendServerState = "idle" /\ recvServerState = "idle"
  BY <1>0, <1>1 DEF StageInv
<1>4. cmdIn' \in Seq(Responses) /\ Len(cmdIn') \in 0 .. QueueDepth /\ Resp # << >>
      /\ Resp' = Tail(Resp)
  BY <1>1, TakeAnswer
<1>5. CommandWords' = CommandWords /\ Answers' = Answers
  BY <1>1 DEF CommandWords, Answers
<1>6. Resp = IF initStage = 3 THEN <<"RANK">> ELSE <<"HEADER", "RANK">>
  BY <1>0, <1>1, <1>3, <1>4 DEF RespInv
<1>7. Resp' = IF initStage = 3 THEN << >> ELSE <<"RANK">>
  BY <1>4, <1>6
<1>8. /\ \A x \in {"RANK", "DATA", "ACK"} : Count(Resp, x) = IF "RANK" = x THEN 1 ELSE 0
      /\ \A x \in {"RANK", "DATA", "ACK"} :
           Count(Resp', x) = IF initStage = 2 /\ "RANK" = x THEN 1 ELSE 0
  <2>1. ASSUME NEW x \in {"RANK", "DATA", "ACK"}
        PROVE  /\ Count(<<"RANK">>, x) = IF "RANK" = x THEN 1 ELSE 0
               /\ Count(<<"HEADER", "RANK">>, x) = IF "RANK" = x THEN 1 ELSE 0
               /\ Count(<< >>, x) = 0
    BY CountShort, CountNone
  <2>2. CASE initStage = 2
    <3>1. Resp = <<"HEADER", "RANK">> /\ Resp' = <<"RANK">>
      BY <1>6, <1>7, <2>2
    <3> QED BY <2>1, <2>2, <3>1
  <2>3. CASE initStage = 3
    <3>1. Resp = <<"RANK">> /\ Resp' = << >>
      BY <1>6, <1>7, <2>3
    <3> QED BY <2>1, <2>3, <3>1
  <2> QED BY <1>1, <2>2, <2>3
<1>9. /\ Count(Resp, "RANK") = 1 /\ Count(Resp, "DATA") = 0 /\ Count(Resp, "ACK") = 0
      /\ Count(Resp', "RANK") = (IF initStage = 2 THEN 1 ELSE 0)
      /\ Count(Resp', "DATA") = 0 /\ Count(Resp', "ACK") = 0
  BY <1>8
<1>10. TypeOK'
  BY <1>0, <1>1, <1>2, <1>4 DEF TypeOK
<1>11. StageInv'
  BY <1>1, <1>3 DEF StageInv
<1>12. Len(CommandWords) % 2 # 1
  BY <1>0, <1>1, <1>3 DEF CommandsWhole
<1>13. WordInv' /\ CommandsWhole'
  <2>1. initStage \notin {1} /\ initStage' \notin {1}
    BY <1>1
  <2> QED BY <1>0, <1>1, <1>5, <1>12, <2>1 DEF WordInv, CommandsWhole
<1>14. RespInv'
  <2>1. Count(CommandWords, "RECV0") + (IF mpeRecv = "RECV0" THEN 1 ELSE 0) = 0
    <3>0. initStage \in 1 .. 3
      BY <1>1
    <3>1. Count(CommandWords, "RECV0") + (IF mpeRecv = "RECV0" THEN 1 ELSE 0) + Count(Resp, "RANK") = 1
      BY <1>0, <3>0 DEF RespInv
    <3>2. Count(CommandWords, "RECV0") \in Nat
      BY <1>0, MpiTypes
    <3> QED BY <1>9, <3>1, <3>2
  <2>2. Count(CommandWords', "RECV0") + (IF mpeRecv' = "RECV0" THEN 1 ELSE 0) + Count(Resp', "RANK")
          = IF initStage' \in 1 .. 3 THEN 1 ELSE 0
    BY <1>1, <1>5, <1>9, <2>1
  <2>3. Len(Answers') = Count(Resp', "DATA") + Count(Resp', "ACK")
    BY <1>0, <1>5, <1>9 DEF RespInv
  <2>4. \/ Resp' = << >> /\ initStage' # 3 /\ recvRespStage' = 0
        \/ \E t \in {"RANK", "DATA", "ACK"} :
             /\ t = "RANK" <=> state' = "init"
             /\ Resp' = IF initStage' = 3 \/ recvRespStage' = 1 THEN <<t>> ELSE <<"HEADER", t>>
    BY <1>1, <1>3, <1>7
  <2> QED BY <2>2, <2>3, <2>4 DEF RespInv
<1>15. HostInv' /\ AtHost' = AtHost
  BY <1>1, FpgaFrame
<1>16. SendTokens' = SendTokens /\ RecvTokens' = RecvTokens
  <2>1. SendTokens' = SendTokens
    BY <1>2, <1>5, <1>9, <1>15 DEF SendTokens
  <2> QED BY <1>1, <1>5, <1>9, <2>1 DEF RecvTokens
<1>17. TokenInv'
  BY <1>0, <1>1, <1>16 DEF TokenInv
<1> QED BY <1>10, <1>11, <1>13, <1>14, <1>15, <1>17 DEF MpiInv

LEMMA RecvReqStep == ASSUME MpiInv, CmdRecvReq PROVE MpiInv'
<1>0. TypeOK /\ StageInv /\ TokenInv /\ WordInv /\ CommandsWhole /\ RespInv
  BY DEF MpiInv
<1> DEFINE w == IF recvReqStage = 0 THEN "RECV" ELSE "ANY"
<1>1. /\ UNCHANGED <<hostVars, netVars>> /\ UNCHANGED mpeVars
      /\ UNCHANGED <<mpeCmd, mpeData, mpeRecv, respCmd, respData>>
      /\ UNCHANGED <<dataOut, cmdIn, dataIn, state, initStage, recvRespStage, sendStage>>
      /\ UNCHANGED <<sendServerState, readBuffer, writeBuffer>>
      /\ UNCHANGED <<partial, h2fGot, f2h, f2hSent>>
      /\ CmdEnq(w, FALSE) /\ state = "ready" /\ recvServerState = "idle" /\ queueOwner # "send"
      /\ recvReqStage \in {0, 1}
      /\ recvReqStage = 0 =>
           recvReqStage' = 1 /\ queueOwner' = "recv" /\ recvServerState' = recvServerState
      /\ recvReqStage = 1 =>
           recvReqStage' = 0 /\ queueOwner' = "none" /\ recvServerState' = "busy"
  <2>1. /\ UNCHANGED <<hostVars, netVars, mpeVars>>
        /\ UNCHANGED <<mpeCmd, mpeData, mpeRecv, respCmd, respData>>
    BY DEF CmdRecvReq, FpgaRest, mpeVars
  <2>2. /\ UNCHANGED <<dataOut, cmdIn, dataIn, state, initStage, recvRespStage, sendStage>>
        /\ UNCHANGED <<sendServerState, readBuffer, writeBuffer>>
        /\ UNCHANGED <<partial, h2fGot, f2h, f2hSent>>
        /\ state = "ready" /\ recvServerState = "idle" /\ queueOwner # "send"
    BY DEF CmdRecvReq, inVars, clientVars
  <2>3. /\ recvReqStage = 0 =>
             recvReqStage' = 1 /\ queueOwner' = "recv" /\ recvServerState' = recvServerState
        /\ recvReqStage = 1 =>
             recvReqStage' = 0 /\ queueOwner' = "none" /\ recvServerState' = "busy"
    <3>1. IF recvReqStage = 0
          THEN recvReqStage' = 1 /\ queueOwner' = "recv" /\ UNCHANGED recvServerState
          ELSE recvReqStage' = 0 /\ queueOwner' = "none" /\ recvServerState' = "busy"
      BY DEF CmdRecvReq
    <3> QED BY <3>1
  <2>4. recvReqStage \in {0, 1}
    BY <1>0 DEF TypeOK
  <2>5. CmdEnq(w, FALSE)
    BY DEF CmdRecvReq
  <2> QED BY <2>1, <2>2, <2>3, <2>4, <2>5
<1>2. UNCHANGED <<hpc, blocking, outgoing, incomingMessage, h2f, f2hGot>>
      /\ UNCHANGED <<outstandingReq, toHost, toFPGA>>
  BY <1>1, FpgaFrame
<1>3. initStage = 4 /\ sendStage = 0 /\ recvRespStage = 0
  <2>1. initStage = 4
    BY <1>0, <1>1 DEF StageInv
  <2>2. sendStage \in {0, 1} /\ sendStage # 1
    BY <1>0, <1>1 DEF TypeOK, CommandsWhole
  <2>3. recvRespStage \in {0, 1} /\ recvRespStage # 1
    BY <1>0, <1>1 DEF TypeOK, StageInv
  <2> QED BY <2>1, <2>2, <2>3
<1>4. w \in Words /\ (FALSE <=> w = "SEND") /\ w # "RECV0"
  BY DEF Words, Operations, Tags
<1>5. /\ cmdOut' \in Seq(Commands) /\ Len(cmdOut') \in 0 .. QueueDepth
      /\ CommandWords' = Append(CommandWords, w) /\ CommandWords \in Seq(Words)
      /\ Whole(CommandWords)
      /\ \A i \in DOMAIN cmdOut' : cmdOut'[i].withData <=> cmdOut'[i].word = "SEND"
      /\ \A x : /\ Count(CommandWords', x) = Count(CommandWords, x) + IF w = x THEN 1 ELSE 0
                /\ Count(CommandWords, x) \in Nat
  BY <1>1, <1>4, PutWord
<1>6. /\ Count(CommandWords', "SEND") = Count(CommandWords, "SEND")
      /\ Count(CommandWords', "RECV0") = Count(CommandWords, "RECV0")
      /\ Count(CommandWords', "RECV") = Count(CommandWords, "RECV") + IF recvReqStage = 0 THEN 1 ELSE 0
      /\ Count(CommandWords, "RECV") \in Nat
  BY <1>4, <1>5
<1>7. /\ Whole(CommandWords')
      /\ Len(CommandWords') % 2 = 1 <=> recvReqStage' = 1
      /\ Len(CommandWords') % 2 = 1 => FinalOf(CommandWords') = "RECV"
  <2>1. Len(CommandWords) % 2 = 1 <=> recvReqStage = 1
    BY <1>0, <1>3 DEF CommandsWhole
  <2>2. Len(CommandWords) % 2 \in {0, 1}
    <3>1. Len(CommandWords) \in Nat
      BY <1>5
    <3> QED BY <3>1
  <2>3. CASE recvReqStage = 0
    <3>1. w = "RECV" /\ w \in Operations /\ Len(CommandWords) % 2 = 0 /\ recvReqStage' = 1
      BY <1>1, <2>1, <2>2, <2>3 DEF Operations
    <3> HIDE DEF w
    <3> QED BY <1>5, <3>1, WholeOperation
  <2>4. CASE recvReqStage = 1
    <3>1. w = "ANY" /\ w \in Tags /\ Len(CommandWords) % 2 = 1 /\ recvReqStage' = 0
      BY <1>1, <2>1, <2>4 DEF Tags
    <3>2. FinalOf(CommandWords) = "RECV"
      BY <1>0, <1>1, <2>4, <3>1 DEF WordInv
    <3> HIDE DEF w
    <3> QED BY <1>5, <3>1, <3>2, WholeTag
  <2> QED BY <1>1, <2>3, <2>4
<1> HIDE DEF w
<1>8. Resp' = Resp /\ Answers' = Answers
  BY <1>1 DEF Resp, Answers
<1>9. recvReqStage' \in {0, 1} /\ queueOwner' \in {"none", "recv"} /\ recvServerState' \in {"idle", "busy"}
  BY <1>1
<1>10. TypeOK'
  BY <1>0, <1>1, <1>2, <1>5, <1>9 DEF TypeOK, Commands, Words
<1>11. StageInv'
  BY <1>0, <1>1, <1>3 DEF StageInv
<1>12. WordInv'
  BY <1>1, <1>5, <1>7 DEF WordInv
<1>13. CommandsWhole'
  <2>1. queueOwner' = "send" <=> sendStage' = 1
    BY <1>1, <1>3, <1>9
  <2>2. queueOwner' = "recv" <=> recvReqStage' = 1
    BY <1>1
  <2> QED BY <1>0, <1>1, <1>3, <1>6, <1>7, <2>1, <2>2 DEF CommandsWhole, Whole
<1>14. RespInv'
  BY <1>0, <1>1, <1>6, <1>8 DEF RespInv
<1>15. HostInv' /\ AtHost' = AtHost
  BY <1>1, FpgaFrame
<1>16. SendTokens' = SendTokens
  BY <1>2, <1>6, <1>8, <1>15 DEF SendTokens
<1>17. RecvTokens' = RecvTokens + IF recvReqStage = 0 THEN 1 ELSE 0
  <2>1. Count(Resp, "DATA") \in Nat /\ Count(Resp, "ACK") \in Nat
    BY <1>0, MpiTypes
  <2> QED BY <1>1, <1>6, <1>8, <2>1 DEF RecvTokens
<1>18. TokenInv'
  <2>1. RecvTokens' = IF recvServerState' = "busy" \/ recvReqStage' = 1 THEN 1 ELSE 0
    BY <1>0, <1>1, <1>17 DEF TokenInv
  <2> QED BY <1>0, <1>1, <1>16, <2>1 DEF TokenInv
<1> QED BY <1>10, <1>11, <1>12, <1>13, <1>14, <1>15, <1>18 DEF MpiInv
LEMMA RecvRespHeaderStep == ASSUME MpiInv, CmdRecvRespHeader PROVE MpiInv'
<1>0. TypeOK /\ StageInv /\ TokenInv /\ WordInv /\ CommandsWhole /\ RespInv
  BY DEF MpiInv
<1>1. /\ UNCHANGED <<hostVars, netVars>> /\ UNCHANGED mpeVars
      /\ UNCHANGED <<mpeCmd, mpeData, mpeRecv, respCmd, respData>>
      /\ UNCHANGED <<cmdOut, dataOut, dataIn, state, initStage, recvReqStage, sendStage>>
      /\ UNCHANGED <<sendServerState, recvServerState, queueOwner, readBuffer, writeBuffer>>
      /\ UNCHANGED <<partial, h2fGot, f2h, f2hSent>>
      /\ CmdDeq /\ state = "ready" /\ recvServerState = "busy" /\ recvRespStage = 0
      /\ recvRespStage' = 1
  BY DEF CmdRecvRespHeader, FpgaRest, mpeVars, outVars, serverVars, clientVars
<1>2. UNCHANGED <<hpc, blocking, outgoing, incomingMessage, h2f, f2hGot>>
      /\ UNCHANGED <<outstandingReq, toHost, toFPGA>>
  BY <1>1, FpgaFrame
<1>3. initStage = 4
  BY <1>0, <1>1 DEF StageInv
<1>4. cmdIn' \in Seq(Responses) /\ Len(cmdIn') \in 0 .. QueueDepth /\ Resp # << >>
      /\ Resp' = Tail(Resp)
  BY <1>1, TakeAnswer
<1>5. CommandWords' = CommandWords /\ Answers' = Answers
  BY <1>1 DEF CommandWords, Answers
<1>6. PICK t \in {"RANK", "DATA", "ACK"} :
        (t = "RANK" <=> state = "init") /\ Resp = <<"HEADER", t>>
  BY <1>0, <1>1, <1>3, <1>4 DEF RespInv
<1>7. Resp' = <<t>>
  BY <1>4, <1>6
<1>8. ASSUME NEW x \in {"RANK", "DATA", "ACK"} PROVE Count(Resp', x) = Count(Resp, x)
  BY <1>6, <1>7, CountShort
<1>9. /\ Count(Resp', "RANK") = Count(Resp, "RANK") /\ Count(Resp', "DATA") = Count(Resp, "DATA")
      /\ Count(Resp', "ACK") = Count(Resp, "ACK")
  BY <1>8
<1>10. TypeOK'
  BY <1>0, <1>1, <1>2, <1>4 DEF TypeOK
<1>11. StageInv'
  BY <1>0, <1>1 DEF StageInv
<1>12. WordInv' /\ CommandsWhole'
  BY <1>0, <1>1, <1>5 DEF WordInv, CommandsWhole
<1>13. RespInv'
  BY <1>0, <1>1, <1>5, <1>6, <1>7, <1>9 DEF RespInv
<1>14. HostInv' /\ AtHost' = AtHost
  BY <1>1, FpgaFrame
<1>15. SendTokens' = SendTokens /\ RecvTokens' = RecvTokens
  BY <1>1, <1>2, <1>5, <1>9, <1>14 DEF SendTokens, RecvTokens
<1>16. TokenInv'
  BY <1>0, <1>1, <1>15 DEF TokenInv
<1> QED BY <1>10, <1>11, <1>12, <1>13, <1>14, <1>16 DEF MpiInv

(* The last of an odd number of words counts. *)
LEMMA FinalCounts ==
  ASSUME NEW q \in Seq(Words), Len(q) # 0
  PROVE  Count(q, FinalOf(q)) >= 1
<1> DEFINE I == {i \in DOMAIN q : q[i] \in {FinalOf(q)}}
<1>1. Len(q) \in I
  BY DEF FinalOf
<1>2. IsFiniteSet(I) /\ Count(q, FinalOf(q)) = Cardinality(I)
  BY CountType, CountIsCountIn DEF CountIn
<1> HIDE DEF I
<1>3. Cardinality(I) # 0 /\ Cardinality(I) \in Nat
  BY <1>1, <1>2, FS_EmptySet, FS_CardinalityType
<1> QED BY <1>2, <1>3

LEMMA RecvRespTagStep == ASSUME MpiInv, CmdRecvRespTag PROVE MpiInv'
<1>0. TypeOK /\ StageInv /\ TokenInv /\ WordInv /\ CommandsWhole /\ RespInv
  BY DEF MpiInv
<1> DEFINE t == Head(cmdIn)
<1>1. /\ UNCHANGED <<hostVars, netVars>> /\ UNCHANGED mpeVars
      /\ UNCHANGED <<mpeCmd, mpeData, mpeRecv, respCmd, respData>>
      /\ UNCHANGED <<cmdOut, dataOut, state, initStage, recvReqStage, sendStage>>
      /\ UNCHANGED <<queueOwner, writeBuffer>>
      /\ UNCHANGED <<partial, h2fGot, f2h, f2hSent>>
      /\ CmdDeq /\ state = "ready" /\ recvServerState = "busy" /\ recvRespStage = 1
      /\ recvRespStage' = 0 /\ recvServerState' = "idle"
      /\ dataIn # << >> /\ dataIn' = Tail(dataIn)
  BY DEF CmdRecvRespTag, FpgaRest, mpeVars, outVars, clientVars
<1>2. UNCHANGED <<hpc, blocking, outgoing, incomingMessage, h2f, f2hGot>>
      /\ UNCHANGED <<outstandingReq, toHost, toFPGA>>
  BY <1>1, FpgaFrame
<1>3. initStage = 4 /\ recvReqStage = 0 /\ sendStage \in {0, 1}
  <2>1. initStage = 4 /\ recvReqStage # 1
    BY <1>0, <1>1 DEF StageInv
  <2>2. recvReqStage \in {0, 1} /\ sendStage \in {0, 1}
    BY <1>0 DEF TypeOK
  <2> QED BY <2>1, <2>2
<1>4. cmdIn' \in Seq(Responses) /\ Len(cmdIn') \in 0 .. QueueDepth /\ Resp # << >>
      /\ Resp' = Tail(Resp) /\ t = Head(Resp)
  BY <1>1, TakeAnswer
<1>5. CommandWords' = CommandWords
  BY <1>1 DEF CommandWords
<1>6. Resp = <<t>> /\ t \in {"DATA", "ACK"}
  <2>1. PICK x \in {"RANK", "DATA", "ACK"} :
          (x = "RANK" <=> state = "init") /\ Resp = <<x>>
    BY <1>0, <1>1, <1>4 DEF RespInv
  <2>2. t = x
    BY <1>4, <2>1
  <2> QED BY <1>1, <2>1, <2>2
<1>7. Resp' = << >>
  BY <1>4, <1>6
<1>8. (IF t = "ACK" THEN sendServerState' = "idle" /\ readBuffer' = readBuffer
       ELSE /\ sendServerState' = sendServerState /\ Len(readBuffer) < QueueDepth
            /\ readBuffer' = Append(readBuffer, Head(dataIn)))
  BY DEF CmdRecvRespTag
<1> HIDE DEF t
<1>9. /\ Count(Resp, "RANK") = 0 /\ Count(Resp', "RANK") = 0
      /\ Count(Resp', "DATA") = 0 /\ Count(Resp', "ACK") = 0
      /\ Count(Resp, "DATA") = (IF t = "ACK" THEN 0 ELSE 1)
      /\ Count(Resp, "ACK") = (IF t = "ACK" THEN 1 ELSE 0)
  <2>1. ASSUME NEW x \in {"RANK", "DATA", "ACK"}
        PROVE  Count(Resp', x) = 0 /\ Count(Resp, x) = IF t = x THEN 1 ELSE 0
    BY <1>6, <1>7, CountShort, CountNone
  <2>2. t # "RANK" /\ (t = "ACK" <=> t # "DATA")
    BY <1>6
  <2> QED BY <2>1, <2>2
<1>10. /\ dataIn' \in Seq(Chunks) /\ Len(dataIn') \in 0 .. QueueDepth
       /\ Head(dataIn) \in Chunks /\ Len(Answers') = 0
  <2>1. dataIn \in Seq(Chunks) /\ respData \in Seq(Chunks) /\ Len(dataIn) \in 0 .. QueueDepth
    BY <1>0 DEF TypeOK
  <2>2. dataIn' \in Seq(Chunks) /\ Head(dataIn) \in Chunks /\ Len(dataIn') = Len(dataIn) - 1
        /\ Len(dataIn') \in Nat
    BY <1>1, <2>1, HeadTailProperties
  <2>3. Len(dataIn') \in 0 .. QueueDepth
    BY <2>1, <2>2, MpiConstants
  <2>4. Len(dataIn) + Len(respData) = 1
    <3>1. Len(Answers) = 1
      BY <1>0, <1>9 DEF RespInv
    <3>2. Len(Answers) = Len(dataIn) + Len(respData)
      BY <2>1, ConcatProperties DEF Answers
    <3> QED BY <3>1, <3>2
  <2>5. Len(Answers') = Len(dataIn') + Len(respData)
    <3>1. Answers' = dataIn' \o respData
      BY <1>1 DEF Answers
    <3>2. Len(dataIn' \o respData) = Len(dataIn') + Len(respData)
      BY <2>1, <2>2, ConcatProperties
    <3> QED BY <3>1, <3>2
  <2>6. Len(respData) \in Nat
    BY <2>1
  <2>7. Len(dataIn') + Len(respData) = 0
    BY <2>1, <2>2, <2>4, <2>6
  <2> QED BY <2>2, <2>3, <2>5, <2>7
<1>11. readBuffer' \in Seq(Chunks) /\ Len(readBuffer') \in 0 .. QueueDepth
  <2>1. readBuffer \in Seq(Chunks) /\ Len(readBuffer) \in 0 .. QueueDepth
    BY <1>0 DEF TypeOK
  <2>2. CASE t = "ACK"
    BY <1>8, <2>1, <2>2
  <2>3. CASE t # "ACK"
    <3>1. readBuffer' \in Seq(Chunks) /\ Len(readBuffer') = Len(readBuffer) + 1
          /\ Len(readBuffer) < QueueDepth
      BY <1>8, <1>10, <2>1, <2>3, AppendProperties
    <3> QED BY <2>1, <3>1, MpiConstants
  <2> QED BY <2>2, <2>3
<1>12. sendServerState' \in {"idle", "busy"}
  BY <1>0, <1>8 DEF TypeOK
<1>13. TypeOK'
  BY <1>0, <1>1, <1>2, <1>4, <1>10, <1>11, <1>12 DEF TypeOK
<1>14. StageInv'
  <2>1. sendStage = 1 => sendServerState' = "idle"
    BY <1>0, <1>8 DEF StageInv
  <2> QED BY <1>1, <1>3, <2>1 DEF StageInv
<1>15. WordInv' /\ CommandsWhole'
  BY <1>0, <1>1, <1>5 DEF WordInv, CommandsWhole
<1>16. RespInv'
  <2>1. Count(CommandWords', "RECV0") + (IF mpeRecv' = "RECV0" THEN 1 ELSE 0) + Count(Resp', "RANK")
          = IF initStage' \in 1 .. 3 THEN 1 ELSE 0
    BY <1>0, <1>1, <1>5, <1>9 DEF RespInv
  <2>2. Len(Answers') = Count(Resp', "DATA") + Count(Resp', "ACK")
    BY <1>9, <1>10
  <2>3. Resp' = << >> /\ initStage' # 3 /\ recvRespStage' = 0
    BY <1>1, <1>3, <1>7
  <2> QED BY <2>1, <2>2, <2>3 DEF RespInv
<1>17. HostInv' /\ AtHost' = AtHost
  BY <1>1, FpgaFrame
<1>18. /\ Count(CommandWords, "SEND") \in Nat /\ Len(toHost) \in Nat /\ AtHost \in Nat
       /\ CountIn(toFPGA, AckMessages) \in Nat /\ Count(CommandWords, "RECV") \in Nat
  BY <1>0, MpiTypes
<1>19. SendTokens' = SendTokens - Count(Resp, "ACK")
  BY <1>2, <1>5, <1>9, <1>17, <1>18 DEF SendTokens
<1>20. RecvTokens' = RecvTokens - 1
  BY <1>1, <1>5, <1>9, <1>18 DEF RecvTokens
<1>21. RecvTokens' = IF recvServerState' = "busy" \/ recvReqStage' = 1 THEN 1 ELSE 0
  BY <1>0, <1>1, <1>3, <1>20 DEF TokenInv
<1>22. SendTokens' = IF sendServerState' = "busy" \/ sendStage' = 1 THEN 1 ELSE 0
  <2>1. CASE t # "ACK"
    <3>1. SendTokens \in Nat
      BY <1>0, MpiTypes
    <3>2. SendTokens' = SendTokens
      BY <1>9, <1>19, <2>1, <3>1
    <3>3. sendServerState' = sendServerState /\ sendStage' = sendStage
      BY <1>1, <1>8, <2>1
    <3> QED BY <1>0, <3>2, <3>3 DEF TokenInv
  <2>2. CASE t = "ACK"
    <3>1. SendTokens >= 1 + Count(CommandWords, "SEND")
      BY <1>9, <1>18, <2>2 DEF SendTokens
    <3>2. SendTokens = 1 /\ Count(CommandWords, "SEND") = 0
      BY <1>0, <1>18, <3>1 DEF TokenInv
    <3>3. sendStage = 0
      <4> SUFFICES ASSUME sendStage = 1 PROVE FALSE
        BY <1>3
      <4>1. Len(CommandWords) % 2 = 1 /\ CommandWords \in Seq(Words)
        BY <1>0, MpiTypes DEF CommandsWhole
      <4>2. FinalOf(CommandWords) = "SEND"
        BY <1>0, <1>1, <1>3, <4>1 DEF WordInv
      <4>3. Len(CommandWords) # 0
        BY <4>1
      <4>4. Count(CommandWords, "SEND") >= 1
        BY <4>1, <4>2, <4>3, FinalCounts
      <4> QED BY <3>2, <4>4
    <3> QED BY <1>1, <1>8, <1>9, <1>19, <2>2, <3>2, <3>3
  <2> QED BY <2>1, <2>2
<1>23. TokenInv'
  BY <1>21, <1>22 DEF TokenInv
<1> QED BY <1>13, <1>14, <1>15, <1>16, <1>17, <1>23 DEF MpiInv
LEMMA SendStep == ASSUME MpiInv, CmdSend PROVE MpiInv'
<1>0. TypeOK /\ StageInv /\ TokenInv /\ WordInv /\ CommandsWhole /\ RespInv
  BY DEF MpiInv
<1> DEFINE w == IF sendStage = 0 THEN "SEND" ELSE "DATA"
           d == sendStage = 0
<1>1. /\ UNCHANGED <<hostVars, netVars>> /\ UNCHANGED mpeVars
      /\ UNCHANGED <<mpeCmd, mpeData, mpeRecv, respCmd, respData>>
      /\ UNCHANGED <<cmdIn, dataIn, state, initStage, recvReqStage, recvRespStage>>
      /\ UNCHANGED <<recvServerState, readBuffer>>
      /\ UNCHANGED <<partial, h2fGot, f2h, f2hSent>>
      /\ state = "ready" /\ sendServerState = "idle" /\ queueOwner # "recv"
  BY DEF CmdSend, FpgaRest, mpeVars, inVars, clientVars
<1>2. /\ sendStage = 0 =>
           /\ sendStage' = 1 /\ queueOwner' = "send" /\ sendServerState' = sendServerState
           /\ writeBuffer # << >> /\ Len(dataOut) < QueueDepth
           /\ dataOut' = Append(dataOut, Head(writeBuffer)) /\ writeBuffer' = Tail(writeBuffer)
      /\ sendStage # 0 =>
           /\ sendStage' = 0 /\ queueOwner' = "none" /\ sendServerState' = "busy"
           /\ dataOut' = dataOut /\ writeBuffer' = writeBuffer
  <2>1. IF sendStage = 0
        THEN /\ sendStage' = 1 /\ queueOwner' = "send" /\ UNCHANGED sendServerState
             /\ writeBuffer # << >> /\ Len(dataOut) < QueueDepth
             /\ dataOut' = Append(dataOut, Head(writeBuffer)) /\ writeBuffer' = Tail(writeBuffer)
        ELSE /\ sendStage' = 0 /\ queueOwner' = "none" /\ sendServerState' = "busy"
             /\ UNCHANGED <<dataOut, writeBuffer>>
    BY DEF CmdSend
  <2> QED BY <2>1
<1>3. CmdEnq(w, d)
  <2>1. IF sendStage = 0 THEN CmdEnq("SEND", TRUE) ELSE CmdEnq("DATA", FALSE)
    BY DEF CmdSend
  <2>2. CASE sendStage = 0
    <3>1. w = "SEND" /\ d = TRUE
      BY <2>2
    <3> QED BY <2>1, <2>2, <3>1
  <2>3. CASE sendStage # 0
    <3>1. w = "DATA" /\ d = FALSE
      BY <2>3
    <3> QED BY <2>1, <2>3, <3>1
  <2> QED BY <2>2, <2>3
<1>4. UNCHANGED <<hpc, blocking, outgoing, incomingMessage, h2f, f2hGot>>
      /\ UNCHANGED <<outstandingReq, toHost, toFPGA>>
  BY <1>1, FpgaFrame
<1>5. initStage = 4 /\ recvReqStage = 0 /\ sendStage \in {0, 1}
  <2>1. initStage = 4
    BY <1>0, <1>1 DEF StageInv
  <2>2. recvReqStage # 1
    BY <1>0, <1>1 DEF CommandsWhole
  <2>3. recvReqStage \in {0, 1} /\ sendStage \in {0, 1}
    BY <1>0 DEF TypeOK
  <2> QED BY <2>1, <2>2, <2>3
<1>6. w \in Words /\ d \in BOOLEAN /\ (d <=> w = "SEND") /\ w # "RECV0" /\ w # "RECV"
  BY DEF Words, Operations, Tags
<1>7. /\ cmdOut' \in Seq(Commands) /\ Len(cmdOut') \in 0 .. QueueDepth
      /\ CommandWords' = Append(CommandWords, w) /\ CommandWords \in Seq(Words)
      /\ Whole(CommandWords)
      /\ \A i \in DOMAIN cmdOut' : cmdOut'[i].withData <=> cmdOut'[i].word = "SEND"
      /\ \A x : /\ Count(CommandWords', x) = Count(CommandWords, x) + IF w = x THEN 1 ELSE 0
                /\ Count(CommandWords, x) \in Nat
  <2> HIDE DEF d, w
  <2> QED BY <1>1, <1>3, <1>6, PutWord
<1>8. /\ Count(CommandWords', "RECV") = Count(CommandWords, "RECV")
      /\ Count(CommandWords', "RECV0") = Count(CommandWords, "RECV0")
      /\ Count(CommandWords', "SEND") = Count(CommandWords, "SEND") + IF sendStage = 0 THEN 1 ELSE 0
      /\ Count(CommandWords, "SEND") \in Nat
  BY <1>6, <1>7
<1>9. /\ Whole(CommandWords')
      /\ Len(CommandWords') % 2 = 1 <=> sendStage' = 1
      /\ Len(CommandWords') % 2 = 1 => FinalOf(CommandWords') = "SEND"
  <2>1. Len(CommandWords) % 2 = 1 <=> sendStage = 1
    BY <1>0, <1>5 DEF CommandsWhole
  <2>2. Len(CommandWords) % 2 \in {0, 1}
    <3>1. Len(CommandWords) \in Nat
      BY <1>7
    <3> QED BY <3>1
  <2>3. CASE sendStage = 0
    <3>1. w = "SEND" /\ w \in Operations /\ Len(CommandWords) % 2 = 0 /\ sendStage' = 1
      BY <1>2, <2>1, <2>2, <2>3 DEF Operations
    <3> HIDE DEF w
    <3> QED BY <1>7, <3>1, WholeOperation
  <2>4. CASE sendStage = 1
    <3>1. w = "DATA" /\ w \in Tags /\ Len(CommandWords) % 2 = 1 /\ sendStage' = 0
      BY <1>2, <2>1, <2>4 DEF Tags
    <3>2. FinalOf(CommandWords) = "SEND"
      BY <1>0, <1>1, <1>5, <3>1 DEF WordInv
    <3> HIDE DEF w
    <3> QED BY <1>7, <3>1, <3>2, WholeTag
  <2> QED BY <1>5, <2>3, <2>4
<1> HIDE DEF w, d
<1>10. Resp' = Resp /\ Answers' = Answers
  BY <1>1 DEF Resp, Answers
<1>11. sendStage' \in {0, 1} /\ queueOwner' \in {"none", "send"} /\ sendServerState' \in {"idle", "busy"}
  BY <1>1, <1>2
<1>12. /\ dataOut' \in Seq(Chunks) /\ Len(dataOut') \in 0 .. QueueDepth
       /\ writeBuffer' \in Seq(Chunks) /\ Len(writeBuffer') \in 0 .. QueueDepth
       /\ Len(dataOut') = Len(dataOut) + (IF sendStage = 0 THEN 1 ELSE 0)
  <2>1. /\ dataOut \in Seq(Chunks) /\ writeBuffer \in Seq(Chunks)
        /\ Len(dataOut) \in 0 .. QueueDepth /\ Len(writeBuffer) \in 0 .. QueueDepth
    BY <1>0 DEF TypeOK
  <2>2. CASE sendStage = 0
    <3>1. /\ writeBuffer # << >> /\ Len(dataOut) < QueueDepth
          /\ dataOut' = Append(dataOut, Head(writeBuffer)) /\ writeBuffer' = Tail(writeBuffer)
      BY <1>2, <2>2
    <3>2. /\ Head(writeBuffer) \in Chunks /\ writeBuffer' \in Seq(Chunks)
           /\ Len(writeBuffer') = Len(writeBuffer) - 1 /\ Len(writeBuffer') \in Nat
      BY <2>1, <3>1, HeadTailProperties
    <3>3. dataOut' \in Seq(Chunks) /\ Len(dataOut') = Len(dataOut) + 1
      BY <2>1, <3>1, <3>2, AppendProperties
    <3>4. Len(dataOut') \in 0 .. QueueDepth /\ Len(writeBuffer') \in 0 .. QueueDepth
      BY <2>1, <3>1, <3>2, <3>3, MpiConstants
    <3> QED BY <2>2, <3>2, <3>3, <3>4
  <2>3. CASE sendStage # 0
    <3>1. dataOut' = dataOut /\ writeBuffer' = writeBuffer
      BY <1>2, <2>3
    <3>2. Len(dataOut') = Len(dataOut) + 0
      BY <2>1, <3>1, MpiConstants
    <3> QED BY <2>1, <2>3, <3>1, <3>2
  <2> QED BY <2>2, <2>3
<1>13. TypeOK'
  BY <1>0, <1>1, <1>4, <1>7, <1>11, <1>12 DEF TypeOK, Commands, Words
<1>14. StageInv'
  <2>1. sendStage' = 1 => sendServerState' = "idle"
    BY <1>1, <1>2
  <2> QED BY <1>0, <1>1, <1>5, <2>1 DEF StageInv
<1>15. WordInv'
  BY <1>1, <1>5, <1>7, <1>9 DEF WordInv
<1>16. CommandsWhole'
  <2>1. queueOwner' = "send" <=> sendStage' = 1
    BY <1>2, <1>5
  <2>2. queueOwner' # "recv" /\ recvReqStage' # 1 /\ initStage' # 1
    BY <1>1, <1>5, <1>11
  <2>3. Count(mpeCmd', "SEND") = Len(mpeData')
    BY <1>0, <1>1 DEF CommandsWhole
  <2>4. Count(CommandWords', "SEND") = Len(mpeData') + Len(dataOut')
    <3>1. Count(CommandWords, "SEND") = Len(mpeData) + Len(dataOut) /\ Len(mpeData) \in Nat
          /\ Len(dataOut) \in Nat
      BY <1>0 DEF CommandsWhole, TypeOK
    <3> QED BY <1>1, <1>8, <1>12, <3>1
  <2> QED BY <1>9, <2>1, <2>2, <2>3, <2>4 DEF CommandsWhole, Whole
<1>17. RespInv'
  BY <1>0, <1>1, <1>8, <1>10 DEF RespInv
<1>18. HostInv' /\ AtHost' = AtHost
  BY <1>1, FpgaFrame
<1>19. RecvTokens' = RecvTokens
  BY <1>1, <1>8, <1>10 DEF RecvTokens
<1>20. SendTokens' = SendTokens + IF sendStage = 0 THEN 1 ELSE 0
  <2>1. /\ Count(Resp, "ACK") \in Nat /\ Len(toHost) \in Nat /\ AtHost \in Nat
        /\ CountIn(toFPGA, AckMessages) \in Nat
    BY <1>0, MpiTypes
  <2> QED BY <1>4, <1>8, <1>10, <1>18, <2>1 DEF SendTokens
<1>21. TokenInv'
  <2>1. SendTokens' = IF sendServerState' = "busy" \/ sendStage' = 1 THEN 1 ELSE 0
    BY <1>0, <1>1, <1>2, <1>5, <1>20 DEF TokenInv
  <2> QED BY <1>0, <1>1, <1>19, <2>1 DEF TokenInv
<1> QED BY <1>13, <1>14, <1>15, <1>16, <1>17, <1>18, <1>21 DEF MpiInv

LEMMA ClientStep == ASSUME MpiInv, ClientRead \/ ClientWrite PROVE MpiInv'
<1>0. TypeOK /\ TokenInv /\ WordInv /\ CommandsWhole /\ RespInv
  BY DEF MpiInv
<1>1. /\ UNCHANGED <<hostVars, netVars>> /\ UNCHANGED mpeVars
      /\ UNCHANGED <<mpeCmd, mpeData, mpeRecv, respCmd, respData>>
      /\ UNCHANGED <<cmdOut, dataOut, cmdIn, dataIn>>
      /\ UNCHANGED <<state, initStage, recvReqStage, recvRespStage, sendStage, sendServerState,
                     recvServerState, queueOwner>>
  BY DEF ClientRead, ClientWrite, FpgaRest, mpeVars, inVars, outVars, stageVars, serverVars
<1>2. UNCHANGED <<hpc, blocking, outgoing, incomingMessage, h2f, f2hGot>>
      /\ UNCHANGED <<outstandingReq, toHost, toFPGA>>
  BY <1>1, FpgaFrame
<1>3. CommandWords' = CommandWords /\ Resp' = Resp /\ Answers' = Answers
  BY <1>1 DEF CommandWords, Resp, Answers
<1>4. /\ readBuffer' \in Seq(Chunks) /\ Len(readBuffer') \in 0 .. QueueDepth
      /\ writeBuffer' \in Seq(Chunks) /\ Len(writeBuffer') \in 0 .. QueueDepth
      /\ partial' \in Seq(Chunks) /\ h2fGot' \in Seq(Seq(Chunks))
      /\ f2h' \in Seq(F2HPayloads) /\ f2hSent' \in Seq(Chunks)
  <2>0. /\ readBuffer \in Seq(Chunks) /\ writeBuffer \in Seq(Chunks) /\ partial \in Seq(Chunks)
        /\ h2fGot \in Seq(Seq(Chunks)) /\ f2h \in Seq(F2HPayloads) /\ f2hSent \in Seq(Chunks)
        /\ Len(readBuffer) \in 0 .. QueueDepth /\ Len(writeBuffer) \in 0 .. QueueDepth
    BY <1>0 DEF TypeOK
  <2>1. CASE ClientRead
    <3> DEFINE chunks == Append(partial, Head(readBuffer))
    <3>1. /\ readBuffer # << >> /\ readBuffer' = Tail(readBuffer)
          /\ UNCHANGED <<writeBuffer, f2h, f2hSent>>
      BY <2>1 DEF ClientRead
    <3>2. /\ readBuffer' \in Seq(Chunks) /\ Head(readBuffer) \in Chunks
          /\ Len(readBuffer') = Len(readBuffer) - 1 /\ Len(readBuffer') \in Nat
      BY <2>0, <3>1, HeadTailProperties
    <3>3. Len(readBuffer') \in 0 .. QueueDepth
      BY <2>0, <3>2, MpiConstants
    <3>4. chunks \in Seq(Chunks)
      BY <2>0, <3>2, AppendProperties
    <3>5. \/ h2fGot' = Append(h2fGot, chunks) /\ partial' = << >>
          \/ partial' = chunks /\ h2fGot' = h2fGot
      BY <2>1 DEF ClientRead
    <3> HIDE DEF chunks
    <3>6. partial' \in Seq(Chunks) /\ h2fGot' \in Seq(Seq(Chunks))
      <4> DEFINE T == Seq(Chunks)
      <4>1. h2fGot \in Seq(T) /\ chunks \in T /\ partial \in T
        BY <2>0, <3>4
      <4>2. << >> \in Seq(Chunks)
        OBVIOUS
      <4>3. << >> \in T
        BY <4>2
      <4> HIDE DEF T
      <4>4. Append(h2fGot, chunks) \in Seq(T)
        BY <4>1, AppendProperties
      <4>5. partial' \in T /\ h2fGot' \in Seq(T)
        BY <3>5, <4>1, <4>3, <4>4
      <4> QED BY <4>5 DEF T
    <3> QED BY <2>0, <3>1, <3>2, <3>3, <3>6
  <2>2. CASE ClientWrite
    <3> DEFINE last == f2hSent[Len(f2hSent)]
               chunk == IF f2hSent = << >> THEN <<1, 0>>
                        ELSE IF last[2] < f2h[last[1]] THEN <<last[1], last[2] + 1>>
                        ELSE <<last[1] + 1, 0>>
    <3>1. /\ Len(writeBuffer) < QueueDepth
          /\ writeBuffer' = Append(writeBuffer, chunk) /\ f2hSent' = Append(f2hSent, chunk)
          /\ UNCHANGED <<partial, h2fGot, readBuffer>>
      BY <2>2 DEF ClientWrite
    <3>2. IF chunk[2] # 0 THEN UNCHANGED f2h
          ELSE /\ chunk[1] <= MaxF2H
               /\ \E payload \in F2HPayloads : f2h' = Append(f2h, payload)
      BY <2>2 DEF ClientWrite
    <3>3. f2hSent # << >> => last \in Chunks
      BY <2>0
    <3>4. f2hSent # << >> => last[1] \in 0 .. MaxH2F + MaxF2H /\ last[2] \in Nat
      BY <3>3 DEF Chunks
    <3> HIDE DEF last
    <3>5. chunk \in Chunks
      <4>1. CASE f2hSent = << >>
        <5>1. chunk = <<1, 0>> /\ chunk[1] = 1 /\ chunk[2] = 0
          BY <4>1
        <5>2. 1 <= MaxF2H
          BY <3>2, <5>1
        <5> QED BY <5>1, <5>2, MpiConstants DEF Chunks
      <4>2. CASE f2hSent # << >> /\ last[2] < f2h[last[1]]
        <5>1. chunk = <<last[1], last[2] + 1>>
          BY <4>2
        <5> QED BY <3>4, <4>2, <5>1, MpiConstants DEF Chunks
      <4>3. CASE f2hSent # << >> /\ ~ (last[2] < f2h[last[1]])
        <5>1. chunk = <<last[1] + 1, 0>> /\ chunk[1] = last[1] + 1 /\ chunk[2] = 0
          BY <4>3
        <5>2. last[1] + 1 <= MaxF2H
          BY <3>2, <5>1
        <5> QED BY <3>4, <4>3, <5>1, <5>2, MpiConstants DEF Chunks
      <4> QED BY <4>1, <4>2, <4>3
    <3> HIDE DEF chunk
    <3>6. writeBuffer' \in Seq(Chunks) /\ f2hSent' \in Seq(Chunks)
          /\ Len(writeBuffer') = Len(writeBuffer) + 1
      BY <2>0, <3>1, <3>5, AppendProperties
    <3>7. Len(writeBuffer') \in 0 .. QueueDepth
      BY <2>0, <3>1, <3>6, MpiConstants
    <3>8. f2h' \in Seq(F2HPayloads)
      <4>1. CASE chunk[2] # 0
        BY <2>0, <3>2, <4>1
      <4>2. CASE chunk[2] = 0
        <5>1. PICK payload \in F2HPayloads : f2h' = Append(f2h, payload)
          BY <3>2, <4>2
        <5> QED BY <2>0, <5>1, AppendProperties
      <4> QED BY <4>1, <4>2
    <3> QED BY <2>0, <3>1, <3>6, <3>7, <3>8
  <2> QED BY <2>1, <2>2
<1>5. TypeOK'
  BY <1>0, <1>1, <1>2, <1>4 DEF TypeOK
<1>6. WordInv' /\ CommandsWhole' /\ RespInv' /\ StageInv'
  BY <1>0, <1>1, <1>3 DEF MpiInv, WordInv, CommandsWhole, RespInv, StageInv
<1>7. HostInv' /\ SendTokens' = SendTokens /\ RecvTokens' = RecvTokens
  BY <1>1, <1>3, FpgaFrame
<1>8. TokenInv'
  BY <1>0, <1>1, <1>7 DEF TokenInv
<1> QED BY <1>5, <1>6, <1>7, <1>8 DEF MpiInv
-----------------------------------------------------------------------------
(* The invariant holds in every state.                                     *)
LEMMA StepMpi == MpiInv /\ [Next]_vars => MpiInv'
<1> SUFFICES ASSUME MpiInv, [Next]_vars PROVE MpiInv'
  OBVIOUS
<1>1. CASE UNCHANGED vars
  <2>1. /\ UNCHANGED <<hpc, blocking, outgoing, incomingMessage, h2f, f2hGot>>
        /\ UNCHANGED <<outstandingReq, toHost, toFPGA>>
        /\ UNCHANGED <<mpeCmd, mpeData, mpeRecv, respCmd, respData>>
        /\ UNCHANGED <<cmdOut, dataOut, cmdIn, dataIn, readBuffer, writeBuffer>>
        /\ UNCHANGED <<state, initStage, recvReqStage, recvRespStage, sendStage, sendServerState,
                       recvServerState, queueOwner>>
        /\ UNCHANGED <<partial, h2fGot, f2h, f2hSent>>
    BY <1>1 DEF vars, hostVars, netVars, mpeVars, outVars, inVars, fpgaVars, stageVars,
       serverVars, clientVars
  <2>2. CommandWords' = CommandWords /\ Resp' = Resp /\ Answers' = Answers
    BY <2>1 DEF CommandWords, Resp, Answers
  <2>3. SendTokens' = SendTokens /\ RecvTokens' = RecvTokens
    BY <2>1, <2>2 DEF SendTokens, RecvTokens, AtHost
  <2>4. TypeOK'
    BY <2>1 DEF MpiInv, TypeOK
  <2>5. WordInv' /\ CommandsWhole' /\ RespInv' /\ StageInv' /\ HostInv' /\ TokenInv'
    BY <2>1, <2>2, <2>3 DEF MpiInv, WordInv, CommandsWhole, RespInv, StageInv, HostInv, TokenInv
  <2> QED BY <2>4, <2>5 DEF MpiInv
<1>2. CASE Write \/ Read \/ Host
  BY <1>2, HostStep
<1>3. CASE Engine
  BY <1>3, ArriveStep, MpeCommandStep, MpeRankStep, MpeReceiveStep DEF Engine
<1>4. CASE Rules
  BY <1>4, SyncInStep, SyncCmdOutStep, InitRequestStep, InitResponseStep, RecvReqStep,
     RecvRespHeaderStep, RecvRespTagStep, SendStep DEF Rules
<1>5. CASE ClientRead \/ ClientWrite
  BY <1>5, ClientStep
<1> QED BY <1>1, <1>2, <1>3, <1>4, <1>5 DEF Next

THEOREM MpiInvariant == Spec => []MpiInv
BY InitMpi, StepMpi, PTL DEF Spec

(* Every variable has its type, and the queues their capacities.           *)
THEOREM TypeCorrect == Spec => []TypeOK
<1>1. MpiInv => TypeOK
  BY DEF MpiInv
<1> QED BY <1>1, MpiInvariant, PTL

(* The engine reads whole commands: the rules that ask for a receive and   *)
(* the one that sends never come between the two words of the other, and   *)
(* the data of each SEND is at the place of its word.                      *)
THEOREM CommandsWholeCorrect == Spec => []CommandsWhole
<1>1. MpiInv => CommandsWhole
  BY DEF MpiInv
<1> QED BY <1>1, MpiInvariant, PTL

(* One chunk, or its acknowledgement, is on the round trip while the send  *)
(* server is busy, and none otherwise; one receive, or its answer, while   *)
(* the receive server is.                                                  *)
THEOREM HandshakeCorrect == Spec => []Handshake
<1>1. MpiInv => Handshake
  BY TokensAreHandshake DEF MpiInv
<1> QED BY <1>1, MpiInvariant, PTL
-----------------------------------------------------------------------------
(* Chunks in the order of their messages, whose sizes are S. *)

Places == Nat \X Nat

After(S, c) == IF c[2] < S[c[1]] THEN <<c[1], c[2] + 1>> ELSE <<c[1] + 1, 0>>

(* Chunk w where e is expected; f is expected behind it.  What is in A     *)
(* travels between the chunks.                                             *)
Passes(S, A, w, e, f) ==
  \/ w \in A /\ f = e
  \/ w = e /\ w[1] \in 1 .. Len(S) /\ w[2] \in 0 .. S[w[1]] /\ f = After(S, w)

(* The chunks of q are those from e on and up to f. *)
Carries(S, A, q, e, f) ==
  \E exp \in [0 .. Len(q) -> Places] :
    /\ exp[0] = e /\ exp[Len(q)] = f
    /\ \A i \in 1 .. Len(q) : Passes(S, A, q[i], exp[i - 1], exp[i])

(* What a reader has got, and what it has of an unfinished message.        *)
Taken(S, got, part) ==
  /\ Len(got) <= Len(S)
  /\ \A m \in 1 .. Len(got) : got[m] = MessageChunks(m, S[m])
  /\ \A i \in 1 .. Len(part) : part[i] = <<Len(got) + 1, i - 1>>
  /\ part # << >> => Len(got) < Len(S) /\ Len(part) <= S[Len(got) + 1]

Expected(got, part) == <<Len(got) + 1, Len(part)>>

-----------------------------------------------------------------------------
(* Where the chunks are, between writer and reader. *)

ChunksOf(q) == [i \in DOMAIN q |-> q[i].chunk]

NoAck(q) == \A i \in DOMAIN q : q[i] # FortyTwo

Three(a, b, c)   == a \o (b \o c)
Four(a, b, c, d) == a \o (b \o (c \o d))

H2FPipe == Four(readBuffer, Answers, ChunksOf(toFPGA), outgoing)

(* The tag of a message and the chunk of an acknowledgement agree, on the  *)
(* way to the FPGA and in the answer there.                                *)
TagInv ==
  /\ \A i \in DOMAIN toFPGA : toFPGA[i].tag = "ACK" <=> toFPGA[i].chunk = FortyTwo
  /\ Answers # << >> => (Count(Resp, "ACK") = 1 <=> Answers[1] = FortyTwo)

H2FInv ==
  /\ Taken(h2f, h2fGot, partial)
  /\ Carries(h2f, {FortyTwo}, H2FPipe, Expected(h2fGot, partial), <<Len(h2f) + 1, 0>>)
  /\ NoAck(readBuffer) /\ NoAck(outgoing)
  /\ TagInv

F2HPipe == outstandingReq \o Four(toHost, mpeData, dataOut, writeBuffer)

(* The chunk that the FPGA's client writes next.                           *)
F2HNext == IF f2hSent = << >> THEN <<1, 0>> ELSE After(f2h, FinalOf(f2hSent))

F2HInv ==
  /\ Taken(f2h, f2hGot, incomingMessage)
  /\ Carries(f2h, {}, F2HPipe, Expected(f2hGot, incomingMessage), F2HNext)
  /\ IF f2hSent = << >> THEN f2h = << >>
     ELSE /\ f2h # << >> /\ FinalOf(f2hSent)[1] = Len(f2h)
          /\ FinalOf(f2hSent)[2] <= f2h[Len(f2h)]

OrderInv == H2FInv /\ F2HInv
-----------------------------------------------------------------------------
LEMMA CarriesNothing ==
  ASSUME NEW S, NEW A, NEW e \in Places, NEW f \in Places
  PROVE  Carries(S, A, << >>, e, f) <=> e = f
<1>1. ASSUME e = f PROVE Carries(S, A, << >>, e, f)
  <2> DEFINE exp == [i \in 0 .. 0 |-> e]
  <2>1. exp \in [0 .. Len(<< >>) -> Places] /\ exp[0] = e /\ exp[Len(<< >>)] = f
    BY <1>1
  <2> HIDE DEF exp
  <2>2. 1 .. Len(<< >>) = {}
    OBVIOUS
  <2> QED BY <2>1, <2>2 DEF Carries
<1> QED BY <1>1 DEF Carries

(* Two stretches of chunks, one behind the other.                          *)
LEMMA CarriesConcat ==
  ASSUME NEW S, NEW A, NEW s \in Seq(Places), NEW t \in Seq(Places),
         NEW e \in Places, NEW f \in Places, NEW g \in Places,
         Carries(S, A, s, e, f), Carries(S, A, t, f, g)
  PROVE  Carries(S, A, s \o t, e, g)
<1>1. PICK a \in [0 .. Len(s) -> Places] :
        /\ a[0] = e /\ a[Len(s)] = f
        /\ \A i \in 1 .. Len(s) : Passes(S, A, s[i], a[i - 1], a[i])
  BY DEF Carries
<1>2. PICK b \in [0 .. Len(t) -> Places] :
        /\ b[0] = f /\ b[Len(t)] = g
        /\ \A i \in 1 .. Len(t) : Passes(S, A, t[i], b[i - 1], b[i])
  BY DEF Carries
<1> DEFINE m == Len(s)
<1> DEFINE n == Len(t)
<1> DEFINE u == s \o t
<1>3. /\ m \in Nat /\ n \in Nat /\ u \in Seq(Places) /\ Len(u) = m + n
      /\ \A i \in 1 .. m : u[i] = s[i]
      /\ \A i \in m + 1 .. m + n : u[i] = t[i - m]
  BY ConcatProperties
<1> HIDE DEF u
<1> DEFINE c == [i \in 0 .. m + n |-> IF i <= m THEN a[i] ELSE b[i - m]]
<1>4. c \in [0 .. m + n -> Places] /\ c[0] = e
  BY <1>1, <1>2, <1>3
<1>5. c[m + n] = g
  BY <1>1, <1>2, <1>3
<1>6. ASSUME NEW i \in 1 .. m + n PROVE Passes(S, A, u[i], c[i - 1], c[i])
  <2>1. CASE i <= m
    BY <2>1, <1>1, <1>3
  <2>2. CASE i > m
    <3>1. i - m \in 1 .. n /\ u[i] = t[i - m] /\ c[i] = b[i - m]
      BY <2>2, <1>3
    <3>2. c[i - 1] = b[i - m - 1]
      <4>1. CASE i = m + 1
        BY <4>1, <1>1, <1>2, <1>3
      <4>2. CASE i > m + 1
        BY <4>2, <1>3
      <4>3. i = m + 1 \/ i > m + 1
        <5> HIDE DEF c, m, n
        <5> QED BY <2>2, <1>3
      <4> QED BY <4>1, <4>2, <4>3
    <3> HIDE DEF c
    <3>3. Passes(S, A, t[i - m], b[i - m - 1], b[i - m])
      BY <3>1, <1>2
    <3> QED BY <3>1, <3>2, <3>3
  <2> QED BY <2>1, <2>2, <1>3
<1> HIDE DEF c
<1> QED BY <1>3, <1>4, <1>5, <1>6 DEF Carries, u

LEMMA CarriesSplit ==
  ASSUME NEW S, NEW A, NEW s \in Seq(Places), NEW t \in Seq(Places),
         NEW e \in Places, NEW f \in Places, Carries(S, A, s \o t, e, f)
  PROVE  \E g \in Places : Carries(S, A, s, e, g) /\ Carries(S, A, t, g, f)
<1> DEFINE n == Len(s)
<1> DEFINE m == Len(t)
<1> DEFINE u == s \o t
<1>1. PICK a \in [0 .. Len(u) -> Places] :
        /\ a[0] = e /\ a[Len(u)] = f
        /\ \A i \in 1 .. Len(u) : Passes(S, A, u[i], a[i - 1], a[i])
  BY DEF Carries
<1>2. /\ m \in Nat /\ n \in Nat /\ u \in Seq(Places) /\ Len(u) = n + m
      /\ \A i \in 1 .. n : u[i] = s[i]
      /\ \A i \in 1 .. m : u[n + i] = t[i]
  BY ConcatProperties
<1> HIDE DEF u
<1>3. a[n] \in Places
  BY <1>1, <1>2
<1>4. Carries(S, A, s, e, a[n])
  <2> DEFINE b == [i \in 0 .. n |-> a[i]]
  <2>1. b \in [0 .. n -> Places] /\ b[0] = e /\ b[n] = a[n]
    BY <1>1, <1>2
  <2>2. \A i \in 1 .. n : Passes(S, A, s[i], b[i - 1], b[i])
    BY <1>1, <1>2
  <2> HIDE DEF b
  <2> QED BY <2>1, <2>2 DEF Carries
<1>5. Carries(S, A, t, a[n], f)
  <2> DEFINE b == [i \in 0 .. m |-> a[n + i]]
  <2>1. b \in [0 .. m -> Places] /\ b[0] = a[n] /\ b[m] = f
    BY <1>1, <1>2
  <2>2. ASSUME NEW i \in 1 .. m PROVE Passes(S, A, t[i], b[i - 1], b[i])
    <3>0. n + i \in 1 .. n + m /\ u[n + i] = t[i] /\ i - 1 \in 0 .. m /\ n + (i - 1) = n + i - 1
      <4> HIDE DEF b, n, m
      <4> QED BY <1>2
    <3>1. b[i] = a[n + i] /\ b[i - 1] = a[n + i - 1]
      <4> HIDE DEF n, m
      <4> QED BY <3>0
    <3> HIDE DEF b
    <3>2. Passes(S, A, u[n + i], a[n + i - 1], a[n + i])
      <4>1. \A j \in 1 .. n + m : Passes(S, A, u[j], a[j - 1], a[j])
        BY <1>1, <1>2
      <4> HIDE DEF n, m
      <4>2. PICK k \in 1 .. n + m : k = n + i
        BY <3>0
      <4>3. Passes(S, A, u[k], a[k - 1], a[k])
        BY <4>1
      <4>4. n \in Nat /\ m \in Nat /\ i \in Nat
        BY <1>2
      <4> QED BY <4>2, <4>3, <4>4
    <3> HIDE DEF n, m
    <3> QED BY <3>0, <3>1, <3>2
  <2> HIDE DEF b
  <2> QED BY <2>1, <2>2 DEF Carries
<1> QED BY <1>3, <1>4, <1>5

(* One more message changes nothing for the chunks already written.        *)
LEMMA CarriesMonotonic ==
  ASSUME NEW S \in Seq(Nat), NEW x \in Nat, NEW A,
         NEW s \in Seq(Places), NEW e \in Places, NEW f \in Places, Carries(S, A, s, e, f)
  PROVE  Carries(Append(S, x), A, s, e, f)
<1> DEFINE N == Append(S, x)
<1>1. N \in Seq(Nat) /\ Len(N) = Len(S) + 1 /\ \A m \in 1 .. Len(S) : N[m] = S[m]
  BY AppendProperties
<1> HIDE DEF N
<1>2. PICK a \in [0 .. Len(s) -> Places] :
        /\ a[0] = e /\ a[Len(s)] = f
        /\ \A i \in 1 .. Len(s) : Passes(S, A, s[i], a[i - 1], a[i])
  BY DEF Carries
<1>3. ASSUME NEW v, NEW w, NEW u, Passes(S, A, v, w, u) PROVE Passes(N, A, v, w, u)
  <2>1. CASE v \in A /\ u = w
    BY <2>1 DEF Passes
  <2>2. CASE v = w /\ v[1] \in 1 .. Len(S) /\ v[2] \in 0 .. S[v[1]] /\ u = After(S, v)
    <3>1. N[v[1]] = S[v[1]] /\ v[1] \in 1 .. Len(N)
      BY <2>2, <1>1
    <3> QED BY <2>2, <3>1 DEF Passes, After
  <2> QED BY <1>3, <2>1, <2>2 DEF Passes
<1>4. \A i \in 1 .. Len(s) : Passes(N, A, s[i], a[i - 1], a[i])
  BY <1>2, <1>3
<1>5. Carries(N, A, s, e, f)
  BY <1>2, <1>4 DEF Carries
<1> QED BY <1>5 DEF N

(* A chunk at the end and one at the head. *)
LEMMA CarriesOne ==
  ASSUME NEW S, NEW A, NEW w \in Places, NEW e \in Places, NEW f \in Places
  PROVE  Carries(S, A, <<w>>, e, f) <=> Passes(S, A, w, e, f)
<1>1. ASSUME Passes(S, A, w, e, f) PROVE Carries(S, A, <<w>>, e, f)
  <2> DEFINE exp == [i \in 0 .. 1 |-> IF i = 0 THEN e ELSE f]
  <2>1. exp \in [0 .. Len(<<w>>) -> Places] /\ exp[0] = e /\ exp[Len(<<w>>)] = f
    OBVIOUS
  <2>2. \A i \in 1 .. Len(<<w>>) : i = 1 /\ exp[i - 1] = e /\ exp[i] = f
    OBVIOUS
  <2> HIDE DEF exp
  <2>3. \A i \in 1 .. Len(<<w>>) : Passes(S, A, <<w>>[i], exp[i - 1], exp[i])
    BY <2>2, <1>1
  <2> QED BY <2>1, <2>3 DEF Carries
<1>2. ASSUME Carries(S, A, <<w>>, e, f) PROVE Passes(S, A, w, e, f)
  <2>1. PICK a \in [0 .. 1 -> Places] :
          /\ a[0] = e /\ a[1] = f
          /\ \A i \in 1 .. 1 : Passes(S, A, <<w>>[i], a[i - 1], a[i])
    BY <1>2 DEF Carries
  <2>2. Passes(S, A, <<w>>[1], a[1 - 1], a[1])
    BY <2>1
  <2> QED BY <2>1, <2>2
<1> QED BY <1>1, <1>2

(* The chunks of a message, behind those of the messages before it.        *)
LEMMA CarriesMessage ==
  ASSUME NEW S \in Seq(Nat), S # << >>, NEW A
  PROVE  /\ MessageChunks(Len(S), S[Len(S)]) \in Seq(Places)
         /\ Carries(S, A, MessageChunks(Len(S), S[Len(S)]), <<Len(S), 0>>, <<Len(S) + 1, 0>>)
<1> DEFINE m == Len(S)
<1> DEFINE c == S[m]
<1> DEFINE s == MessageChunks(m, c)
<1>1. m \in Nat /\ m >= 1 /\ c \in Nat
  <2>1. m \in Nat \ {0}
    BY EmptySeq
  <2> QED BY <2>1, ElementOfSeq
<1> HIDE DEF c
<1>2. s \in Seq(Places) /\ Len(s) = c + 1 /\ \A i \in 1 .. c + 1 : s[i] = <<m, i - 1>>
  BY <1>1 DEF MessageChunks, Places
<1> HIDE DEF s
<1> DEFINE a == [i \in 0 .. c + 1 |-> IF i <= c THEN <<m, i>> ELSE <<m + 1, 0>>]
<1>3. a \in [0 .. Len(s) -> Places] /\ a[0] = <<m, 0>> /\ a[Len(s)] = <<m + 1, 0>>
  BY <1>1, <1>2 DEF Places
<1>4. ASSUME NEW i \in 1 .. Len(s) PROVE Passes(S, A, s[i], a[i - 1], a[i])
  <2>1. i \in 1 .. c + 1 /\ i - 1 \in 0 .. c
    BY <1>1, <1>2
  <2>2. s[i] = <<m, i - 1>> /\ a[i - 1] = <<m, i - 1>>
    BY <2>1, <1>1, <1>2
  <2>3. a[i] = IF i <= c THEN <<m, i>> ELSE <<m + 1, 0>>
    BY <2>1, <1>1
  <2> HIDE DEF a
  <2>4. a[i] = After(S, s[i])
    BY <2>1, <2>2, <2>3, <1>1 DEF After, c
  <2> QED BY <2>1, <2>2, <2>4, <1>1 DEF Passes, c
<1> HIDE DEF a
<1>5. Carries(S, A, s, <<m, 0>>, <<m + 1, 0>>)
  BY <1>3, <1>4 DEF Carries
<1> QED BY <1>2, <1>5 DEF s, c

-----------------------------------------------------------------------------
(* The reader's side. *)

LEMMA TakenMonotonic ==
  ASSUME NEW S \in Seq(Nat), NEW x \in Nat, NEW got, NEW part,
         Len(got) \in Nat, Taken(S, got, part)
  PROVE  Taken(Append(S, x), got, part)
<1>1. Len(Append(S, x)) = Len(S) + 1 /\ \A m \in 1 .. Len(S) : Append(S, x)[m] = S[m]
  BY AppendProperties
<1> DEFINE n == Len(S)
<1>2. n \in Nat
  OBVIOUS
<1> HIDE DEF n
<1> QED BY <1>1, <1>2 DEF Taken, n

(* A chunk that is the one expected goes to the message being read, and    *)
(* the last one of it makes it complete.                                   *)
LEMMA TakeChunk ==
  ASSUME NEW S \in Seq(Nat), NEW T, NEW got \in Seq(T), NEW part \in Seq(Chunks), NEW c \in Chunks,
         Taken(S, got, part), c = Expected(got, part),
         c[1] \in 1 .. Len(S), c[2] \in 0 .. S[c[1]]
  PROVE  /\ Append(part, c) \in Seq(Chunks) /\ Append(part, c) # << >>
         /\ Payload(S, Append(part, c)) = S[c[1]]
         /\ Len(Append(part, c)) > Payload(S, Append(part, c)) =>
              /\ Taken(S, Append(got, Append(part, c)), << >>)
              /\ Expected(Append(got, Append(part, c)), << >>) = After(S, c)
         /\ ~ (Len(Append(part, c)) > Payload(S, Append(part, c))) =>
              /\ Taken(S, got, Append(part, c))
              /\ Expected(got, Append(part, c)) = After(S, c)
<1> DEFINE q == Append(part, c)
<1> DEFINE k == Len(got) + 1
<1> DEFINE n == Len(part)
<1> DEFINE p == S[k]
<1>1. k \in Nat /\ n \in Nat /\ Len(got) = k - 1 /\ Len(S) \in Nat
  OBVIOUS
<1>2. c = <<k, n>> /\ k \in 1 .. Len(S) /\ n \in 0 .. p
  BY DEF Expected
<1>3. p \in Nat
  BY <1>2, ElementOfSeq
<1>4. /\ q \in Seq(Chunks) /\ Len(q) = n + 1
      /\ \A i \in 1 .. n + 1 : q[i] = <<k, i - 1>>
  <2>1. q \in Seq(Chunks) /\ Len(q) = n + 1 /\ q[n + 1] = c /\ \A i \in 1 .. n : q[i] = part[i]
    BY AppendProperties
  <2>2. \A i \in 1 .. n : part[i] = <<k, i - 1>>
    BY DEF Taken
  <2> HIDE DEF q, k, n
  <2>3. ASSUME NEW i \in 1 .. n + 1 PROVE q[i] = <<k, i - 1>>
    <3>1. CASE i = n + 1
      BY <3>1, <2>1, <1>1, <1>2
    <3>2. CASE i \in 1 .. n
      BY <3>2, <2>1, <2>2
    <3> QED BY SMTT(30), <3>1, <3>2, <1>1
  <2> QED BY <2>1, <2>3
<1>5. q # << >> /\ Payload(S, q) = p
  <2>1. q[1][1] = k
    BY <1>1, <1>4
  <2>2. q # << >>
    BY <1>1, <1>4
  <2> HIDE DEF q, k, n
  <2> QED BY <1>2, <2>1, <2>2 DEF Payload
<1>6. ASSUME n + 1 > p
      PROVE  Taken(S, Append(got, q), << >>) /\ Expected(Append(got, q), << >>) = After(S, c)
  <2>1. n = p
    BY <1>6, <1>1, <1>2, <1>3
  <2>2. q = MessageChunks(k, p)
    <3> HIDE DEF k, n, p, q
    <3>1. q = [i \in 1 .. n + 1 |-> q[i]]
      BY <1>1, <1>4
    <3> QED BY <3>1, <1>4, <2>1 DEF MessageChunks
  <2> DEFINE R == Append(got, q)
  <2>3. Len(R) = k /\ R[k] = q /\ \A m \in 1 .. k - 1 : R[m] = got[m]
    <3> HIDE DEF q
    <3>0. Len(Append(got, q)) = Len(got) + 1 /\ Append(got, q)[Len(got) + 1] = q
      OBVIOUS
    <3>2. \A m \in 1 .. Len(got) : Append(got, q)[m] = got[m]
      OBVIOUS
    <3> QED BY <3>0, <3>2, <1>1
  <2>4. \A m \in 1 .. k - 1 : got[m] = MessageChunks(m, S[m])
    BY <1>1 DEF Taken
  <2> HIDE DEF R, q, k
  <2>5. \A m \in 1 .. k : R[m] = MessageChunks(m, S[m])
    <3>1. ASSUME NEW m \in 1 .. k PROVE R[m] = MessageChunks(m, S[m])
      <4>1. CASE m = k
        BY <4>1, <2>2, <2>3
      <4>2. CASE m \in 1 .. k - 1
        BY <4>2, <2>3, <2>4
      <4> QED BY <4>1, <4>2, <1>1
    <3> QED BY <3>1
  <2>6. Taken(S, R, << >>)
    <3>1. Len(R) <= Len(S)
      BY <2>3, <1>1, <1>2
    <3>2. \A i \in 1 .. Len(<< >>) : << >>[i] = <<Len(R) + 1, i - 1>>
      OBVIOUS
    <3> QED BY <3>1, <3>2, <2>3, <2>5 DEF Taken
  <2>7. Expected(R, << >>) = <<k + 1, 0>>
    BY <2>3 DEF Expected
  <2>8. After(S, c) = <<k + 1, 0>>
    BY <1>2, <2>1, <1>3 DEF After
  <2> QED BY <2>6, <2>7, <2>8 DEF R
<1>7. ASSUME ~ (n + 1 > p)
      PROVE  Taken(S, got, q) /\ Expected(got, q) = After(S, c)
  <2>1. n < p /\ n + 1 <= p
    BY <1>7, <1>1, <1>3
  <2>2. After(S, c) = <<k, n + 1>>
    BY <1>2, <2>1 DEF After
  <2>3. Expected(got, q) = <<k, n + 1>>
    BY <1>4 DEF Expected
  <2>4. Taken(S, got, q)
    <3>1. Len(got) < Len(S)
      BY <1>1, <1>2
    <3> HIDE DEF q
    <3> QED BY <3>1, <2>1, <1>1, <1>4 DEF Taken
  <2> QED BY <2>2, <2>3, <2>4
<1> QED BY <1>2, <1>4, <1>5, <1>6, <1>7
-----------------------------------------------------------------------------
(* Queues one behind the other. *)

LEMMA EmptyConcat ==
  ASSUME NEW T, NEW q \in Seq(T)
  PROVE  << >> \o q = q /\ q \o << >> = q
OBVIOUS

LEMMA OneConcat ==
  ASSUME NEW T, NEW q \in Seq(T), NEW w \in T
  PROVE  <<w>> \in Seq(T) /\ Append(q, w) \in Seq(T) /\ Append(q, w) = q \o <<w>>
<1>1. <<w>> \in Seq(T) /\ Append(q, w) \in Seq(T)
  OBVIOUS
<1>2. Append(q, w) = q \o <<w>>
  BY AppendIsConcat
<1> QED BY <1>1, <1>2

LEMMA AppendFirst ==
  ASSUME NEW T, NEW q \in Seq(T), NEW w \in T, NEW r \in Seq(T)
  PROVE  q \o (<<w>> \o r) = Append(q, w) \o r
<1>1. <<w>> \in Seq(T)
  OBVIOUS
<1>2. Append(q, w) = q \o <<w>>
  BY AppendIsConcat
<1> QED BY <1>1, <1>2, ConcatAssociative

LEMMA ThreeConcat ==
  ASSUME NEW T, NEW a \in Seq(T), NEW b \in Seq(T), NEW c \in Seq(T)
  PROVE  Three(a, b, c) \in Seq(T)
<1>1. b \o c \in Seq(T)
  BY ConcatProperties
<1> QED BY <1>1, ConcatProperties DEF Three

LEMMA PipeEnd ==
  ASSUME NEW T, NEW a \in Seq(T), NEW b \in Seq(T), NEW c \in Seq(T), NEW d \in Seq(T)
  PROVE  Four(a, b, c, d) = Three(a, b, c) \o d
<1>1. b \o c \in Seq(T)
  BY ConcatProperties
<1>2. b \o (c \o d) = (b \o c) \o d
  BY ConcatAssociative
<1> DEFINE e == b \o c
<1> HIDE DEF e
<1>3. a \o (e \o d) = (a \o e) \o d
  BY <1>1, ConcatAssociative DEF e
<1> QED BY <1>2, <1>3 DEF e, Three, Four

(* A chunk that follows at the end. *)
LEMMA PutChunk ==
  ASSUME NEW S \in Seq(Nat), NEW A, NEW q \in Seq(Places), NEW e \in Places, NEW f \in Places,
         Carries(S, A, q, e, f), f[1] \in 1 .. Len(S), f[2] \in 0 .. S[f[1]]
  PROVE  /\ Append(q, f) \in Seq(Places) /\ After(S, f) \in Places
         /\ Carries(S, A, Append(q, f), e, After(S, f))
<1> DEFINE g == After(S, f)
<1>1. f[1] \in Nat /\ f[2] \in Nat /\ g \in Places
  BY DEF Places, After
<1>2. Passes(S, A, f, f, g)
  BY DEF Passes
<1> HIDE DEF g
<1>3. Carries(S, A, <<f>>, f, g)
  BY <1>1, <1>2, CarriesOne
<1>4. <<f>> \in Seq(Places) /\ Append(q, f) \in Seq(Places) /\ Append(q, f) = q \o <<f>>
  BY OneConcat
<1>5. Carries(S, A, q \o <<f>>, e, g)
  BY <1>1, <1>3, <1>4, CarriesConcat
<1> QED BY <1>1, <1>4, <1>5 DEF g

(* The one at the head. *)
LEMMA HeadChunk ==
  ASSUME NEW S, NEW A, NEW q \in Seq(Places), NEW e \in Places, NEW f \in Places,
         Carries(S, A, q, e, f), q # << >>
  PROVE  \E g \in Places : Passes(S, A, Head(q), e, g) /\ Carries(S, A, Tail(q), g, f)
<1>1. Head(q) \in Places /\ Tail(q) \in Seq(Places) /\ q = <<Head(q)>> \o Tail(q)
  OBVIOUS
<1>2. <<Head(q)>> \in Seq(Places)
  BY <1>1
<1>3. PICK g \in Places : Carries(S, A, <<Head(q)>>, e, g) /\ Carries(S, A, Tail(q), g, f)
  BY <1>1, <1>2, CarriesSplit
<1> QED BY <1>1, <1>3, CarriesOne

(* An acknowledgement comes and goes without a trace. *)
LEMMA AckBetween ==
  ASSUME NEW S, NEW q \in Seq(Places), NEW r \in Seq(Places), NEW e \in Places, NEW f \in Places
  PROVE  Carries(S, {FortyTwo}, q \o (<<FortyTwo>> \o r), e, f)
           <=> Carries(S, {FortyTwo}, q \o r, e, f)
<1> DEFINE A == {FortyTwo}
<1>1. FortyTwo \in Places /\ FortyTwo[1] = 0 /\ <<FortyTwo>> \in Seq(Places)
  BY DEF FortyTwo, Places
<1>2. <<FortyTwo>> \o r \in Seq(Places)
  BY <1>1, ConcatProperties
<1>3. ASSUME NEW g \in Places, NEW h \in Places
      PROVE  Carries(S, A, <<FortyTwo>>, g, h) <=> g = h
  <2>1. Passes(S, A, FortyTwo, g, h) <=> g = h
    <3>1. 0 \notin 1 .. Len(S)
      OBVIOUS
    <3> QED BY <3>1, <1>1 DEF Passes
  <2> QED BY <2>1, <1>1, CarriesOne
<1> HIDE DEF A
<1>4. ASSUME Carries(S, A, q \o (<<FortyTwo>> \o r), e, f) PROVE Carries(S, A, q \o r, e, f)
  <2>1. PICK g \in Places : Carries(S, A, q, e, g) /\ Carries(S, A, <<FortyTwo>> \o r, g, f)
    BY <1>2, <1>4, CarriesSplit
  <2>2. PICK h \in Places : Carries(S, A, <<FortyTwo>>, g, h) /\ Carries(S, A, r, h, f)
    BY <1>1, <2>1, CarriesSplit
  <2>3. g = h
    BY <1>3, <2>2
  <2> QED BY <2>1, <2>2, <2>3, CarriesConcat
<1>5. ASSUME Carries(S, A, q \o r, e, f) PROVE Carries(S, A, q \o (<<FortyTwo>> \o r), e, f)
  <2>1. PICK g \in Places : Carries(S, A, q, e, g) /\ Carries(S, A, r, g, f)
    BY <1>5, CarriesSplit
  <2>2. Carries(S, A, <<FortyTwo>>, g, g)
    BY <1>3
  <2>3. Carries(S, A, <<FortyTwo>> \o r, g, f)
    BY <1>1, <2>1, <2>2, CarriesConcat
  <2> QED BY <1>2, <2>1, <2>3, CarriesConcat
<1> QED BY <1>4, <1>5 DEF A

LEMMA ChunksOfType ==
  ASSUME NEW q \in Seq(Messages)
  PROVE  /\ ChunksOf(q) \in Seq(Chunks) /\ Len(ChunksOf(q)) = Len(q)
         /\ \A m \in Messages : ChunksOf(Append(q, m)) = Append(ChunksOf(q), m.chunk)
         /\ q # << >> => ChunksOf(q) = <<Head(q).chunk>> \o ChunksOf(Tail(q))
<1>0. \A i \in DOMAIN q : q[i].chunk \in Chunks
  <2>1. \A i \in DOMAIN q : q[i] \in Messages
    OBVIOUS
  <2>2. \A m \in Messages : m.chunk \in Chunks
    BY DEF Messages
  <2> QED BY <2>1, <2>2
<1>1. ChunksOf(q) \in Seq(Chunks) /\ Len(ChunksOf(q)) = Len(q)
  BY <1>0 DEF ChunksOf
<1>2. ASSUME NEW m \in Messages PROVE ChunksOf(Append(q, m)) = Append(ChunksOf(q), m.chunk)
  BY DEF ChunksOf
<1>3. ASSUME q # << >> PROVE ChunksOf(q) = <<Head(q).chunk>> \o ChunksOf(Tail(q))
  BY <1>3 DEF ChunksOf
<1> QED BY <1>1, <1>2, <1>3

-----------------------------------------------------------------------------
LEMMA PlacesOfChunks ==
  /\ Chunks \subseteq Places
  /\ \A q \in Seq(Chunks) : q \in Seq(Places)
<1>1. Chunks \subseteq Places
  BY MpiConstants DEF Chunks, Places
<1> QED BY <1>1, SeqMonotonic

LEMMA PipeTypes ==
  ASSUME TypeOK
  PROVE  /\ h2f \in Seq(Nat) /\ f2h \in Seq(Nat) /\ Len(h2f) \in Nat /\ Len(f2h) \in Nat
         /\ readBuffer \in Seq(Places) /\ Answers \in Seq(Places)
         /\ ChunksOf(toFPGA) \in Seq(Places) /\ outgoing \in Seq(Places)
         /\ outstandingReq \in Seq(Places) /\ toHost \in Seq(Places) /\ mpeData \in Seq(Places)
         /\ dataOut \in Seq(Places) /\ writeBuffer \in Seq(Places)
         /\ H2FPipe \in Seq(Places) /\ F2HPipe \in Seq(Places)
         /\ <<Len(h2f) + 1, 0>> \in Places
         /\ Expected(h2fGot, partial) \in Places /\ Expected(f2hGot, incomingMessage) \in Places
<1>1. /\ h2f \in Seq(H2FPayloads) /\ f2h \in Seq(F2HPayloads)
      /\ readBuffer \in Seq(Chunks) /\ outgoing \in Seq(Chunks)
      /\ outstandingReq \in Seq(Chunks) /\ toHost \in Seq(Chunks) /\ mpeData \in Seq(Chunks)
      /\ dataOut \in Seq(Chunks) /\ writeBuffer \in Seq(Chunks)
      /\ h2fGot \in Seq(Seq(Chunks)) /\ f2hGot \in Seq(Seq(Chunks))
      /\ partial \in Seq(Chunks) /\ incomingMessage \in Seq(Chunks)
  BY DEF TypeOK
<1>2. h2f \in Seq(Nat) /\ f2h \in Seq(Nat)
  BY <1>1, MpiConstants, SeqMonotonic
<1>3. Len(h2f) \in Nat /\ Len(f2h) \in Nat
  BY <1>2
<1>4. Answers \in Seq(Chunks) /\ toFPGA \in Seq(Messages)
  BY MpiTypes
<1>5. ChunksOf(toFPGA) \in Seq(Chunks)
  BY <1>4, ChunksOfType
<1>6. /\ readBuffer \in Seq(Places) /\ Answers \in Seq(Places)
      /\ ChunksOf(toFPGA) \in Seq(Places) /\ outgoing \in Seq(Places)
      /\ outstandingReq \in Seq(Places) /\ toHost \in Seq(Places) /\ mpeData \in Seq(Places)
      /\ dataOut \in Seq(Places) /\ writeBuffer \in Seq(Places)
  BY <1>1, <1>4, <1>5, PlacesOfChunks
<1>7. H2FPipe \in Seq(Places)
  <2>1. ChunksOf(toFPGA) \o outgoing \in Seq(Places)
    BY <1>6, ConcatProperties
  <2>2. Answers \o (ChunksOf(toFPGA) \o outgoing) \in Seq(Places)
    BY <1>6, <2>1, ConcatProperties
  <2> QED BY <1>6, <2>2, ConcatProperties DEF H2FPipe, Four
<1>8. F2HPipe \in Seq(Places)
  <2>1. dataOut \o writeBuffer \in Seq(Places)
    BY <1>6, ConcatProperties
  <2>2. mpeData \o (dataOut \o writeBuffer) \in Seq(Places)
    BY <1>6, <2>1, ConcatProperties
  <2>3. toHost \o (mpeData \o (dataOut \o writeBuffer)) \in Seq(Places)
    BY <1>6, <2>2, ConcatProperties
  <2> QED BY <1>6, <2>3, ConcatProperties DEF F2HPipe, Four
<1>9. <<Len(h2f) + 1, 0>> \in Places
  BY <1>3 DEF Places
<1>10. Expected(h2fGot, partial) \in Places /\ Expected(f2hGot, incomingMessage) \in Places
  <2> DEFINE T == Seq(Chunks)
  <2>1. h2fGot \in Seq(T) /\ f2hGot \in Seq(T)
    BY <1>1
  <2> HIDE DEF T
  <2>2. Len(h2fGot) \in Nat /\ Len(f2hGot) \in Nat
    BY <2>1
  <2>3. Len(partial) \in Nat /\ Len(incomingMessage) \in Nat
    BY <1>1
  <2> QED BY <2>2, <2>3 DEF Expected, Places
<1> QED BY <1>2, <1>3, <1>6, <1>7, <1>8, <1>9, <1>10
-----------------------------------------------------------------------------
(* From the host to the FPGA: the steps that touch the pipe. *)

(* The others leave it alone. *)
LEMMA H2FStays ==
  ASSUME H2FInv, UNCHANGED <<h2f, h2fGot, partial, readBuffer, toFPGA, outgoing>>,
         Answers' = Answers,
         Answers # << >> => Count(Resp', "ACK") = Count(Resp, "ACK")
  PROVE  H2FInv'
<1>1. H2FPipe' = H2FPipe
  BY DEF H2FPipe
<1>2. TagInv'
  BY DEF H2FInv, TagInv
<1> QED BY <1>1, <1>2 DEF H2FInv

(* Write puts a whole message at the end of the pipe.                      *)
LEMMA H2FWrite == ASSUME MpiInv, H2FInv, Write PROVE H2FInv'
<1>0. TypeOK /\ HostInv
  BY DEF MpiInv
<1>1. /\ UNCHANGED <<h2fGot, partial, readBuffer, toFPGA, dataIn, respData, cmdIn, respCmd>>
      /\ hpc = "idle"
  BY DEF Write, HostRest, netVars, inVars, fpgaVars, clientVars, mpeVars
<1>2. PICK p \in H2FPayloads : h2f' = Append(h2f, p) /\ outgoing' = MessageChunks(Len(h2f) + 1, p)
  BY DEF Write
<1>3. outgoing = << >> /\ Answers' = Answers /\ Resp' = Resp
  BY <1>0, <1>1 DEF HostInv, Answers, Resp
<1>4. /\ h2f \in Seq(Nat) /\ p \in Nat /\ Len(h2f) \in Nat
      /\ h2f' \in Seq(Nat) /\ Len(h2f') = Len(h2f) + 1 /\ h2f'[Len(h2f) + 1] = p
  <2>1. h2f \in Seq(Nat) /\ p \in Nat
    BY <1>0, PipeTypes, MpiConstants
  <2> QED BY <1>2, <2>1, AppendProperties
<1> DEFINE A == {FortyTwo}
           e == Expected(h2fGot, partial)
           X == H2FPipe
           n == Len(h2f)
<1>5. Taken(h2f', h2fGot, partial)
  <2>1. Taken(h2f, h2fGot, partial)
    BY DEF H2FInv
  <2>2. Len(h2fGot) \in Nat
    <3> DEFINE T == Seq(Chunks)
    <3>1. h2fGot \in Seq(T)
      BY <1>0 DEF TypeOK
    <3> HIDE DEF T
    <3> QED BY <3>1
  <2> QED BY <1>2, <1>4, <2>1, <2>2, TakenMonotonic
<1>6. /\ X \in Seq(Places) /\ e \in Places /\ <<n + 1, 0>> \in Places /\ <<n + 2, 0>> \in Places
      /\ Carries(h2f, A, X, e, <<n + 1, 0>>)
  <2>1. <<n + 2, 0>> \in Places
    BY <1>4 DEF Places
  <2> QED BY <1>0, <2>1, PipeTypes DEF H2FInv
<1>7. outgoing' \in Seq(Places) /\ Carries(h2f', A, outgoing', <<n + 1, 0>>, <<n + 2, 0>>)
  <2>1. h2f' # << >> /\ n + 1 + 1 = n + 2
    BY <1>4
  <2>2. /\ MessageChunks(Len(h2f'), h2f'[Len(h2f')]) \in Seq(Places)
        /\ Carries(h2f', A, MessageChunks(Len(h2f'), h2f'[Len(h2f')]),
                   <<Len(h2f'), 0>>, <<Len(h2f') + 1, 0>>)
    <3> HIDE DEF A
    <3> QED BY <1>4, <2>1, CarriesMessage
  <2> HIDE DEF A
  <2> QED BY <1>2, <1>4, <2>1, <2>2
<1>8. Carries(h2f', A, X, e, <<n + 1, 0>>)
  <2> HIDE DEF X, e, A
  <2> QED BY <1>2, <1>4, <1>6, CarriesMonotonic
<1>9. H2FPipe' = X \o outgoing'
  <2> DEFINE a == readBuffer
             b == Answers
             c == ChunksOf(toFPGA)
  <2>1. a \in Seq(Places) /\ b \in Seq(Places) /\ c \in Seq(Places)
    BY <1>0, PipeTypes
  <2>2. X = Four(a, b, c, << >>)
    BY <1>3 DEF H2FPipe
  <2>3. H2FPipe' = Four(a, b, c, outgoing')
    BY <1>1, <1>3 DEF H2FPipe
  <2> HIDE DEF a, b, c, X
  <2>4. Three(a, b, c) \in Seq(Places)
    BY <2>1, ThreeConcat
  <2>5. Four(a, b, c, << >>) = Three(a, b, c) \o << >>
    <3>1. << >> \in Seq(Places)
      OBVIOUS
    <3> QED BY ZenonT(30), <2>1, <3>1, PipeEnd
  <2>6. Four(a, b, c, outgoing') = Three(a, b, c) \o outgoing'
    BY ZenonT(30), <1>7, <2>1, PipeEnd
  <2> QED BY <2>2, <2>3, <2>4, <2>5, <2>6, EmptyConcat
<1>10. Carries(h2f', A, H2FPipe', e, <<n + 2, 0>>)
  <2> HIDE DEF X, e, A
  <2>1. Carries(h2f', A, X \o outgoing', e, <<n + 2, 0>>)
    BY <1>6, <1>7, <1>8, CarriesConcat
  <2> QED BY <1>9, <2>1
<1>11. NoAck(outgoing')
  <2>1. DOMAIN outgoing' = 1 .. p + 1 /\ \A i \in 1 .. p + 1 : outgoing'[i] = <<n + 1, i - 1>>
    BY <1>2 DEF MessageChunks
  <2>2. n + 1 # 0
    BY <1>4
  <2>3. \A i \in 1 .. p + 1 : outgoing'[i] # FortyTwo
    BY <2>1, <2>2 DEF FortyTwo
  <2> QED BY <2>1, <2>3 DEF NoAck
<1>12. e' = e /\ <<n + 1, 0>>' = <<n + 2, 0>>
  <2>1. Len(h2f') + 1 = n + 2
    BY <1>4
  <2> QED BY <1>1, <2>1
<1>13. NoAck(readBuffer') /\ TagInv'
  BY <1>1, <1>3 DEF H2FInv, TagInv
<1> QED BY <1>1, <1>5, <1>10, <1>11, <1>12, <1>13 DEF H2FInv

LEMMA NoAckHead ==
  ASSUME NEW q \in Seq(Places), q # << >>, NoAck(q)
  PROVE  Head(q) # FortyTwo /\ NoAck(Tail(q))
<1>1. 1 \in DOMAIN q /\ Head(q) = q[1]
  OBVIOUS
<1>2. \A i \in DOMAIN Tail(q) : i + 1 \in DOMAIN q /\ Tail(q)[i] = q[i + 1]
  OBVIOUS
<1> QED BY <1>1, <1>2 DEF NoAck

(* A chunk of it goes to the network. *)
LEMMA H2FWriteChunk == ASSUME MpiInv, H2FInv, WriteChunk PROVE H2FInv'
<1>0. TypeOK /\ HostInv
  BY DEF MpiInv
<1> DEFINE w == Head(outgoing)
           m == Msg("DATA", w)
<1>1. /\ UNCHANGED <<h2f, h2fGot, partial, readBuffer, dataIn, respData, cmdIn, respCmd>>
      /\ hpc = "write" /\ outgoing' = Tail(outgoing) /\ toFPGA' = Append(toFPGA, m)
  BY DEF WriteChunk, MpiSend, HostRest, inVars, fpgaVars, clientVars, mpeVars
<1>2. Answers' = Answers /\ Resp' = Resp /\ outgoing # << >>
  BY <1>0, <1>1 DEF HostInv, Answers, Resp
<1>3. toFPGA \in Seq(Messages) /\ outgoing \in Seq(Chunks) /\ outgoing \in Seq(Places)
  BY <1>0, MpiTypes, PlacesOfChunks DEF TypeOK
<1>4. w \in Chunks /\ m \in Messages /\ m.tag = "DATA" /\ m.chunk = w
  BY <1>2, <1>3 DEF Msg, Messages
<1>5. w # FortyTwo /\ NoAck(outgoing')
  BY <1>1, <1>2, <1>3, NoAckHead DEF H2FInv
<1> HIDE DEF w, m
<1>6. ChunksOf(toFPGA') = Append(ChunksOf(toFPGA), w)
  BY <1>1, <1>3, <1>4, ChunksOfType
<1>7. H2FPipe' = H2FPipe
  <2>1. ChunksOf(toFPGA) \in Seq(Chunks)
    BY <1>3, ChunksOfType
  <2>2. Append(ChunksOf(toFPGA), Head(outgoing)) \o Tail(outgoing) = ChunksOf(toFPGA) \o outgoing
    BY <1>2, <1>3, <2>1, MoveHead
  <2> QED BY <1>1, <1>2, <1>6, <2>2 DEF H2FPipe, Four, w
<1>8. TagInv'
  <2>1. \A i \in DOMAIN toFPGA' : toFPGA'[i].tag = "ACK" <=> toFPGA'[i].chunk = FortyTwo
    <3>1. /\ DOMAIN toFPGA' = 1 .. Len(toFPGA) + 1 /\ DOMAIN toFPGA = 1 .. Len(toFPGA)
          /\ Len(toFPGA) \in Nat /\ toFPGA'[Len(toFPGA) + 1] = m
          /\ \A i \in 1 .. Len(toFPGA) : toFPGA'[i] = toFPGA[i]
      BY <1>1, <1>3, <1>4, AppendProperties
    <3>2. \A i \in DOMAIN toFPGA : toFPGA[i].tag = "ACK" <=> toFPGA[i].chunk = FortyTwo
      BY DEF H2FInv, TagInv
    <3>3. ASSUME NEW i \in 1 .. Len(toFPGA) + 1
          PROVE  toFPGA'[i].tag = "ACK" <=> toFPGA'[i].chunk = FortyTwo
      <4>1. CASE i = Len(toFPGA) + 1
        BY <4>1, <3>1, <1>4, <1>5
      <4>2. CASE i \in 1 .. Len(toFPGA)
        BY <4>2, <3>1, <3>2
      <4> QED BY <3>1, <4>1, <4>2
    <3> QED BY <3>1, <3>3
  <2> QED BY <1>2, <2>1 DEF H2FInv, TagInv
<1> QED BY <1>1, <1>5, <1>7, <1>8 DEF H2FInv

(* The acknowledgement goes between the chunks that Write sent.            *)
LEMMA H2FSendAck == ASSUME MpiInv, H2FInv, SendAck PROVE H2FInv'
<1>0. TypeOK /\ HostInv
  BY DEF MpiInv
<1> DEFINE m == Msg("ACK", FortyTwo)
<1>1. /\ UNCHANGED <<h2f, h2fGot, partial, readBuffer, dataIn, respData, cmdIn, respCmd, outgoing>>
      /\ toFPGA' = Append(toFPGA, m)
  BY DEF SendAck, MpiSend, HostRest, inVars, fpgaVars, clientVars, mpeVars
<1>2. Answers' = Answers /\ Resp' = Resp
  BY <1>1 DEF Answers, Resp
<1>3. toFPGA \in Seq(Messages) /\ FortyTwo \in Chunks /\ FortyTwo \in Places
  BY <1>0, MpiTypes, MpiConstants DEF FortyTwo, Chunks, Places
<1>4. m \in Messages /\ m.tag = "ACK" /\ m.chunk = FortyTwo
  BY <1>3 DEF Msg, Messages
<1> HIDE DEF m
<1>5. ChunksOf(toFPGA') = Append(ChunksOf(toFPGA), FortyTwo)
  BY <1>1, <1>3, <1>4, ChunksOfType
<1> DEFINE a == readBuffer
           b == Answers
           c == ChunksOf(toFPGA)
           d == outgoing
           e == Expected(h2fGot, partial)
           f == <<Len(h2f) + 1, 0>>
           A == {FortyTwo}
<1>6. /\ a \in Seq(Places) /\ b \in Seq(Places) /\ c \in Seq(Places) /\ d \in Seq(Places)
      /\ e \in Places /\ f \in Places
  BY <1>0, PipeTypes
<1>7. Carries(h2f, A, Four(a, b, c, d), e, f)
  BY DEF H2FInv, H2FPipe
<1>8. H2FPipe' = Four(a, b, Append(c, FortyTwo), d)
  BY <1>1, <1>2, <1>5 DEF H2FPipe
<1>9. Carries(h2f, A, Four(a, b, Append(c, FortyTwo), d), e, f)
  <2> HIDE DEF a, b, c, d, e, f
  <2>0. c \o (<<FortyTwo>> \o d) = Append(c, FortyTwo) \o d /\ <<FortyTwo>> \in Seq(Places)
    <3>1. <<FortyTwo>> \in Seq(Places)
      BY <1>3
    <3> QED BY <1>3, <1>6, <3>1, AppendFirst
  <2>1. <<FortyTwo>> \o d \in Seq(Places)
    BY <1>6, <2>0, ConcatProperties
  <2>2. ASSUME NEW r \in Seq(Places)
        PROVE  Four(a, b, c, r) = Three(a, b, c) \o r
    <3>1. a \in Seq(Places) /\ b \in Seq(Places) /\ c \in Seq(Places)
      BY <1>6
    <3> QED BY ONLY ZenonT(30), <3>1, r \in Seq(Places), PipeEnd
  <2>3. Carries(h2f, A, Three(a, b, c) \o d, e, f)
    BY <1>6, <1>7, <2>2
  <2>4. Carries(h2f, A, Three(a, b, c) \o (<<FortyTwo>> \o d), e, f)
    BY <1>6, <2>3, ThreeConcat, AckBetween
  <2>5. Four(a, b, c, <<FortyTwo>> \o d) = Three(a, b, c) \o (<<FortyTwo>> \o d)
    BY <2>1, <2>2
  <2>6. Four(a, b, Append(c, FortyTwo), d) = Four(a, b, c, <<FortyTwo>> \o d)
    BY <2>0 DEF Four
  <2> QED BY <2>4, <2>5, <2>6
<1>10. TagInv'
  <2>1. \A i \in DOMAIN toFPGA' : toFPGA'[i].tag = "ACK" <=> toFPGA'[i].chunk = FortyTwo
    <3>1. /\ DOMAIN toFPGA' = 1 .. Len(toFPGA) + 1 /\ DOMAIN toFPGA = 1 .. Len(toFPGA)
          /\ Len(toFPGA) \in Nat /\ toFPGA'[Len(toFPGA) + 1] = m
          /\ \A i \in 1 .. Len(toFPGA) : toFPGA'[i] = toFPGA[i]
      BY <1>1, <1>3, <1>4, AppendProperties
    <3>2. \A i \in DOMAIN toFPGA : toFPGA[i].tag = "ACK" <=> toFPGA[i].chunk = FortyTwo
      BY DEF H2FInv, TagInv
    <3>3. ASSUME NEW i \in 1 .. Len(toFPGA) + 1
          PROVE  toFPGA'[i].tag = "ACK" <=> toFPGA'[i].chunk = FortyTwo
      <4>1. CASE i = Len(toFPGA) + 1
        BY <4>1, <3>1, <1>4
      <4>2. CASE i \in 1 .. Len(toFPGA)
        BY <4>2, <3>1, <3>2
      <4> QED BY <3>1, <4>1, <4>2
    <3> QED BY <3>1, <3>3
  <2> QED BY <1>2, <2>1 DEF H2FInv, TagInv
<1>11. Carries(h2f, A, H2FPipe', e, f)
  BY <1>8, <1>9
<1>12. e' = e /\ f' = f
  BY <1>1
<1> QED BY <1>1, <1>10, <1>11, <1>12 DEF H2FInv

(* What MpeReceive finds and what it answers. *)
LEMMA ReceiveAnswers ==
  ASSUME MpiInv, MpeReceive
  PROVE  /\ toFPGA # << >> /\ Head(toFPGA) \in Messages
         /\ Answers = << >> /\ Answers' = <<Head(toFPGA).chunk>>
         /\ Count(Resp', "ACK") = IF Head(toFPGA).tag = "ACK" THEN 1 ELSE 0
<1>0. TypeOK /\ StageInv /\ TokenInv /\ RespInv
  BY DEF MpiInv
<1> DEFINE m == Head(toFPGA)
           t == m.tag
<1>1. /\ mpeRecv = "RECV" /\ respCmd' = respCmd \o <<"HEADER", t>> /\ toFPGA # << >>
      /\ respData' = Append(respData, m.chunk) /\ UNCHANGED <<cmdIn, dataIn>>
  BY DEF MpeReceive, inVars
<1>2. m \in Messages /\ t \in {"DATA", "ACK"} /\ m.chunk \in Chunks
  <2>1. toFPGA \in Seq(Messages)
    BY <1>0, MpiTypes
  <2>2. m \in Messages
    BY <1>1, <2>1, HeadTailProperties
  <2> QED BY <2>2 DEF Messages
<1>3. /\ Count(Resp, "DATA") = 0 /\ Count(Resp, "ACK") = 0
      /\ recvServerState = "busy" \/ recvReqStage = 1
  <2>1. /\ Count(CommandWords, "RECV") \in Nat /\ Count(Resp, "DATA") \in Nat
        /\ Count(Resp, "ACK") \in Nat
    BY <1>0, MpiTypes
  <2>2. Count(CommandWords, "RECV") + 1 + Count(Resp, "DATA") + Count(Resp, "ACK")
          = IF recvServerState = "busy" \/ recvReqStage = 1 THEN 1 ELSE 0
    BY <1>0, <1>1 DEF TokenInv, RecvTokens
  <2> QED BY <2>1, <2>2
<1>4. state # "init"
  BY <1>0, <1>3 DEF StageInv
<1>5. Resp = << >>
  BY <1>0, <1>3, <1>4, AnswerCounts
<1> HIDE DEF m, t
<1>6. Count(Resp', "ACK") = IF t = "ACK" THEN 1 ELSE 0
  <2>1. t \in {"RANK", "DATA", "ACK"}
    BY <1>2
  <2> QED BY <1>1, <1>5, <2>1, PutAnswer
<1>7. dataIn \o respData = << >> /\ dataIn \in Seq(Chunks) /\ respData \in Seq(Chunks)
  <2>1. Len(Answers) = 0 /\ Answers \in Seq(Chunks)
    BY <1>0, <1>3, MpiTypes DEF RespInv
  <2> QED BY <1>0, <2>1, EmptySeq DEF Answers, TypeOK
<1>8. dataIn = << >> /\ respData = << >>
  <2>1. Len(dataIn) + Len(respData) = 0
    <3>1. Len(dataIn \o respData) = 0
      BY <1>7
    <3> QED BY <1>7, <3>1, ConcatProperties
  <2>2. Len(dataIn) \in Nat /\ Len(respData) \in Nat
    BY <1>7
  <2>3. Len(dataIn) = 0 /\ Len(respData) = 0
    BY <2>1, <2>2
  <2> QED BY <1>7, <2>3, EmptySeq
<1>9. Answers' = <<m.chunk>>
  BY <1>1, <1>8 DEF Answers
<1> QED BY <1>1, <1>2, <1>6, <1>7, <1>9 DEF m, t, Answers

LEMMA H2FReceive == ASSUME MpiInv, H2FInv, MpeReceive PROVE H2FInv'
<1>0. TypeOK
  BY DEF MpiInv
<1> DEFINE w == Head(toFPGA).chunk
<1>1. /\ UNCHANGED <<h2f, h2fGot, partial, readBuffer, outgoing>> /\ toFPGA' = Tail(toFPGA)
  BY DEF MpeReceive, hostVars, fpgaVars, clientVars
<1>2. /\ toFPGA # << >> /\ Head(toFPGA) \in Messages
      /\ Answers = << >> /\ Answers' = <<w>>
      /\ Count(Resp', "ACK") = IF Head(toFPGA).tag = "ACK" THEN 1 ELSE 0
  BY ReceiveAnswers
<1>3. toFPGA \in Seq(Messages) /\ toFPGA' \in Seq(Messages)
  <2>1. toFPGA \in Seq(Messages)
    BY <1>0, MpiTypes
  <2> QED BY <1>1, <1>2, <2>1, HeadTailProperties
<1>4. w \in Places /\ outgoing \in Seq(Places) /\ ChunksOf(toFPGA') \in Seq(Places)
  <2>1. w \in Chunks
    BY <1>2 DEF Messages
  <2>2. ChunksOf(toFPGA') \in Seq(Chunks)
    BY <1>3, ChunksOfType
  <2>3. outgoing \in Seq(Places)
    BY <1>0, PipeTypes
  <2> QED BY <2>1, <2>2, <2>3, PlacesOfChunks
<1>5. ChunksOf(toFPGA) = <<w>> \o ChunksOf(toFPGA')
  BY <1>1, <1>2, <1>3, ChunksOfType
<1> HIDE DEF w
<1>6. H2FPipe' = H2FPipe
  <2> DEFINE c == ChunksOf(toFPGA')
  <2> HIDE DEF c
  <2>1. <<w>> \in Seq(Places) /\ c \in Seq(Places) /\ outgoing \in Seq(Places)
    BY <1>4 DEF c
  <2>2. <<w>> \o (c \o outgoing) = (<<w>> \o c) \o outgoing
    BY <2>1, ConcatAssociative
  <2>3. (<<w>> \o c) \o outgoing \in Seq(Places)
    <3>1. <<w>> \o c \in Seq(Places)
      BY <2>1, ConcatProperties
    <3> QED BY <2>1, <3>1, ConcatProperties
  <2>4. << >> \o ((<<w>> \o c) \o outgoing) = (<<w>> \o c) \o outgoing
    BY <2>3, EmptyConcat
  <2>5. H2FPipe = readBuffer \o (<< >> \o ((<<w>> \o c) \o outgoing))
    BY <1>2, <1>5 DEF H2FPipe, Four, c
  <2>6. H2FPipe' = readBuffer \o (<<w>> \o (c \o outgoing))
    BY <1>1, <1>2 DEF H2FPipe, Four, c
  <2> QED BY <2>2, <2>4, <2>5, <2>6
<1>7. TagInv'
  <2>0. \A i \in DOMAIN toFPGA : toFPGA[i].tag = "ACK" <=> toFPGA[i].chunk = FortyTwo
    BY DEF H2FInv, TagInv
  <2>1. \A i \in DOMAIN toFPGA' : toFPGA'[i].tag = "ACK" <=> toFPGA'[i].chunk = FortyTwo
    <3>1. \A i \in DOMAIN toFPGA' : i + 1 \in DOMAIN toFPGA /\ toFPGA'[i] = toFPGA[i + 1]
      BY <1>1, <1>2, <1>3
    <3> QED BY <2>0, <3>1
  <2>2. 1 \in DOMAIN toFPGA /\ Head(toFPGA) = toFPGA[1]
    BY <1>2, <1>3
  <2>3. Head(toFPGA).tag = "ACK" <=> w = FortyTwo
    BY <2>0, <2>2 DEF w
  <2>4. Answers'[1] = w
    BY <1>2
  <2>5. Count(Resp', "ACK") = 1 <=> Answers'[1] = FortyTwo
    BY <1>2, <2>3, <2>4
  <2> QED BY <2>1, <2>5 DEF TagInv
<1> QED BY <1>1, <1>6, <1>7 DEF H2FInv

LEMMA OneLong ==
  ASSUME NEW T, NEW q \in Seq(T), Len(q) = 1
  PROVE  q = <<Head(q)>> /\ Tail(q) = << >> /\ Head(q) \in T
<1>0. q # << >>
  BY EmptySeq
<1>1. Head(q) \in T /\ Tail(q) \in Seq(T) /\ q = <<Head(q)>> \o Tail(q)
  BY <1>0
<1>2. Len(Tail(q)) = 0
  BY HeadTailProperties
<1>3. Tail(q) = << >>
  BY <1>1, <1>2, EmptySeq
<1>4. <<Head(q)>> \o << >> = <<Head(q)>>
  OBVIOUS
<1> QED BY <1>1, <1>3, <1>4

(* What CmdRecvRespTag finds and what it leaves. *)
LEMMA TagAnswers ==
  ASSUME MpiInv, CmdRecvRespTag
  PROVE  /\ Head(dataIn) \in Chunks /\ Answers = <<Head(dataIn)>> /\ Answers' = << >>
         /\ Count(Resp, "ACK") = IF Head(cmdIn) = "ACK" THEN 1 ELSE 0
<1>0. TypeOK /\ StageInv /\ RespInv
  BY DEF MpiInv
<1> DEFINE t == Head(cmdIn)
<1>1. /\ UNCHANGED <<respCmd, respData>> /\ CmdDeq /\ state = "ready" /\ recvRespStage = 1
      /\ dataIn # << >> /\ dataIn' = Tail(dataIn)
  BY DEF CmdRecvRespTag, FpgaRest, mpeVars
<1>2. Resp # << >> /\ t = Head(Resp)
  BY <1>1, TakeAnswer
<1>3. Resp = <<t>> /\ t \in {"DATA", "ACK"}
  <2>1. PICK x \in {"RANK", "DATA", "ACK"} :
          (x = "RANK" <=> state = "init") /\ Resp = <<x>>
    BY <1>0, <1>1, <1>2 DEF RespInv
  <2>2. t = x
    BY <1>2, <2>1
  <2> QED BY <1>1, <2>1, <2>2
<1> HIDE DEF t
<1>4. /\ Count(Resp, "DATA") = (IF t = "DATA" THEN 1 ELSE 0)
      /\ Count(Resp, "ACK") = (IF t = "ACK" THEN 1 ELSE 0)
  BY <1>3, CountShort
<1>5. Len(dataIn \o respData) = 1 /\ dataIn \in Seq(Chunks) /\ respData \in Seq(Chunks)
  <2>1. Len(Answers) = 1
    BY <1>0, <1>3, <1>4 DEF RespInv
  <2> QED BY <1>0, <2>1 DEF Answers, TypeOK
<1>6. Len(dataIn) = 1 /\ respData = << >>
  <2>1. Len(dataIn) + Len(respData) = 1
    BY <1>5, ConcatProperties
  <2>2. Len(dataIn) \in Nat /\ Len(respData) \in Nat /\ Len(dataIn) # 0
    BY <1>1, <1>5
  <2>3. Len(dataIn) = 1 /\ Len(respData) = 0
    BY <2>1, <2>2
  <2> QED BY <1>5, <2>3, EmptySeq
<1>7. dataIn = <<Head(dataIn)>> /\ Tail(dataIn) = << >> /\ Head(dataIn) \in Chunks
  BY <1>5, <1>6, OneLong
<1>8. Answers = <<Head(dataIn)>> /\ Answers' = << >>
  <2>1. Answers = dataIn \o << >> /\ Answers' = << >> \o << >>
    BY <1>1, <1>6, <1>7 DEF Answers
  <2>2. dataIn \o << >> = dataIn /\ << >> \o << >> = << >>
    BY <1>5, EmptyConcat
  <2> QED BY <1>7, <2>1, <2>2
<1> QED BY <1>4, <1>7, <1>8 DEF t

(* The tag decides: the chunk is kept, the acknowledgement dropped.        *)
LEMMA H2FTag == ASSUME MpiInv, H2FInv, CmdRecvRespTag PROVE H2FInv'
<1>0. TypeOK
  BY DEF MpiInv
<1> DEFINE w == Head(dataIn)
           q == readBuffer
           r == ChunksOf(toFPGA) \o outgoing
           e == Expected(h2fGot, partial)
           f == <<Len(h2f) + 1, 0>>
           A == {FortyTwo}
<1>1. UNCHANGED <<h2f, h2fGot, partial, toFPGA, outgoing>>
  BY DEF CmdRecvRespTag, FpgaRest, hostVars, netVars, clientVars
<1>2. (IF Head(cmdIn) = "ACK" THEN readBuffer' = readBuffer
       ELSE readBuffer' = Append(readBuffer, Head(dataIn)))
  BY DEF CmdRecvRespTag
<1>3. /\ w \in Chunks /\ Answers = <<w>> /\ Answers' = << >>
      /\ Count(Resp, "ACK") = IF Head(cmdIn) = "ACK" THEN 1 ELSE 0
  BY TagAnswers
<1>4. /\ w \in Places /\ q \in Seq(Places) /\ r \in Seq(Places) /\ e \in Places /\ f \in Places
  <2>1. ChunksOf(toFPGA) \in Seq(Places) /\ outgoing \in Seq(Places)
    BY <1>0, PipeTypes
  <2>2. r \in Seq(Places)
    BY <2>1, ConcatProperties
  <2> HIDE DEF r
  <2> QED BY <1>0, <1>3, <2>2, PipeTypes, PlacesOfChunks
<1>5. Carries(h2f, A, q \o (<<w>> \o r), e, f)
  BY <1>3 DEF H2FInv, H2FPipe, Four
<1>6. H2FPipe' = readBuffer' \o r
  <2>1. H2FPipe' = readBuffer' \o (<< >> \o r)
    BY <1>1, <1>3 DEF H2FPipe, Four
  <2>2. << >> \o r = r
    <3> HIDE DEF r
    <3> QED BY <1>4, EmptyConcat
  <2> HIDE DEF r
  <2> QED BY <2>1, <2>2
<1>7. Head(cmdIn) = "ACK" <=> w = FortyTwo
  <2>1. Answers # << >> /\ Answers[1] = w
    BY <1>3
  <2>2. Count(Resp, "ACK") = 1 <=> Answers[1] = FortyTwo
    BY <2>1 DEF H2FInv, TagInv
  <2> QED BY <1>3, <2>1, <2>2
<1>8. NoAck(q) /\ NoAck(outgoing)
  BY DEF H2FInv
<1>9. e' = e /\ f' = f
  BY <1>1
<1> HIDE DEF w, q, r, e, f
<1>10. Carries(h2f, A, readBuffer' \o r, e, f) /\ NoAck(readBuffer')
  <2>1. CASE Head(cmdIn) = "ACK"
    <3>1. Carries(h2f, A, q \o r, e, f)
      BY <1>4, <1>5, <1>7, <2>1, AckBetween
    <3> QED BY <1>2, <1>8, <2>1, <3>1 DEF q
  <2>2. CASE Head(cmdIn) # "ACK"
    <3>1. readBuffer' = Append(q, w)
      BY <1>2, <2>2 DEF q, w
    <3>2. q \o (<<w>> \o r) = Append(q, w) \o r
      BY <1>4, AppendFirst
    <3>3. NoAck(Append(q, w))
      <4>1. /\ DOMAIN q = 1 .. Len(q) /\ DOMAIN Append(q, w) = 1 .. Len(q) + 1 /\ Len(q) \in Nat
            /\ Append(q, w)[Len(q) + 1] = w /\ \A i \in 1 .. Len(q) : Append(q, w)[i] = q[i]
        BY <1>4, AppendProperties
      <4>2. w # FortyTwo
        BY <1>7, <2>2
      <4>3. ASSUME NEW i \in 1 .. Len(q) + 1 PROVE Append(q, w)[i] # FortyTwo
        <5>1. CASE i = Len(q) + 1
          BY <4>1, <4>2, <5>1
        <5>2. CASE i \in 1 .. Len(q)
          BY <1>8, <4>1, <5>2 DEF NoAck
        <5> QED BY <4>1, <5>1, <5>2
      <4> QED BY <4>1, <4>3 DEF NoAck
    <3> QED BY <1>5, <3>1, <3>2, <3>3
  <2> QED BY <2>1, <2>2
<1>11. TagInv'
  BY <1>1, <1>3 DEF H2FInv, TagInv
<1>12. Taken(h2f', h2fGot', partial') /\ NoAck(outgoing')
  BY <1>1, <1>8 DEF H2FInv
<1>13. Carries(h2f', {FortyTwo}, H2FPipe', Expected(h2fGot, partial)', <<Len(h2f) + 1, 0>>')
  BY <1>1, <1>6, <1>9, <1>10 DEF e, f
<1> QED BY <1>10, <1>11, <1>12, <1>13 DEF H2FInv

(* The client gets the chunk that is next in its message.                  *)
LEMMA H2FRead == ASSUME MpiInv, H2FInv, ClientRead PROVE H2FInv'
<1>0. TypeOK
  BY DEF MpiInv
<1> DEFINE w == Head(readBuffer)
           chunks == Append(partial, w)
           e == Expected(h2fGot, partial)
           f == <<Len(h2f) + 1, 0>>
           A == {FortyTwo}
           T == Seq(Chunks)
<1>1. /\ UNCHANGED <<h2f, toFPGA, outgoing, dataIn, respData, cmdIn, respCmd>>
      /\ readBuffer # << >> /\ readBuffer' = Tail(readBuffer)
  BY DEF ClientRead, FpgaRest, hostVars, netVars, mpeVars, inVars
<1>2. IF Len(chunks) > Payload(h2f, chunks)
      THEN h2fGot' = Append(h2fGot, chunks) /\ partial' = << >>
      ELSE partial' = chunks /\ h2fGot' = h2fGot
  BY DEF ClientRead
<1>3. Answers' = Answers /\ Resp' = Resp
  BY <1>1 DEF Answers, Resp
<1>4. /\ h2f \in Seq(Nat) /\ h2fGot \in Seq(T) /\ partial \in Seq(Chunks)
      /\ readBuffer \in Seq(Chunks) /\ readBuffer \in Seq(Places) /\ w \in Chunks
      /\ e \in Places /\ f \in Places /\ w \in Places
  <2>1. readBuffer \in Seq(Chunks) /\ h2fGot \in Seq(T) /\ partial \in Seq(Chunks)
    BY <1>0 DEF TypeOK
  <2>2. w \in Chunks
    BY <1>1, <2>1
  <2> HIDE DEF w
  <2> QED BY <1>0, <2>1, <2>2, PipeTypes, PlacesOfChunks
<1>5. w # FortyTwo /\ NoAck(readBuffer')
  BY <1>1, <1>4, NoAckHead DEF H2FInv
<1> DEFINE r == Answers \o (ChunksOf(toFPGA) \o outgoing)
<1>6. /\ H2FPipe # << >> /\ Head(H2FPipe) = w /\ Tail(H2FPipe) = H2FPipe'
      /\ H2FPipe \in Seq(Places)
  <2>1. r \in Seq(Places)
    <3>1. /\ Answers \in Seq(Places) /\ ChunksOf(toFPGA) \in Seq(Places)
          /\ outgoing \in Seq(Places)
      BY <1>0, PipeTypes
    <3> QED BY <3>1, ThreeConcat DEF Three
  <2>2. H2FPipe = readBuffer \o r /\ H2FPipe' = Tail(readBuffer) \o r
    BY <1>1, <1>3 DEF H2FPipe, Four
  <2> HIDE DEF r
  <2>3. /\ readBuffer \o r # << >> /\ Head(readBuffer \o r) = Head(readBuffer)
        /\ Tail(readBuffer \o r) = Tail(readBuffer) \o r
    BY <1>1, <1>4, <2>1, TakeFirst
  <2>4. H2FPipe \in Seq(Places)
    BY <1>0, PipeTypes
  <2> QED BY <2>2, <2>3, <2>4
<1>7. PICK g \in Places : Passes(h2f, A, w, e, g) /\ Carries(h2f, A, H2FPipe', g, f)
  <2>1. Carries(h2f, A, H2FPipe, e, f)
    BY DEF H2FInv
  <2> HIDE DEF w, e, f, A
  <2> QED BY <1>4, <1>6, <2>1, HeadChunk
<1>8. w = e /\ w[1] \in 1 .. Len(h2f) /\ w[2] \in 0 .. h2f[w[1]] /\ g = After(h2f, w)
  <2>1. w \notin A
    BY <1>5
  <2> HIDE DEF w, e, f, A
  <2> QED BY <1>7, <2>1 DEF Passes
<1>9. Taken(h2f, h2fGot, partial)
  BY DEF H2FInv
<1>10. Taken(h2f, h2fGot', partial') /\ Expected(h2fGot', partial') = g
  <2> HIDE DEF w, T
  <2>1. /\ Len(chunks) > Payload(h2f, chunks) =>
             /\ Taken(h2f, Append(h2fGot, chunks), << >>)
             /\ Expected(Append(h2fGot, chunks), << >>) = After(h2f, w)
        /\ ~ (Len(chunks) > Payload(h2f, chunks)) =>
             /\ Taken(h2f, h2fGot, chunks)
             /\ Expected(h2fGot, chunks) = After(h2f, w)
    <3> HIDE DEF f, A, r
    <3> QED BY <1>4, <1>8, <1>9, TakeChunk
  <2> HIDE DEF chunks, e, f, A, r
  <2>2. CASE Len(chunks) > Payload(h2f, chunks)
    BY <1>2, <1>8, <2>1, <2>2
  <2>3. CASE ~ (Len(chunks) > Payload(h2f, chunks))
    BY <1>2, <1>8, <2>1, <2>3
  <2> QED BY <2>2, <2>3
<1>11. f' = f
  BY <1>1
<1>12. TagInv' /\ NoAck(outgoing')
  BY <1>1, <1>3 DEF H2FInv, TagInv
<1>13. Carries(h2f', {FortyTwo}, H2FPipe', Expected(h2fGot, partial)', <<Len(h2f) + 1, 0>>')
  <2> HIDE DEF w, e, T, r
  <2> QED BY <1>1, <1>7, <1>10, <1>11
<1> QED BY <1>1, <1>5, <1>10, <1>12, <1>13 DEF H2FInv
(* The other answers neither bring a chunk nor tell of an acknowledgement. *)
LEMMA OtherAnswers ==
  ASSUME MpiInv, SyncDataIn \/ SyncCmdIn \/ MpeRank \/ CmdInitResponse \/ CmdRecvRespHeader
  PROVE  Answers' = Answers /\ (Answers # << >> => Count(Resp', "ACK") = Count(Resp, "ACK"))
<1>0. TypeOK /\ StageInv /\ RespInv
  BY DEF MpiInv
<1>1. CASE SyncDataIn
  <2>1. dataIn \in Seq(Chunks) /\ respData \in Seq(Chunks)
    BY <1>0 DEF TypeOK
  <2>2. /\ dataIn' = Append(dataIn, Head(respData)) /\ respData' = Tail(respData)
        /\ respData # << >> /\ cmdIn' = cmdIn /\ respCmd' = respCmd
    BY <1>1 DEF SyncDataIn
  <2>3. dataIn' \o respData' = dataIn \o respData
    BY <2>1, <2>2, MoveHead
  <2> QED BY <2>2, <2>3 DEF Answers, Resp
<1>2. CASE SyncCmdIn
  <2>1. cmdIn \in Seq(Responses) /\ respCmd \in Seq(Responses)
    BY <1>0 DEF TypeOK
  <2>2. /\ cmdIn' = Append(cmdIn, Head(respCmd)) /\ respCmd' = Tail(respCmd)
        /\ respCmd # << >> /\ dataIn' = dataIn /\ respData' = respData
    BY <1>2 DEF SyncCmdIn
  <2>3. cmdIn' \o respCmd' = cmdIn \o respCmd
    BY <2>1, <2>2, MoveHead
  <2> QED BY <2>2, <2>3 DEF Answers, Resp
<1>3. ASSUME state = "init" PROVE Answers = << >>
  <2>1. Count(Resp, "DATA") = 0 /\ Count(Resp, "ACK") = 0
    BY <1>0, <1>3, AnswerCounts
  <2>2. Len(Answers) = 0 /\ Answers \in Seq(Chunks)
    BY <1>0, <2>1, MpiTypes DEF RespInv
  <2> QED BY <2>2, EmptySeq
<1>4. CASE MpeRank
  <2>1. mpeRecv = "RECV0" /\ UNCHANGED <<dataIn, respData>>
    BY <1>4 DEF MpeRank, inVars
  <2>2. state = "init"
    <3>1. Count(CommandWords, "RECV0") \in Nat /\ Count(Resp, "RANK") \in Nat
      BY <1>0, MpiTypes
    <3>2. Count(CommandWords, "RECV0") + 1 + Count(Resp, "RANK")
            = IF initStage \in 1 .. 3 THEN 1 ELSE 0
      BY <1>0, <2>1 DEF RespInv
    <3> QED BY <1>0, <3>1, <3>2 DEF StageInv
  <2> QED BY <1>3, <2>1, <2>2 DEF Answers
<1>5. CASE CmdInitResponse
  BY <1>3, <1>5 DEF CmdInitResponse, FpgaRest, mpeVars, Answers
<1>6. CASE CmdRecvRespHeader
  <2>1. /\ UNCHANGED <<dataIn, respCmd, respData>> /\ CmdDeq /\ state = "ready"
        /\ recvRespStage = 0
    BY <1>6 DEF CmdRecvRespHeader, FpgaRest, mpeVars
  <2>2. Resp # << >> /\ Resp' = Tail(Resp) /\ initStage = 4
    BY <1>0, <2>1, TakeAnswer DEF StageInv
  <2>3. PICK t \in {"RANK", "DATA", "ACK"} : Resp = <<"HEADER", t>>
    BY <1>0, <2>1, <2>2 DEF RespInv
  <2>4. Resp' = <<t>>
    BY <2>2, <2>3
  <2>5. Count(Resp', "ACK") = Count(Resp, "ACK")
    BY <2>3, <2>4, CountShort
  <2> QED BY <2>1, <2>5 DEF Answers
<1> QED BY <1>1, <1>2, <1>4, <1>5, <1>6

(* Every step. *)
LEMMA H2FStep == MpiInv /\ H2FInv /\ [Next]_vars => H2FInv'
<1> SUFFICES ASSUME MpiInv, H2FInv, [Next]_vars PROVE H2FInv'
  OBVIOUS
<1>1. CASE UNCHANGED <<h2f, h2fGot, partial, readBuffer, toFPGA, outgoing,
                       dataIn, respData, cmdIn, respCmd>>
  BY <1>1, H2FStays DEF Answers, Resp
<1>2. CASE UNCHANGED vars
  BY <1>1, <1>2 DEF vars, hostVars, netVars, mpeVars, inVars, fpgaVars, clientVars
<1>3. CASE Read \/ TryRead \/ ReadTest \/ CopyChunk
  BY <1>1, <1>3 DEF Read, TryRead, ReadTest, CopyChunk, HostRest, netVars, mpeVars, inVars,
     fpgaVars, clientVars
<1>4. CASE Arrive \/ MpeCommand
  BY <1>1, <1>4 DEF Arrive, MpeCommand, hostVars, mpeVars, inVars, fpgaVars, clientVars
<1>5. CASE SyncCmdOut \/ CmdInitRequest \/ CmdRecvReq \/ CmdSend \/ ClientWrite
  <2>1. CASE SyncCmdOut
    BY <1>1, <2>1 DEF SyncCmdOut, hostVars, netVars, inVars, fpgaVars, clientVars
  <2>2. CASE CmdInitRequest \/ CmdRecvReq \/ CmdSend \/ ClientWrite
    BY <1>1, <2>2 DEF CmdInitRequest, CmdRecvReq, CmdSend, ClientWrite, FpgaRest, hostVars,
       netVars, mpeVars, inVars, clientVars
  <2> QED BY <1>5, <2>1, <2>2
<1>6. CASE SyncDataIn \/ SyncCmdIn \/ MpeRank \/ CmdInitResponse \/ CmdRecvRespHeader
  <2>1. UNCHANGED <<h2f, h2fGot, partial, readBuffer, toFPGA, outgoing>>
    <3>1. CASE SyncDataIn \/ SyncCmdIn \/ MpeRank
      BY <3>1 DEF SyncDataIn, SyncCmdIn, MpeRank, hostVars, netVars, fpgaVars, clientVars
    <3>2. CASE CmdInitResponse \/ CmdRecvRespHeader
      BY <3>2 DEF CmdInitResponse, CmdRecvRespHeader, FpgaRest, hostVars, netVars, clientVars
    <3> QED BY <1>6, <3>1, <3>2
  <2> QED BY <1>6, <2>1, OtherAnswers, H2FStays
<1>7. CASE Write \/ WriteChunk \/ SendAck \/ MpeReceive \/ CmdRecvRespTag \/ ClientRead
  BY <1>7, H2FWrite, H2FWriteChunk, H2FSendAck, H2FReceive, H2FTag, H2FRead
<1> QED BY <1>2, <1>3, <1>4, <1>5, <1>6, <1>7 DEF Next, Host, Engine, Rules
-----------------------------------------------------------------------------
(* From the FPGA to the host. *)

LEMMA F2HStays ==
  ASSUME F2HInv, UNCHANGED <<f2h, f2hGot, incomingMessage, f2hSent>>, F2HPipe' = F2HPipe
  PROVE  F2HInv'
<1>1. F2HNext' = F2HNext
  BY DEF F2HNext
<1> QED BY <1>1 DEF F2HInv

(* The chunk that is written next starts a message or goes on with the last. *)
LEMMA NextChunk ==
  ASSUME TypeOK, F2HInv
  PROVE  /\ F2HNext \in Places
         /\ F2HNext[2] = 0 => F2HNext = <<Len(f2h) + 1, 0>>
         /\ F2HNext[2] # 0 => /\ f2h # << >> /\ F2HNext[1] = Len(f2h)
                              /\ F2HNext[2] <= f2h[Len(f2h)]
<1>1. CASE f2hSent = << >>
  BY <1>1 DEF F2HNext, F2HInv, Places
<1>2. CASE f2hSent # << >>
  <2> DEFINE w == FinalOf(f2hSent)
  <2>1. w \in Places
    <3>1. f2hSent \in Seq(Chunks)
      BY DEF TypeOK
    <3>2. Len(f2hSent) \in 1 .. Len(f2hSent)
      <4>1. Len(f2hSent) \in Nat \ {0}
        BY <1>2, <3>1, EmptySeq
      <4> QED BY <4>1
    <3>3. w \in Chunks
      BY <3>1, <3>2, ElementOfSeq DEF FinalOf
    <3> QED BY <3>3, PlacesOfChunks
  <2>2. F2HNext = After(f2h, w) /\ f2h # << >> /\ w[1] = Len(f2h) /\ w[2] <= f2h[Len(f2h)]
    BY <1>2 DEF F2HNext, F2HInv
  <2>3. w[1] \in Nat /\ w[2] \in Nat
    BY <2>1 DEF Places
  <2>4. f2h[Len(f2h)] \in Nat
    <3>1. f2h \in Seq(Nat) /\ Len(f2h) \in Nat \ {0}
      BY <2>2, PipeTypes, EmptySeq
    <3>2. Len(f2h) \in 1 .. Len(f2h)
      BY <3>1
    <3> QED BY <3>1, <3>2, ElementOfSeq
  <2> HIDE DEF w
  <2>5. CASE w[2] < f2h[w[1]]
    <3>1. F2HNext = <<w[1], w[2] + 1>>
      BY <2>2, <2>5 DEF After
    <3>2. w[2] + 1 <= f2h[Len(f2h)] /\ w[2] + 1 # 0 /\ w[2] + 1 \in Nat
      BY <2>2, <2>3, <2>4, <2>5
    <3> QED BY <2>2, <2>3, <3>1, <3>2 DEF Places
  <2>6. CASE ~ (w[2] < f2h[w[1]])
    <3>1. F2HNext = <<w[1] + 1, 0>>
      BY <2>2, <2>6 DEF After
    <3> QED BY <2>2, <2>3, <3>1 DEF Places
  <2> QED BY <2>5, <2>6
<1> QED BY <1>1, <1>2

(* A head that moves to the queue before it, with a queue behind the two.  *)
LEMMA MoveInPipe ==
  ASSUME NEW T, NEW p \in Seq(T), NEW q \in Seq(T), NEW r \in Seq(T), q # << >>
  PROVE  Append(p, Head(q)) \o (Tail(q) \o r) = p \o (q \o r)
<1>1. /\ Append(p, Head(q)) \in Seq(T) /\ Tail(q) \in Seq(T)
      /\ Append(p, Head(q)) \o Tail(q) = p \o q
  BY MoveHead
<1> DEFINE a == Append(p, Head(q))
<1> DEFINE t == Tail(q)
<1>2. a \in Seq(T) /\ t \in Seq(T) /\ a \o t = p \o q
  BY <1>1
<1> HIDE DEF a, t
<1>20. a \in Seq(T) /\ t \in Seq(T)
  BY <1>2
<1>3. a \o (t \o r) = (a \o t) \o r
  BY SMTT(30), <1>20, ConcatAssociative
<1>4. p \o (q \o r) = (p \o q) \o r
  BY ConcatAssociative
<1>5. a \o (t \o r) = p \o (q \o r)
  BY <1>2, <1>3, <1>4
<1> QED BY <1>5 DEF a, t

(* A chunk goes to the next queue. *)
LEMMA F2HMove ==
  ASSUME MpiInv, Arrive \/ MpeCommand \/ SyncCmdOut \/ CmdSend
  PROVE  F2HPipe' = F2HPipe
<1>0. /\ outstandingReq \in Seq(Places) /\ toHost \in Seq(Places) /\ mpeData \in Seq(Places)
      /\ dataOut \in Seq(Places) /\ writeBuffer \in Seq(Places)
  BY PipeTypes DEF MpiInv
<1> DEFINE s == dataOut \o writeBuffer
<1> DEFINE r == mpeData \o s
<1>1. s \in Seq(Places) /\ r \in Seq(Places)
  <2>1. s \in Seq(Places)
    BY <1>0, ConcatProperties
  <2> HIDE DEF s
  <2> QED BY <1>0, <2>1, ConcatProperties
<1>2. F2HPipe = outstandingReq \o (toHost \o r)
  BY DEF F2HPipe, Four
<1>3. CASE Arrive
  <2>1. /\ UNCHANGED <<mpeData, dataOut, writeBuffer>> /\ toHost # << >> /\ outstandingReq = << >>
        /\ outstandingReq' = <<Head(toHost)>> /\ toHost' = Tail(toHost)
    BY <1>3 DEF Arrive, mpeVars, outVars, fpgaVars
  <2>2. F2HPipe' = <<Head(toHost)>> \o (Tail(toHost) \o r)
    BY <2>1 DEF F2HPipe, Four
  <2> HIDE DEF r
  <2>3. Append(<< >>, Head(toHost)) \o (Tail(toHost) \o r) = << >> \o (toHost \o r)
    <3>1. << >> \in Seq(Places)
      OBVIOUS
    <3> QED BY <1>0, <1>1, <2>1, <3>1, MoveInPipe
  <2>4. Append(<< >>, Head(toHost)) = <<Head(toHost)>>
    OBVIOUS
  <2> QED BY <1>2, <2>1, <2>2, <2>3, <2>4
<1>4. CASE MpeCommand
  <2>1. UNCHANGED <<outstandingReq, dataOut, writeBuffer>>
    BY <1>4 DEF MpeCommand, outVars, fpgaVars
  <2>2. CASE mpeCmd[1] = "SEND"
    <3>1. /\ mpeData # << >> /\ toHost' = Append(toHost, Head(mpeData)) /\ mpeData' = Tail(mpeData)
      BY <1>4, <2>2 DEF MpeCommand
    <3>2. F2HPipe' = outstandingReq \o (Append(toHost, Head(mpeData)) \o (Tail(mpeData) \o s))
      BY <2>1, <3>1 DEF F2HPipe, Four
    <3> HIDE DEF s
    <3>3. Append(toHost, Head(mpeData)) \o (Tail(mpeData) \o s) = toHost \o (mpeData \o s)
      <4>1. mpeData # << >> /\ toHost \in Seq(Places) /\ mpeData \in Seq(Places) /\ s \in Seq(Places)
        BY <1>0, <1>1, <3>1
      <4> QED BY ONLY <4>1, MoveInPipe
    <3> QED BY <1>2, <3>2, <3>3
  <2>3. CASE mpeCmd[1] # "SEND"
    BY <1>4, <2>1, <2>3 DEF MpeCommand, F2HPipe
  <2> QED BY <2>2, <2>3
<1>5. CASE SyncCmdOut
  <2>1. UNCHANGED <<outstandingReq, toHost, writeBuffer>>
    BY <1>5 DEF SyncCmdOut, netVars, fpgaVars
  <2>2. CASE Head(cmdOut).withData
    <3>1. /\ dataOut # << >> /\ mpeData' = Append(mpeData, Head(dataOut))
          /\ dataOut' = Tail(dataOut)
      BY <1>5, <2>2 DEF SyncCmdOut
    <3>2. F2HPipe' = outstandingReq \o (toHost \o (Append(mpeData, Head(dataOut)) \o (Tail(dataOut) \o writeBuffer)))
      BY <2>1, <3>1 DEF F2HPipe, Four
    <3>3. Append(mpeData, Head(dataOut)) \o (Tail(dataOut) \o writeBuffer)
            = mpeData \o (dataOut \o writeBuffer)
      <4>1. /\ dataOut # << >> /\ mpeData \in Seq(Places) /\ dataOut \in Seq(Places)
            /\ writeBuffer \in Seq(Places)
        BY <1>0, <3>1
      <4> QED BY ONLY SMTT(30), <4>1, MoveInPipe
    <3>4. r = mpeData \o (dataOut \o writeBuffer)
      OBVIOUS
    <3> HIDE DEF r
    <3> QED BY <1>2, <3>2, <3>3, <3>4
  <2>3. CASE ~ Head(cmdOut).withData
    BY <1>5, <2>1, <2>3 DEF SyncCmdOut, F2HPipe
  <2> QED BY <2>2, <2>3
<1>6. CASE CmdSend
  <2>1. UNCHANGED <<outstandingReq, toHost, mpeData>>
    BY <1>6 DEF CmdSend, FpgaRest, netVars, mpeVars
  <2>2. CASE sendStage = 0
    <3>1. /\ writeBuffer # << >> /\ dataOut' = Append(dataOut, Head(writeBuffer))
          /\ writeBuffer' = Tail(writeBuffer)
      BY <1>6, <2>2 DEF CmdSend
    <3>2. Append(dataOut, Head(writeBuffer)) \o Tail(writeBuffer) = s
      BY <1>0, <3>1, MoveHead
    <3>3. F2HPipe' = outstandingReq \o (toHost \o (mpeData \o (Append(dataOut, Head(writeBuffer)) \o Tail(writeBuffer))))
      BY <2>1, <3>1 DEF F2HPipe, Four
    <3> HIDE DEF s
    <3> QED BY <1>2, <3>2, <3>3
  <2>3. CASE sendStage # 0
    BY <1>6, <2>1, <2>3 DEF CmdSend, F2HPipe
  <2> QED BY <2>2, <2>3
<1> QED BY <1>3, <1>4, <1>5, <1>6

(* The client writes the next chunk at the end of the pipe.                *)
LEMMA F2HWrite == ASSUME MpiInv, F2HInv, ClientWrite PROVE F2HInv'
<1>0. TypeOK
  BY DEF MpiInv
<1> DEFINE w == F2HNext
           e == Expected(f2hGot, incomingMessage)
           n == Len(f2h)
<1>1. /\ UNCHANGED <<f2hGot, incomingMessage, outstandingReq, toHost, mpeData, dataOut>>
      /\ writeBuffer' = Append(writeBuffer, w) /\ f2hSent' = Append(f2hSent, w)
      /\ IF w[2] # 0 THEN f2h' = f2h ELSE \E p \in F2HPayloads : f2h' = Append(f2h, p)
  BY DEF ClientWrite, F2HNext, FinalOf, After, FpgaRest, hostVars, netVars, mpeVars, outVars
<1>2. /\ w \in Places
      /\ w[2] = 0 => w = <<n + 1, 0>>
      /\ w[2] # 0 => f2h # << >> /\ w[1] = n /\ w[2] <= f2h[n]
  BY <1>0, NextChunk
<1>3. /\ f2h \in Seq(Nat) /\ n \in Nat /\ F2HPipe \in Seq(Places) /\ e \in Places
  BY <1>0, PipeTypes
<1>4. Taken(f2h, f2hGot, incomingMessage) /\ Carries(f2h, {}, F2HPipe, e, w)
  BY DEF F2HInv
<1>5. Len(f2hGot) \in Nat
  <2> DEFINE T == Seq(Chunks)
  <2>1. f2hGot \in Seq(T)
    BY <1>0 DEF TypeOK
  <2> HIDE DEF T
  <2> QED BY <2>1
<1>6. F2HPipe' = Append(F2HPipe, w)
  <2> DEFINE a == outstandingReq
  <2> DEFINE b == Three(toHost, mpeData, dataOut)
  <2>1. /\ outstandingReq \in Seq(Places) /\ toHost \in Seq(Places) /\ mpeData \in Seq(Places)
        /\ dataOut \in Seq(Places) /\ writeBuffer \in Seq(Places)
    BY <1>0, PipeTypes
  <2>2. b \in Seq(Places)
    BY <2>1, ThreeConcat
  <2>3. Append(writeBuffer, w) \in Seq(Places) /\ Append(writeBuffer, w) = writeBuffer \o <<w>>
        /\ <<w>> \in Seq(Places)
    <3> HIDE DEF w
    <3> QED BY <1>2, <2>1, OneConcat
  <2>4. /\ Four(toHost, mpeData, dataOut, writeBuffer) = b \o writeBuffer
        /\ Four(toHost, mpeData, dataOut, Append(writeBuffer, w)) = b \o Append(writeBuffer, w)
    <3>1. ASSUME NEW x \in Seq(Places)
          PROVE  Four(toHost, mpeData, dataOut, x) = b \o x
      <4>1. /\ toHost \in Seq(Places) /\ mpeData \in Seq(Places) /\ dataOut \in Seq(Places)
        BY <2>1
      <4> QED BY ONLY ZenonT(30), <4>1, x \in Seq(Places), PipeEnd
    <3> HIDE DEF w, b
    <3>2. Append(writeBuffer, w) \in Seq(Places)
      BY <2>3
    <3> QED BY <2>1, <3>1, <3>2
  <2>5. F2HPipe = a \o (b \o writeBuffer) /\ F2HPipe' = a \o (b \o Append(writeBuffer, w))
    BY <1>1, <2>4 DEF F2HPipe
  <2> DEFINE d == writeBuffer
  <2>6. d \in Seq(Places) /\ a \in Seq(Places)
    BY <2>1
  <2> HIDE DEF a, b, w, d
  <2>7. b \o (d \o <<w>>) = (b \o d) \o <<w>> /\ b \o d \in Seq(Places)
    BY <2>2, <2>3, <2>6, ConcatAssociative, ConcatProperties
  <2> DEFINE c == b \o d
  <2> HIDE DEF c
  <2>8. a \o (c \o <<w>>) = (a \o c) \o <<w>> /\ a \o c \in Seq(Places)
    BY <2>3, <2>6, <2>7, ConcatAssociative, ConcatProperties DEF c
  <2>9. Append(a \o c, w) = (a \o c) \o <<w>>
    BY <1>2, <2>8, OneConcat
  <2> QED BY <2>3, <2>5, <2>7, <2>8, <2>9 DEF c, d
<1>7. FinalOf(f2hSent') = w /\ f2hSent' # << >>
  <2>1. f2hSent \in Seq(Chunks)
    BY <1>0 DEF TypeOK
  <2> HIDE DEF w
  <2>2. /\ Len(Append(f2hSent, w)) = Len(f2hSent) + 1
        /\ Append(f2hSent, w)[Len(f2hSent) + 1] = w /\ Append(f2hSent, w) # << >>
    BY <2>1
  <2> QED BY <1>1, <2>2 DEF FinalOf
<1>8. F2HNext' = After(f2h', w)
  BY <1>7 DEF F2HNext
<1> HIDE DEF w, e
<1>9. /\ f2h' \in Seq(Nat) /\ f2h' # << >> /\ w[1] = Len(f2h') /\ w[2] <= f2h'[Len(f2h')]
      /\ w[1] \in 1 .. Len(f2h') /\ w[2] \in 0 .. f2h'[w[1]]
      /\ Taken(f2h', f2hGot, incomingMessage) /\ Carries(f2h', {}, F2HPipe, e, w)
  <2>1. CASE w[2] # 0
    <3>1. n \in Nat \ {0}
      BY <1>2, <1>3, <2>1, EmptySeq
    <3>2. n \in 1 .. n
      BY <3>1
    <3>3. f2h[n] \in Nat /\ w[2] \in Nat
      BY <1>2, <1>3, <3>2, ElementOfSeq DEF Places
    <3> QED BY <1>1, <1>2, <1>3, <1>4, <2>1, <3>2, <3>3
  <2>2. CASE w[2] = 0
    <3>1. PICK p \in F2HPayloads : f2h' = Append(f2h, p)
      BY <1>1, <2>2
    <3>2. p \in Nat
      BY MpiConstants
    <3>3. f2h' \in Seq(Nat) /\ Len(f2h') = n + 1 /\ f2h'[n + 1] = p /\ f2h' # << >>
      <4>1. Append(f2h, p) # << >>
        BY <1>3, <3>2
      <4> QED BY <1>3, <3>1, <3>2, <4>1, AppendProperties
    <3>4. w = <<n + 1, 0>> /\ n + 1 \in 1 .. n + 1 /\ 0 \in 0 .. p /\ 0 <= p
      BY <1>2, <1>3, <2>2, <3>2
    <3>5. Taken(f2h', f2hGot, incomingMessage)
      BY <1>3, <1>4, <1>5, <3>1, <3>2, TakenMonotonic
    <3>6. Carries(f2h', {}, F2HPipe, e, w)
      BY <1>2, <1>3, <1>4, <3>1, <3>2, CarriesMonotonic
    <3> QED BY <3>3, <3>4, <3>5, <3>6
  <2> QED BY <2>1, <2>2
<1>10. Carries(f2h', {}, F2HPipe', e, F2HNext')
  BY <1>2, <1>3, <1>6, <1>8, <1>9, PutChunk
<1>11. e' = e
  BY <1>1 DEF e
<1>12. Carries(f2h', {}, F2HPipe', Expected(f2hGot, incomingMessage)', F2HNext')
  BY <1>10, <1>11 DEF e
<1> QED BY <1>1, <1>7, <1>9, <1>12 DEF F2HInv

(* The host's channel takes the one at its head.                           *)
LEMMA F2HCopy == ASSUME MpiInv, F2HInv, CopyChunk PROVE F2HInv'
<1>0. TypeOK /\ HostInv
  BY DEF MpiInv
<1> DEFINE w == Head(outstandingReq)
           chunks == Append(incomingMessage, w)
           e == Expected(f2hGot, incomingMessage)
           r == Four(toHost, mpeData, dataOut, writeBuffer)
           T == Seq(Chunks)
<1>1. /\ UNCHANGED <<f2h, f2hSent, toHost, mpeData, dataOut, writeBuffer>>
      /\ hpc = "copy" /\ outstandingReq' = << >>
  BY DEF CopyChunk, HostRest, mpeVars, outVars, fpgaVars, clientVars
<1>2. /\ outstandingReq = <<w>> /\ w \in Chunks /\ w \in Places
      /\ incomingMessage \in Seq(Chunks) /\ f2hGot \in Seq(T)
  <2>1. /\ outstandingReq \in Seq(Chunks) /\ Len(outstandingReq) <= 1 /\ outstandingReq # << >>
        /\ incomingMessage \in Seq(Chunks) /\ f2hGot \in Seq(T)
    BY <1>0, <1>1 DEF TypeOK, HostInv
  <2>2. Len(outstandingReq) = 1
    <3>0. /\ outstandingReq \in Seq(Chunks) /\ Len(outstandingReq) <= 1
          /\ outstandingReq # << >>
      BY <2>1
    <3>1. Len(outstandingReq) \in Nat \ {0}
      BY ONLY <3>0, EmptySeq
    <3> DEFINE l == Len(outstandingReq)
    <3>2. l \in Nat \ {0} /\ l <= 1
      BY <3>0, <3>1
    <3> HIDE DEF l
    <3>3. l = 1
      BY <3>2
    <3> QED BY <3>3 DEF l
  <2>3. outstandingReq = <<w>> /\ w \in Chunks
    BY <2>1, <2>2, OneLong
  <2> HIDE DEF w
  <2> QED BY <2>1, <2>3, PlacesOfChunks
<1>3. incomingMessage \o outstandingReq = chunks
  <2> HIDE DEF w
  <2> QED BY <1>2, OneConcat
<1>4. IF Len(chunks) > Payload(f2h, chunks)
      THEN f2hGot' = Append(f2hGot, chunks) /\ incomingMessage' = << >>
      ELSE incomingMessage' = chunks /\ f2hGot' = f2hGot
  BY <1>3 DEF CopyChunk, Complete
<1>5. /\ f2h \in Seq(Nat) /\ r \in Seq(Places) /\ e \in Places /\ F2HNext \in Places
  <2>1. /\ toHost \in Seq(Places) /\ mpeData \in Seq(Places)
        /\ dataOut \in Seq(Places) /\ writeBuffer \in Seq(Places)
    BY <1>0, PipeTypes
  <2>2. r = Three(toHost, mpeData, dataOut) \o writeBuffer
        /\ Three(toHost, mpeData, dataOut) \in Seq(Places)
    BY ZenonT(30), <2>1, PipeEnd, ThreeConcat
  <2>3. r \in Seq(Places)
    BY <2>1, <2>2, ConcatProperties
  <2> HIDE DEF r
  <2> QED BY <1>0, <2>3, PipeTypes, NextChunk
<1>6. F2HPipe = <<w>> \o r /\ F2HPipe' = r
  <2>1. F2HPipe = <<w>> \o r
    <3> HIDE DEF w
    <3> QED BY <1>2 DEF F2HPipe
  <2>2. F2HPipe' = << >> \o r
    BY <1>1 DEF F2HPipe
  <2>3. << >> \o r = r
    <3> HIDE DEF r
    <3> QED BY <1>5, EmptyConcat
  <2> QED BY <2>1, <2>2, <2>3
<1> HIDE DEF w, r
<1>7. PICK g \in Places : Carries(f2h, {}, <<w>>, e, g) /\ Carries(f2h, {}, r, g, F2HNext)
  <2>1. Carries(f2h, {}, <<w>> \o r, e, F2HNext) /\ <<w>> \in Seq(Places)
    BY <1>2, <1>6 DEF F2HInv
  <2> HIDE DEF e
  <2> QED BY <1>5, <2>1, CarriesSplit
<1>8. w = e /\ w[1] \in 1 .. Len(f2h) /\ w[2] \in 0 .. f2h[w[1]] /\ g = After(f2h, w)
  <2>1. Passes(f2h, {}, w, e, g)
    <3> HIDE DEF e
    <3> QED BY <1>2, <1>5, <1>7, CarriesOne
  <2> QED BY <2>1 DEF Passes
<1>9. Taken(f2h, f2hGot, incomingMessage)
  BY DEF F2HInv
<1>10. Taken(f2h, f2hGot', incomingMessage') /\ Expected(f2hGot', incomingMessage') = g
  <2> HIDE DEF T
  <2>1. /\ Len(chunks) > Payload(f2h, chunks) =>
             /\ Taken(f2h, Append(f2hGot, chunks), << >>)
             /\ Expected(Append(f2hGot, chunks), << >>) = After(f2h, w)
        /\ ~ (Len(chunks) > Payload(f2h, chunks)) =>
             /\ Taken(f2h, f2hGot, chunks)
             /\ Expected(f2hGot, chunks) = After(f2h, w)
    BY <1>2, <1>5, <1>8, <1>9, TakeChunk
  <2> HIDE DEF chunks, e
  <2>2. CASE Len(chunks) > Payload(f2h, chunks)
    BY <1>4, <1>8, <2>1, <2>2
  <2>3. CASE ~ (Len(chunks) > Payload(f2h, chunks))
    BY <1>4, <1>8, <2>1, <2>3
  <2> QED BY <2>2, <2>3
<1>11. F2HNext' = F2HNext
  BY <1>1 DEF F2HNext
<1>12. Carries(f2h', {}, F2HPipe', Expected(f2hGot, incomingMessage)', F2HNext')
  <2> HIDE DEF e, T
  <2> QED BY <1>1, <1>6, <1>7, <1>10, <1>11
<1> QED BY <1>1, <1>10, <1>12 DEF F2HInv

LEMMA F2HStep == MpiInv /\ F2HInv /\ [Next]_vars => F2HInv'
<1> SUFFICES ASSUME MpiInv, F2HInv, [Next]_vars PROVE F2HInv'
  OBVIOUS
<1>1. CASE UNCHANGED <<f2h, f2hGot, incomingMessage, f2hSent,
                       outstandingReq, toHost, mpeData, dataOut, writeBuffer>>
  BY <1>1, F2HStays DEF F2HPipe
<1>2. CASE UNCHANGED vars
  BY <1>1, <1>2 DEF vars, hostVars, netVars, mpeVars, outVars, fpgaVars, clientVars
<1>3. CASE Write \/ WriteChunk \/ Read \/ TryRead \/ ReadTest \/ SendAck
  BY <1>1, <1>3 DEF Write, WriteChunk, Read, TryRead, ReadTest, SendAck, HostRest, netVars,
     mpeVars, outVars, fpgaVars, clientVars
<1>4. CASE MpeRank \/ MpeReceive
  BY <1>1, <1>4 DEF MpeRank, MpeReceive, hostVars, netVars, outVars, fpgaVars, clientVars
<1>5. CASE SyncDataIn \/ SyncCmdIn
  BY <1>1, <1>5 DEF SyncDataIn, SyncCmdIn, hostVars, netVars, outVars, fpgaVars, clientVars
<1>6. CASE CmdInitRequest \/ CmdInitResponse \/ CmdRecvReq \/ CmdRecvRespHeader
           \/ CmdRecvRespTag \/ ClientRead
  BY <1>1, <1>6 DEF CmdInitRequest, CmdInitResponse, CmdRecvReq, CmdRecvRespHeader,
     CmdRecvRespTag, ClientRead, FpgaRest, hostVars, netVars, mpeVars, outVars, clientVars
<1>7. CASE Arrive \/ MpeCommand \/ SyncCmdOut \/ CmdSend
  <2>1. UNCHANGED <<f2h, f2hGot, incomingMessage, f2hSent>>
    <3>1. CASE Arrive \/ MpeCommand \/ SyncCmdOut
      BY <3>1 DEF Arrive, MpeCommand, SyncCmdOut, hostVars, fpgaVars, clientVars
    <3>2. CASE CmdSend
      BY <3>2 DEF CmdSend, FpgaRest, hostVars, clientVars
    <3> QED BY <1>7, <3>1, <3>2
  <2> QED BY <1>7, <2>1, F2HMove, F2HStays
<1>8. CASE ClientWrite \/ CopyChunk
  BY <1>8, F2HWrite, F2HCopy
<1> QED BY <1>2, <1>3, <1>4, <1>5, <1>6, <1>7, <1>8 DEF Next, Host, Engine, Rules
-----------------------------------------------------------------------------
LEMMA InitOrder == Init => OrderInv
<1> SUFFICES ASSUME Init PROVE OrderInv
  OBVIOUS
<1>1. /\ outgoing = << >> /\ incomingMessage = << >> /\ outstandingReq = << >> /\ h2f = << >>
      /\ f2hGot = << >> /\ toHost = << >> /\ toFPGA = << >> /\ mpeData = << >>
      /\ respData = << >> /\ dataIn = << >> /\ dataOut = << >> /\ readBuffer = << >>
      /\ writeBuffer = << >> /\ partial = << >> /\ h2fGot = << >> /\ f2h = << >>
      /\ f2hSent = << >>
  BY DEF Init
<1>2. << >> \o << >> = << >>
  OBVIOUS
<1>3. H2FPipe = << >> /\ F2HPipe = << >> /\ Answers = << >>
  <2>1. ChunksOf(toFPGA) = << >>
    BY <1>1 DEF ChunksOf
  <2>2. Answers = << >>
    BY <1>1, <1>2 DEF Answers
  <2>3. H2FPipe = << >>
    BY <1>1, <1>2, <2>1, <2>2 DEF H2FPipe, Four
  <2>4. F2HPipe = << >>
    BY <1>1, <1>2 DEF F2HPipe, Four
  <2> QED BY <2>2, <2>3, <2>4
<1>4. /\ Expected(h2fGot, partial) = <<1, 0>> /\ Expected(f2hGot, incomingMessage) = <<1, 0>>
      /\ <<Len(h2f) + 1, 0>> = <<1, 0>> /\ F2HNext = <<1, 0>> /\ <<1, 0>> \in Places
  BY <1>1 DEF Expected, F2HNext, Places
<1>5. Taken(h2f, h2fGot, partial) /\ Taken(f2h, f2hGot, incomingMessage)
  BY <1>1 DEF Taken
<1>6. ASSUME NEW S, NEW A PROVE Carries(S, A, << >>, <<1, 0>>, <<1, 0>>)
  BY <1>4, CarriesNothing
<1>7. NoAck(readBuffer) /\ NoAck(outgoing) /\ TagInv
  BY <1>1, <1>3 DEF NoAck, TagInv
<1>8. H2FInv
  BY <1>3, <1>4, <1>5, <1>6, <1>7 DEF H2FInv
<1>9. F2HInv
  BY <1>1, <1>3, <1>4, <1>5, <1>6 DEF F2HInv
<1> QED BY <1>8, <1>9 DEF OrderInv

(* Both directions carry their chunks in order, in every reachable state.  *)
THEOREM OrderInvariant == Spec => [](MpiInv /\ OrderInv)
<1>1. Init => MpiInv /\ OrderInv
  BY InitMpi, InitOrder
<1>2. MpiInv /\ OrderInv /\ [Next]_vars => (MpiInv /\ OrderInv)'
  BY StepMpi, H2FStep, F2HStep DEF OrderInv
<1> QED BY <1>1, <1>2, PTL DEF Spec

(* One more message written. *)
LEMMA WriteNext ==
  ASSUME NEW max \in Nat, NEW P, NEW S \in Seq(P), NEW p \in P, Len(S) < max
  PROVE  \E x \in WholeMessages(max, P) : Written(Append(S, p)) = Append(Written(S), x)
<1> DEFINE n == Len(S)
           N == Append(S, p)
           x == MessageChunks(n + 1, p)
<1>1. /\ n \in Nat /\ n + 1 \in 1 .. max /\ DOMAIN S = 1 .. n /\ DOMAIN N = 1 .. n + 1
      /\ N[n + 1] = p /\ \A m \in 1 .. n : N[m] = S[m]
  BY AppendProperties
<1>2. x \in WholeMessages(max, P)
  BY <1>1 DEF WholeMessages
<1> HIDE DEF n, N
<1>3. Written(N) = [m \in 1 .. n + 1 |-> IF m = n + 1 THEN x ELSE MessageChunks(m, S[m])]
  BY <1>1 DEF Written
<1>4. Written(S) = [m \in 1 .. n |-> MessageChunks(m, S[m])]
  BY <1>1 DEF Written
<1> DEFINE f(m) == MessageChunks(m, S[m])
<1>5. /\ Written(N) = [m \in 1 .. n + 1 |-> IF m = n + 1 THEN x ELSE f(m)]
      /\ Written(S) = [m \in 1 .. n |-> f(m)]
  BY <1>3, <1>4
<1> HIDE DEF f, x
<1>6. Written(N) = Append(Written(S), x)
  BY <1>1, <1>5
<1> QED BY <1>2, <1>6 DEF N

(* One more message got. *)
LEMMA DeliverNext ==
  ASSUME NEW S \in Seq(Nat), NEW T, NEW got \in Seq(T), NEW x \in T, NEW part,
         Taken(S, Append(got, x), part)
  PROVE  \E k \in Len(got) + 1 .. Len(Written(S)) : Append(got, x) = SubSeq(Written(S), 1, k)
<1> DEFINE n == Len(got) + 1
           R == Append(got, x)
           W == Written(S)
<1>1. R \in Seq(T) /\ Len(R) = n /\ n \in Nat /\ Len(S) \in Nat /\ DOMAIN S = 1 .. Len(S)
  BY AppendProperties
<1>2. Len(W) = Len(S) /\ \A m \in 1 .. Len(S) : W[m] = MessageChunks(m, S[m])
  BY <1>1 DEF Written
<1>3. n <= Len(S) /\ \A m \in 1 .. n : R[m] = MessageChunks(m, S[m])
  <2> HIDE DEF R, n
  <2> QED BY <1>1 DEF Taken, R
<1>4. SubSeq(W, 1, n) = [m \in 1 .. n |-> W[m]]
  <2> HIDE DEF W, n
  <2> QED BY <1>1
<1> HIDE DEF R, n, W
<1>5. R = [m \in 1 .. n |-> R[m]]
  BY <1>1
<1>6. \A m \in 1 .. n : R[m] = W[m]
  BY <1>1, <1>2, <1>3
<1>7. R = SubSeq(W, 1, n)
  BY <1>4, <1>5, <1>6
<1>8. n \in n .. Len(W)
  BY <1>1, <1>2, <1>3
<1> QED BY <1>7, <1>8 DEF R, n, W

LEMMA H2FStreamStep ==
  ASSUME MpiInv, OrderInv', [Next]_vars
  PROVE  [H2FStream!Next]_(H2FStream!vars)
<1> DEFINE T == Seq(Chunks)
<1>0. /\ h2f \in Seq(H2FPayloads) /\ h2f \in Seq(Nat) /\ h2fGot \in Seq(T)
      /\ partial \in Seq(Chunks) /\ readBuffer \in Seq(Chunks)
  BY PipeTypes DEF MpiInv, TypeOK
<1>1. CASE Write
  <2>1. PICK p \in H2FPayloads : h2f' = Append(h2f, p)
    BY <1>1 DEF Write
  <2>2. Len(h2f) < MaxH2F /\ h2fGot' = h2fGot
    BY <1>1 DEF Write, HostRest, fpgaVars, clientVars
  <2>3. PICK x \in WholeMessages(MaxH2F, H2FPayloads) : Written(h2f') = Append(Written(h2f), x)
    BY <1>0, <2>1, <2>2, MpiConstants, WriteNext
  <2> QED BY <2>2, <2>3 DEF H2FStream!Next, H2FStream!Send
<1>2. CASE ClientRead
  <2> DEFINE c == Append(partial, Head(readBuffer))
  <2>1. h2f' = h2f /\ readBuffer # << >>
    BY <1>2 DEF ClientRead, FpgaRest, hostVars
  <2>2. CASE h2fGot' = h2fGot
    BY <2>1, <2>2 DEF H2FStream!vars
  <2>3. CASE h2fGot' = Append(h2fGot, c)
    <3>1. c \in T
      <4>1. Head(readBuffer) \in Chunks
        BY <1>0, <2>1
      <4> QED BY <1>0, <4>1
    <3>2. Taken(h2f, Append(h2fGot, c), partial')
      BY <2>1, <2>3 DEF OrderInv, H2FInv
    <3> HIDE DEF c, T
    <3>3. \E k \in Len(h2fGot) + 1 .. Len(Written(h2f)) :
             Append(h2fGot, c) = SubSeq(Written(h2f), 1, k)
      BY <1>0, <3>1, <3>2, DeliverNext
    <3> QED BY <2>1, <2>3, <3>3 DEF H2FStream!Next, H2FStream!Deliver
  <2>4. h2fGot' = h2fGot \/ h2fGot' = Append(h2fGot, c)
    BY <1>2 DEF ClientRead
  <2> QED BY <2>2, <2>3, <2>4
<1>3. CASE UNCHANGED <<h2f, h2fGot>>
  BY <1>3 DEF H2FStream!vars
<1>4. CASE UNCHANGED vars
  BY <1>3, <1>4 DEF vars, hostVars, fpgaVars, clientVars
<1>5. CASE Read \/ Host
  BY <1>3, <1>5 DEF Host, Read, WriteChunk, TryRead, ReadTest, SendAck, CopyChunk, HostRest,
     fpgaVars, clientVars
<1>6. CASE Engine
  BY <1>3, <1>6 DEF Engine, Arrive, MpeCommand, MpeRank, MpeReceive, hostVars, fpgaVars, clientVars
<1>7. CASE SyncDataIn \/ SyncCmdIn \/ SyncCmdOut
  BY <1>3, <1>7 DEF SyncDataIn, SyncCmdIn, SyncCmdOut, hostVars, fpgaVars, clientVars
<1>8. CASE CmdInitRequest \/ CmdInitResponse \/ CmdRecvReq \/ CmdRecvRespHeader \/ CmdRecvRespTag
           \/ CmdSend \/ ClientWrite
  BY <1>3, <1>8 DEF CmdInitRequest, CmdInitResponse, CmdRecvReq, CmdRecvRespHeader,
     CmdRecvRespTag, CmdSend, ClientWrite, FpgaRest, hostVars, clientVars
<1> QED BY <1>1, <1>2, <1>4, <1>5, <1>6, <1>7, <1>8 DEF Next, Rules

LEMMA F2HStreamStep ==
  ASSUME MpiInv, OrderInv, OrderInv', [Next]_vars
  PROVE  [F2HStream!Next]_(F2HStream!vars)
<1> DEFINE T == Seq(Chunks)
<1>0. /\ f2h \in Seq(F2HPayloads) /\ f2h \in Seq(Nat) /\ f2hGot \in Seq(T)
      /\ incomingMessage \o outstandingReq \in T
  <2>1. /\ f2h \in Seq(F2HPayloads) /\ f2hGot \in Seq(T)
        /\ incomingMessage \in Seq(Chunks) /\ outstandingReq \in Seq(Chunks)
    BY DEF MpiInv, TypeOK
  <2>2. f2h \in Seq(Nat)
    BY PipeTypes DEF MpiInv
  <2> QED BY <2>1, <2>2, ConcatProperties
<1>1. CASE ClientWrite
  <2>0. f2hGot' = f2hGot
    BY <1>1 DEF ClientWrite, FpgaRest, hostVars
  <2>1. CASE f2h' = f2h
    BY <2>0, <2>1 DEF F2HStream!vars
  <2>2. CASE f2h' # f2h
    <3>1. F2HNext[2] = 0 /\ F2HNext[1] <= MaxF2H /\ \E p \in F2HPayloads : f2h' = Append(f2h, p)
      BY <1>1, <2>2 DEF ClientWrite, F2HNext, FinalOf, After
    <3>2. F2HNext[2] = 0 => F2HNext = <<Len(f2h) + 1, 0>>
      BY NextChunk DEF MpiInv, OrderInv
    <3>3. Len(f2h) < MaxF2H
      <4>1. Len(f2h) + 1 <= MaxF2H /\ Len(f2h) \in Nat
        BY <1>0, <3>1, <3>2
      <4> QED BY <4>1, MpiConstants
    <3>4. PICK p \in F2HPayloads : f2h' = Append(f2h, p)
      BY <3>1
    <3>5. PICK x \in WholeMessages(MaxF2H, F2HPayloads) : Written(f2h') = Append(Written(f2h), x)
      BY <1>0, <3>3, <3>4, MpiConstants, WriteNext
    <3> QED BY <2>0, <3>5 DEF F2HStream!Next, F2HStream!Send
  <2> QED BY <2>1, <2>2
<1>2. CASE CopyChunk
  <2> DEFINE c == incomingMessage \o outstandingReq
  <2>1. f2h' = f2h
    BY <1>2 DEF CopyChunk, HostRest, fpgaVars, clientVars
  <2>2. CASE f2hGot' = f2hGot
    BY <2>1, <2>2 DEF F2HStream!vars
  <2>3. CASE f2hGot' = Append(f2hGot, c)
    <3>1. Taken(f2h, Append(f2hGot, c), incomingMessage')
      BY <2>1, <2>3 DEF OrderInv, F2HInv
    <3>2. c \in T
      BY <1>0
    <3> HIDE DEF c, T
    <3>3. \E k \in Len(f2hGot) + 1 .. Len(Written(f2h)) :
             Append(f2hGot, c) = SubSeq(Written(f2h), 1, k)
      BY <1>0, <3>1, <3>2, DeliverNext
    <3> QED BY <2>1, <2>3, <3>3 DEF F2HStream!Next, F2HStream!Deliver
  <2>4. f2hGot' = f2hGot \/ f2hGot' = Append(f2hGot, c)
    BY <1>2 DEF CopyChunk
  <2> QED BY <2>2, <2>3, <2>4
<1>3. CASE UNCHANGED <<f2h, f2hGot>>
  BY <1>3 DEF F2HStream!vars
<1>4. CASE UNCHANGED vars
  BY <1>3, <1>4 DEF vars, hostVars, fpgaVars, clientVars
<1>5. CASE Write \/ Read \/ WriteChunk \/ TryRead \/ ReadTest \/ SendAck
  BY <1>3, <1>5 DEF Write, Read, WriteChunk, TryRead, ReadTest, SendAck, HostRest,
     fpgaVars, clientVars
<1>6. CASE Engine
  BY <1>3, <1>6 DEF Engine, Arrive, MpeCommand, MpeRank, MpeReceive, hostVars, fpgaVars, clientVars
<1>7. CASE SyncDataIn \/ SyncCmdIn \/ SyncCmdOut
  BY <1>3, <1>7 DEF SyncDataIn, SyncCmdIn, SyncCmdOut, hostVars, fpgaVars, clientVars
<1>8. CASE CmdInitRequest \/ CmdInitResponse \/ CmdRecvReq \/ CmdRecvRespHeader \/ CmdRecvRespTag
           \/ CmdSend \/ ClientRead
  BY <1>3, <1>8 DEF CmdInitRequest, CmdInitResponse, CmdRecvReq, CmdRecvRespHeader,
     CmdRecvRespTag, CmdSend, ClientRead, FpgaRest, hostVars, clientVars
<1> QED BY <1>1, <1>2, <1>4, <1>5, <1>6, <1>7, <1>8 DEF Next, Host, Rules

(* The FPGA's client reads the messages that the host wrote, each once,    *)
(* whole and in order.                                                     *)
THEOREM H2FInOrderCorrect == Spec => H2FInOrder
<1>1. Init => H2FStream!Init
  BY DEF Init, H2FStream!Init, Written
<1>2. MpiInv /\ OrderInv /\ (MpiInv /\ OrderInv)' /\ [Next]_vars
        => [H2FStream!Next]_(H2FStream!vars)
  BY H2FStreamStep
<1>3. Spec => [](MpiInv /\ OrderInv)
  BY OrderInvariant
<1> QED BY <1>1, <1>2, <1>3, PTL DEF Spec, H2FInOrder, H2FStream!Spec

(* The host's client gets the messages that the FPGA's client wrote, each  *)
(* once, whole and in order.                                               *)
THEOREM F2HInOrderCorrect == Spec => F2HInOrder
<1>1. Init => F2HStream!Init
  BY DEF Init, F2HStream!Init, Written
<1>2. MpiInv /\ OrderInv /\ (MpiInv /\ OrderInv)' /\ [Next]_vars
        => [F2HStream!Next]_(F2HStream!vars)
  BY F2HStreamStep
<1>3. Spec => [](MpiInv /\ OrderInv)
  BY OrderInvariant
<1> QED BY <1>1, <1>2, <1>3, PTL DEF Spec, F2HInOrder, F2HStream!Spec
=============================================================================
