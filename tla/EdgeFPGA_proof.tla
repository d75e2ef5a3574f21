-------------------------- MODULE EdgeFPGA_proof --------------------------
(***************************************************************************)
(* Proofs about EdgeFPGA: the types and capacities, what a reply says, the *)
(* stream of words from the FPGA's client to the host, what an ACK means,  *)
(* and the stream of messages from the host to the FPGA's client over      *)
(* errors and resends, for every size of the windows.                      *)
(*                                                                         *)
(* EdgeInv follows a transaction from the buffer the host prepares         *)
(* to the reply.  The words in the pipe are those not taken yet, so that   *)
(* neither side waits for a word that was lost; the words of the client    *)
(* are those the host has, those of the reply so far, those in its queue.  *)
(*                                                                         *)
(* H2FInv, on top of it, says where in the buffer the words still to come  *)
(* are: before an error, while the rest of the buffer is dropped, and in   *)
(* the resend that skips what was taken.                                   *)
(*                                                                         *)
(* UsefulWords and WordsBehind are recursive functions: what they compute  *)
(* comes from Recursion, which builds a function step by step.             *)
(***************************************************************************)
EXTENDS EdgeFPGA, FiniteSetTheorems, SequenceTheorems, WellFoundedInduction, TLAPS

Words == Nat \X Nat

Sizes == 0 .. MaxMsgWords

(* A raw buffer of n chunks has a size LegalBufSize returns. *)
LegalChunks(n) ==
  /\ n \in Nat \ {0}
  /\ RawChunkWords * n \in MinMsgWords .. MaxMsgWords
  /\ (RawChunkWords * n) % MinMsgWords = 0

ChunkType == [words : [1 .. DataPerChunk -> Words], good : BOOLEAN]

RecoveryType == [readState : {"START", "CONT"}, dataChunksRemaining : Sizes,
                 rawChunksRemaining : Sizes \ {0}]

-----------------------------------------------------------------------------
(* Induction over the numbers, for sets. *)

(* A set of numbers has a least one. *)
LEMMA LeastNumber ==
  ASSUME NEW T, T \subseteq Nat, T # {}
  PROVE  \E x \in T : \A y \in T : ~ (y < x)
<1> DEFINE I == {0 .. n - 1 : n \in T}
<1>1. IsWellFoundedOn(StrictSubsetOrdering(Nat), FiniteSubsetsOf(Nat))
  BY FS_StrictSubsetOrderingWellFounded
<1>2. I \subseteq FiniteSubsetsOf(Nat) /\ I # {}
  <2>1. ASSUME NEW n \in T PROVE 0 .. n - 1 \subseteq Nat /\ IsFiniteSet(0 .. n - 1)
    BY FS_Interval
  <2> QED BY <2>1 DEF FiniteSubsetsOf
<1> HIDE DEF I
<1>3. PICK i \in I : \A j \in I : ~ (<<j, i>> \in StrictSubsetOrdering(Nat))
  BY <1>1, <1>2, WFMin
<1>4. PICK x \in T : i = 0 .. x - 1
  BY <1>3 DEF I
<1>5. ASSUME NEW y \in T, y < x PROVE FALSE
  <2> DEFINE j == 0 .. y - 1
  <2>1. j \in I
    BY DEF I
  <2>2. j \subseteq i /\ j # i /\ j \subseteq Nat /\ i \subseteq Nat
    <3>1. y \in i /\ y \notin j
      BY <1>4, <1>5
    <3> QED BY <3>1, <1>4, <1>5
  <2> HIDE DEF j
  <2>3. <<j, i>> \in StrictSubsetOrdering(Nat)
    BY <2>2 DEF StrictSubsetOrdering
  <2> QED BY <2>1, <2>3, <1>3
<1> QED BY <1>5

(* A set with 0 and the successor of each of its numbers has all. *)
LEMMA SetInduction ==
  ASSUME NEW S, 0 \in S, \A n \in Nat : n \in S => n + 1 \in S
  PROVE  Nat \subseteq S
<1> DEFINE T == {n \in Nat : n \notin S}
<1>1. SUFFICES ASSUME T # {} PROVE FALSE
  OBVIOUS
<1>2. PICK x \in T : \A y \in T : ~ (y < x)
  BY <1>1, LeastNumber
<1>3. x \in Nat /\ x \notin S /\ x # 0
  OBVIOUS
<1>4. x - 1 \in Nat /\ x - 1 \in S
  BY <1>3, <1>2
<1> QED BY <1>3, <1>4

-----------------------------------------------------------------------------
(* Recursive functions. *)

(* Some function starts with a and goes on as g says. *)
Computable(n, S, a, g) ==
  \E f \in [0 .. n -> S] : f[0] = a /\ \A i \in 1 .. n : f[i] = g[<<i, f[i - 1]>>]

(* Recursive functions exist. *)
LEMMA Recursion ==
  ASSUME NEW n \in Nat, NEW S, NEW a \in S, NEW g \in [(1 .. n) \X S -> S]
  PROVE  Computable(n, S, a, g)
<1> DEFINE P(k) == \E f \in [0 .. k -> S] :
                     f[0] = a /\ \A i \in 1 .. k : f[i] = g[<<i, f[i - 1]>>]
           K == {k \in Nat : k <= n => P(k)}
<1>1. 0 \in K
  <2>1. [i \in 0 .. 0 |-> a] \in [0 .. 0 -> S] /\ [i \in 0 .. 0 |-> a][0] = a /\ 1 .. 0 = {}
    OBVIOUS
  <2> QED BY <2>1
<1>2. ASSUME NEW k \in Nat, k \in K PROVE k + 1 \in K
  <2>1. SUFFICES ASSUME k + 1 <= n PROVE P(k + 1)
    OBVIOUS
  <2>2. PICK f \in [0 .. k -> S] : f[0] = a /\ \A i \in 1 .. k : f[i] = g[<<i, f[i - 1]>>]
    BY <1>2, <2>1
  <2> DEFINE h == [i \in 0 .. k + 1 |-> IF i <= k THEN f[i] ELSE g[<<k + 1, f[k]>>]]
  <2>3. f[k] \in S /\ k + 1 \in 1 .. n /\ <<k + 1, f[k]>> \in (1 .. n) \X S
    BY <2>1, <2>2
  <2>4. g[<<k + 1, f[k]>>] \in S
    BY <2>3
  <2>5. h \in [0 .. k + 1 -> S] /\ h[0] = a
    BY <2>2, <2>4
  <2>6. ASSUME NEW i \in 1 .. k + 1 PROVE h[i] = g[<<i, h[i - 1]>>]
    <3>1. CASE i <= k
      <4>1. h[i] = f[i] /\ h[i - 1] = f[i - 1] /\ i \in 1 .. k
        BY <3>1
      <4> QED BY <4>1, <2>2
    <3>2. CASE i = k + 1
      <4>1. h[i] = g[<<k + 1, f[k]>>] /\ h[i - 1] = f[k] /\ i - 1 = k
        BY <3>2
      <4> QED BY <4>1, <3>2
    <3> QED BY <3>1, <3>2
  <2> HIDE DEF h
  <2> QED BY <2>5, <2>6
<1>3. Nat \subseteq K
  <2> HIDE DEF K
  <2> QED BY <1>1, <1>2, SetInduction
<1> QED BY <1>3 DEF Computable

-----------------------------------------------------------------------------
(* Sizes of buffers. *)

(* Where the quotient of a division lies. *)
LEMMA Division ==
  ASSUME NEW a \in Nat, NEW b \in Nat \ {0}
  PROVE  a \div b \in Nat /\ b * (a \div b) <= a /\ a < b * (a \div b) + b
OBVIOUS

(* A number without a remainder is a multiple. *)
LEMMA Multiple ==
  ASSUME NEW a \in Nat, NEW b \in Nat \ {0}, a % b = 0
  PROVE  a \div b \in Nat /\ a = b * (a \div b)
OBVIOUS

(* The quotient is the only number there. *)
LEMMA Between ==
  ASSUME NEW a \in Nat, NEW b \in Nat \ {0}, NEW q \in Nat, b * q <= a, a < b * q + b
  PROVE  a \div b = q
<1> DEFINE p == a \div b
<1>1. p \in Nat /\ b * p <= a /\ a < b * p + b
  BY Division
<1> HIDE DEF p
<1>2. CASE q < p
  <2>1. b * (q + 1) <= b * p /\ b * (q + 1) = b * q + b
    BY <1>1, <1>2
  <2> QED BY <2>1, <1>1
<1>3. CASE p < q
  <2>1. b * (p + 1) <= b * q /\ b * (p + 1) = b * p + b
    BY <1>1, <1>3
  <2> QED BY <2>1, <1>1
<1> QED BY <1>1, <1>2, <1>3 DEF p

(* A multiple divides without a remainder. *)
LEMMA Exact ==
  ASSUME NEW a \in Nat, NEW b \in Nat \ {0}
  PROVE  (b * a) \div b = a /\ (a * b) \div b = a /\ (b * a) % b = 0
<1>1. b * a \in Nat /\ b * a = a * b
  OBVIOUS
<1>2. (b * a) \div b = a
  BY <1>1, Between
<1>3. (b * a) % b = b * a - b * ((b * a) \div b)
  BY <1>1
<1>4. (a * b) \div b = a
  BY <1>1, <1>2
<1>5. (b * a) % b = 0
  <2> DEFINE w == b * a
  <2>1. w % b = w - b * (w \div b) /\ w \div b = a /\ w = b * a /\ w \in Nat
    BY <1>1, <1>2, <1>3
  <2> HIDE DEF w
  <2>2. w % b = w - w
    BY <2>1
  <2> QED BY <2>1, <2>2 DEF w
<1> QED BY <1>2, <1>4, <1>5

(* What the assumptions say of the sizes, in one place. *)
LEMMA SizeConstants ==
  /\ RawChunkWords \in Nat /\ RawChunkWords >= 2
  /\ DataPerChunk = RawChunkWords - 1 /\ DataPerChunk \in Nat \ {0}
  /\ MinMsgWords \in Nat /\ MinMsgWords >= 2
  /\ MaxMsgWords \in Nat /\ MinMsgWords <= MaxMsgWords
  /\ MaxWriteWords \in Nat /\ MaxWriteWords <= MaxMsgWords /\ MaxWriteWords > 1
  /\ H2FPayloads \subseteq Sizes /\ F2HPayloads \subseteq Nat
  /\ MaxH2F \in Nat /\ MaxF2H \in Nat
<1>1. /\ RawChunkWords \in Nat /\ RawChunkWords >= 2 /\ MinMsgWords \in Nat
      /\ MinMsgWords >= 2 /\ MaxMsgWords \in Nat /\ MinMsgWords <= MaxMsgWords
      /\ FixErrors = TRUE /\ MaxH2F \in Nat /\ MaxF2H \in Nat
      /\ F2HPayloads \subseteq Nat /\ H2FPayloads \subseteq 0 .. MaxWriteWords - 3
      /\ MaxWriteWords > 1
  BY SizesAssumption, LinkAssumption, RoomAssumption
<1>2. DataPerChunk = RawChunkWords - 1 /\ DataPerChunk \in Nat \ {0}
  BY <1>1 DEF DataPerChunk
<1> DEFINE r == RawChunkWords
           m == MaxMsgWords
           a == m * (r - 1)
           q == a \div r
<1>3. a \in Nat /\ a <= r * m
  BY <1>1
<1>4. q \in Nat /\ r * q <= a
  <2> HIDE DEF a
  <2> QED BY <1>1, <1>3, Division
<1>5. q <= m
  <2> HIDE DEF a, q
  <2>1. r * q <= r * m /\ r \in Nat /\ r >= 2 /\ m \in Nat
    BY <1>1, <1>3, <1>4
  <2> HIDE DEF r, m
  <2>2. CASE q > m
    <3>1. q >= m + 1 /\ r * q >= r * (m + 1) /\ r * (m + 1) = r * m + r
      BY <2>1, <2>2, <1>4
    <3> QED BY <3>1, <2>1, <1>4
  <2> QED BY <2>2, <2>1, <1>4
<1>6. MaxWriteWords = q
  BY <1>1 DEF MaxWriteWords
<1>7. H2FPayloads \subseteq Sizes
  <2> HIDE DEF q
  <2> QED BY <1>1, <1>4, <1>5, <1>6 DEF Sizes
<1> QED BY <1>1, <1>2, <1>4, <1>5, <1>6, <1>7

(* Whole transfers are whole raw chunks. *)
LEMMA WholeTransfers ==
  ASSUME NEW q \in Nat, MinMsgWords * q \in MinMsgWords .. MaxMsgWords
  PROVE  \E n : LegalChunks(n) /\ MinMsgWords * q = RawChunkWords * n
<1> DEFINE r == RawChunkWords
           d == MinMsgWords
           j == d \div r
           n == j * q
<1>1. r \in Nat \ {0} /\ d \in Nat \ {0} /\ d % r = 0
  BY SizeConstants, GranularityAssumption
<1>2. j \in Nat /\ d = r * j
  BY <1>1, Multiple
<1> HIDE DEF j
<1>3. n \in Nat /\ d * q = r * n
  BY <1>1, <1>2
<1>4. (d * q) % d = 0
  BY <1>1, Exact
<1>5. n # 0
  <2>1. CASE n = 0
    BY <2>1, <1>1, <1>3
  <2> QED BY <2>1
<1> HIDE DEF n
<1> QED BY <1>3, <1>4, <1>5 DEF LegalChunks

(* LegalBufSize returns a legal size. *)
LEMMA LegalSize ==
  ASSUME NEW words \in Nat
  PROVE  \E n : LegalChunks(n) /\ LegalBufSize(words) = RawChunkWords * n
<1> DEFINE d == MinMsgWords
           p == (words + d - 1) \div d
<1>1. d \in Nat \ {0} /\ MaxMsgWords \in Nat /\ d <= MaxMsgWords
  BY SizeConstants
<1>2. p \in Nat
  BY <1>1, Division
<1>3. PICK m \in Nat : MaxMsgWords = d * m
  BY <1>1, Multiple, GranularityAssumption
<1>4. \E q \in Nat : LegalBufSize(words) = d * q /\ d * q \in d .. MaxMsgWords
  <2> DEFINE rounded == p * d
  <2>1. rounded \in Nat /\ rounded = d * p
    BY <1>1, <1>2
  <2>2. LegalBufSize(words) = IF rounded > MaxMsgWords THEN MaxMsgWords
                              ELSE IF rounded < d THEN d ELSE rounded
    BY DEF LegalBufSize
  <2> HIDE DEF p, rounded
  <2>3. CASE rounded > MaxMsgWords
    BY <2>1, <2>2, <2>3, <1>1, <1>3
  <2>4. CASE ~ (rounded > MaxMsgWords) /\ rounded < d
    <3>1. d * 1 = d
      BY <1>1
    <3> QED BY <2>2, <2>4, <3>1, <1>1
  <2>5. CASE ~ (rounded > MaxMsgWords) /\ ~ (rounded < d)
    BY <2>1, <2>2, <2>5, <1>1, <1>2
  <2> QED BY <2>3, <2>4, <2>5
<1> QED BY <1>4, WholeTransfers

(* A legal size stays as it is, and has that many data words. *)
LEMMA LegalFacts ==
  ASSUME NEW n, LegalChunks(n)
  PROVE  /\ LegalBufSize(RawChunkWords * n) = RawChunkWords * n
         /\ DataWords(RawChunkWords * n) = DataPerChunk * n
         /\ (RawChunkWords * n) \div RawChunkWords = n
         /\ ((DataPerChunk * n) * RawChunkWords) \div DataPerChunk = RawChunkWords * n
         /\ n \in Nat \ {0} /\ n <= MaxMsgWords
         /\ DataPerChunk * n \in 1 .. MaxMsgWords
<1> DEFINE r == RawChunkWords
           w == r * n
           d == MinMsgWords
<1>1. /\ r \in Nat \ {0} /\ DataPerChunk = r - 1 /\ r >= 2 /\ DataPerChunk \in Nat \ {0}
      /\ d \in Nat \ {0} /\ n \in Nat \ {0}
      /\ w \in d .. MaxMsgWords /\ w % d = 0 /\ w \in Nat /\ MaxMsgWords \in Nat
  BY SizeConstants DEF LegalChunks
<1>2. LegalBufSize(w) = w
  <2> DEFINE q == w \div d
             p == (w + d - 1) \div d
  <2> HIDE DEF w
  <2>1. q \in Nat /\ w = d * q
    BY <1>1, Multiple
  <2>2. p = q
    <3>1. w + d - 1 \in Nat /\ d * q <= w + d - 1 /\ w + d - 1 < d * q + d
      BY <1>1, <2>1
    <3> QED BY <3>1, <2>1, <1>1, Between
  <2>3. p * d = w
    BY <2>1, <2>2, <1>1
  <2>4. LegalBufSize(w) = IF p * d > MaxMsgWords THEN MaxMsgWords
                          ELSE IF p * d < d THEN d ELSE p * d
    BY DEF LegalBufSize
  <2> HIDE DEF p, q
  <2> QED BY <2>3, <2>4, <1>1
<1>3. w \div r = n
  BY <1>1, Exact
<1>4. DataWords(w) = DataPerChunk * n
  <2>1. FixErrors = TRUE
    BY LinkAssumption
  <2>2. DataWords(w) = (w * (r - 1)) \div r
    BY <2>1 DEF DataWords
  <2>3. w * (r - 1) = r * ((r - 1) * n) /\ (r - 1) * n \in Nat
    BY <1>1
  <2> QED BY <2>2, <2>3, <1>1, Exact
<1>5. ((DataPerChunk * n) * r) \div DataPerChunk = w
  <2>1. (DataPerChunk * n) * r = DataPerChunk * w
    BY <1>1
  <2> QED BY <2>1, <1>1, Exact
<1>6. n <= w
  BY <1>1
<1>7. DataPerChunk * n \in Nat /\ DataPerChunk * n <= w /\ DataPerChunk * n >= 1
  BY <1>1
<1> QED BY <1>1, <1>2, <1>3, <1>4, <1>5, <1>6, <1>7

-----------------------------------------------------------------------------
(* The words of messages in a reply. *)

(* UsefulWords is a function computed word by word. *)
LEMMA UsefulExists ==
  ASSUME NEW words \in Seq(Words), NEW n \in 0 .. Len(words)
  PROVE  \E f \in [0 .. n -> Seq(Words)] :
           /\ f[0] = << >> /\ f[n] = UsefulWords(words, n)
           /\ \A i \in 1 .. n :
                f[i] = IF words[i] = Zero THEN f[i - 1] ELSE Append(f[i - 1], words[i])
<1> DEFINE g == [p \in (1 .. n) \X Seq(Words) |->
                   IF words[p[1]] = Zero THEN p[2] ELSE Append(p[2], words[p[1]])]
<1>1. g \in [(1 .. n) \X Seq(Words) -> Seq(Words)]
  <2>1. ASSUME NEW p \in (1 .. n) \X Seq(Words)
        PROVE  (IF words[p[1]] = Zero THEN p[2] ELSE Append(p[2], words[p[1]])) \in Seq(Words)
    <3>1. words[p[1]] \in Words /\ p[2] \in Seq(Words)
      OBVIOUS
    <3> QED BY <3>1
  <2> QED BY <2>1
<1>2. << >> \in Seq(Words) /\ n \in Nat
  OBVIOUS
<1>3. PICK f \in [0 .. n -> Seq(Words)] :
        f[0] = << >> /\ \A i \in 1 .. n : f[i] = g[<<i, f[i - 1]>>]
  <2> HIDE DEF g
  <2>1. Computable(n, Seq(Words), << >>, g)
    BY <1>1, <1>2, Recursion
  <2> QED BY <2>1 DEF Computable
<1>4. \A i \in 1 .. n :
        f[i] = IF words[i] = Zero THEN f[i - 1] ELSE Append(f[i - 1], words[i])
  <2>1. ASSUME NEW i \in 1 .. n
        PROVE  f[i] = IF words[i] = Zero THEN f[i - 1] ELSE Append(f[i - 1], words[i])
    <3> HIDE DEF g
    <3>0. i - 1 \in 0 .. n
      BY <1>2
    <3>1. f[i - 1] \in Seq(Words) /\ f[i] = g[<<i, f[i - 1]>>]
      BY <1>3, <3>0
    <3> USE DEF g
    <3>2. <<i, f[i - 1]>> \in (1 .. n) \X Seq(Words)
      BY <3>1
    <3> QED BY <3>1, <3>2
  <2> QED BY <2>1
<1> HIDE DEF g
<1> DEFINE Body(h) == [i \in 0 .. n |->
             IF i = 0 THEN << >>
             ELSE IF words[i] = Zero THEN h[i - 1] ELSE Append(h[i - 1], words[i])]
           u == CHOOSE h : h = Body(h)
<1>5. f = Body(f)
  <2>1. ASSUME NEW i \in 0 .. n
        PROVE  f[i] = IF i = 0 THEN << >>
                      ELSE IF words[i] = Zero THEN f[i - 1] ELSE Append(f[i - 1], words[i])
    <3>1. CASE i = 0
      BY <3>1, <1>3
    <3>2. CASE i # 0
      <4>1. i \in 1 .. n
        BY <3>2
      <4> QED BY <4>1, <3>2, <1>4
    <3> QED BY <3>1, <3>2
  <2>2. f = [i \in 0 .. n |-> f[i]]
    BY <1>3
  <2> QED BY <2>1, <2>2
<1>6. u = Body(u)
  <2> HIDE DEF Body
  <2> QED BY <1>5
<1>7. UsefulWords(words, n) = u[n]
  BY DEF UsefulWords
<1> HIDE DEF u
<1> DEFINE I == {i \in Nat : i <= n => u[i] = f[i]}
<1>8. 0 \in I
  <2>1. u[0] = << >>
    BY <1>2, <1>6
  <2> QED BY <1>3, <2>1
<1>9. ASSUME NEW i \in Nat, i \in I PROVE i + 1 \in I
  <2>1. SUFFICES ASSUME i + 1 <= n PROVE u[i + 1] = f[i + 1]
    OBVIOUS
  <2>2. i + 1 \in 1 .. n /\ i + 1 # 0 /\ i + 1 - 1 = i /\ i + 1 \in 0 .. n /\ u[i] = f[i]
    BY <2>1, <1>9
  <2>3. u[i + 1] = Body(u)[i + 1]
    BY <1>6
  <2>4. Body(u)[i + 1] = IF words[i + 1] = Zero THEN u[i] ELSE Append(u[i], words[i + 1])
    BY <2>2
  <2>5. f[i + 1] = IF words[i + 1] = Zero THEN f[i] ELSE Append(f[i], words[i + 1])
    <3> HIDE DEF Body
    <3> QED BY <2>2, <1>4
  <2> HIDE DEF Body
  <2> QED BY <2>2, <2>3, <2>4, <2>5
<1>10. Nat \subseteq I
  <2> HIDE DEF I, Body
  <2> QED BY <1>8, <1>9, SetInduction
<1>11. u[n] = f[n]
  BY <1>2, <1>10
<1> HIDE DEF I, Body
<1> QED BY <1>3, <1>4, <1>7, <1>11

(* They are known from the words they come from. *)
LEMMA UsefulPrefix ==
  ASSUME NEW words \in Seq(Words), NEW m \in 0 .. Len(words),
         NEW other \in Seq(Words), NEW n \in 0 .. Len(other),
         m <= n, \A i \in 1 .. m : words[i] = other[i],
         \A i \in m + 1 .. n : other[i] = Zero
  PROVE  UsefulWords(words, m) = UsefulWords(other, n)
<1>1. PICK f \in [0 .. m -> Seq(Words)] :
        /\ f[0] = << >> /\ f[m] = UsefulWords(words, m)
        /\ \A i \in 1 .. m :
             f[i] = IF words[i] = Zero THEN f[i - 1] ELSE Append(f[i - 1], words[i])
  BY UsefulExists
<1>2. PICK h \in [0 .. n -> Seq(Words)] :
        /\ h[0] = << >> /\ h[n] = UsefulWords(other, n)
        /\ \A i \in 1 .. n :
             h[i] = IF other[i] = Zero THEN h[i - 1] ELSE Append(h[i - 1], other[i])
  BY UsefulExists
<1> DEFINE I == {i \in Nat : i <= n => h[i] = IF i <= m THEN f[i] ELSE f[m]}
<1>3. 0 \in I
  BY <1>1, <1>2
<1>4. ASSUME NEW i \in Nat, i \in I PROVE i + 1 \in I
  <2>1. SUFFICES ASSUME i + 1 <= n PROVE h[i + 1] = IF i + 1 <= m THEN f[i + 1] ELSE f[m]
    OBVIOUS
  <2>2. i + 1 \in 1 .. n /\ i + 1 - 1 = i /\ h[i] = IF i <= m THEN f[i] ELSE f[m]
    BY <2>1, <1>4
  <2>3. h[i + 1] = IF other[i + 1] = Zero THEN h[i] ELSE Append(h[i], other[i + 1])
    <3>1. h[i + 1] = IF other[i + 1] = Zero THEN h[i + 1 - 1]
                     ELSE Append(h[i + 1 - 1], other[i + 1])
      BY ONLY SMTT(30), <2>2, <1>2
    <3> QED BY ONLY <3>1, <2>2
  <2>4. CASE i + 1 <= m
    <3>1. i + 1 \in 1 .. m /\ i <= m
      BY <2>4
    <3>2. f[i + 1] = IF words[i + 1] = Zero THEN f[i] ELSE Append(f[i], words[i + 1])
      <4>1. f[i + 1] = IF words[i + 1] = Zero THEN f[i + 1 - 1]
                       ELSE Append(f[i + 1 - 1], words[i + 1])
        BY ONLY SMTT(30), <3>1, <1>1
      <4> QED BY ONLY <4>1, <2>2
    <3>3. words[i + 1] = other[i + 1]
      BY <3>1
    <3> QED BY <2>2, <2>3, <2>4, <3>1, <3>2, <3>3
  <2>5. CASE ~ (i + 1 <= m)
    <3>1. i + 1 \in m + 1 .. n
      BY <2>1, <2>5
    <3>2. h[i + 1] = h[i]
      BY <2>3, <3>1
    <3>3. h[i] = f[m]
      <4>1. CASE i <= m
        <5>1. i = m
          BY <4>1, <2>5
        <5> QED BY <5>1, <2>2
      <4>2. CASE ~ (i <= m)
        BY <4>2, <2>2
      <4> QED BY <4>1, <4>2
    <3> QED BY <2>5, <3>2, <3>3
  <2> QED BY <2>4, <2>5
<1>5. Nat \subseteq I
  <2> HIDE DEF I
  <2> QED BY <1>3, <1>4, SetInduction
<1>6. h[n] = f[m]
  <2>1. n \in I
    BY <1>5
  <2>2. CASE n <= m
    <3>1. n = m
      BY <2>2
    <3> QED BY <2>1, <3>1
  <2>3. CASE ~ (n <= m)
    BY <2>1, <2>3
  <2> QED BY <2>2, <2>3
<1> QED BY <1>1, <1>2, <1>6

(* The useful words are words. *)
LEMMA UsefulType ==
  ASSUME NEW words \in Seq(Words), NEW n \in 0 .. Len(words)
  PROVE  UsefulWords(words, n) \in Seq(Words) /\ (n = 0 => UsefulWords(words, n) = << >>)
<1>1. PICK f \in [0 .. n -> Seq(Words)] :
        /\ f[0] = << >> /\ f[n] = UsefulWords(words, n)
        /\ \A i \in 1 .. n :
             f[i] = IF words[i] = Zero THEN f[i - 1] ELSE Append(f[i - 1], words[i])
  BY UsefulExists
<1>2. n \in 0 .. n
  OBVIOUS
<1> QED BY <1>1, <1>2

(* One more word in the reply. *)
LEMMA UsefulAppend ==
  ASSUME NEW words \in Seq(Words), NEW w \in Words
  PROVE  UsefulWords(Append(words, w), Len(Append(words, w))) =
           IF w = Zero THEN UsefulWords(words, Len(words))
           ELSE Append(UsefulWords(words, Len(words)), w)
<1> DEFINE more == Append(words, w)
           n == Len(words)
<1>1. more \in Seq(Words) /\ Len(more) = n + 1 /\ n \in Nat /\ more[n + 1] = w
      /\ \A i \in 1 .. n : more[i] = words[i]
  OBVIOUS
<1> HIDE DEF more
<1>2. PICK f \in [0 .. n + 1 -> Seq(Words)] :
        /\ f[0] = << >> /\ f[n + 1] = UsefulWords(more, n + 1)
        /\ \A i \in 1 .. n + 1 :
             f[i] = IF more[i] = Zero THEN f[i - 1] ELSE Append(f[i - 1], more[i])
  <2>1. n + 1 \in 0 .. Len(more)
    BY <1>1
  <2> QED BY <1>1, <2>1, UsefulExists
<1>3. PICK h \in [0 .. n -> Seq(Words)] :
        /\ h[0] = << >> /\ h[n] = UsefulWords(words, n)
        /\ \A i \in 1 .. n :
             h[i] = IF words[i] = Zero THEN h[i - 1] ELSE Append(h[i - 1], words[i])
  <2>1. n \in 0 .. Len(words)
    BY <1>1
  <2> HIDE DEF n
  <2> QED BY <2>1, UsefulExists
<1> DEFINE I == {i \in Nat : i <= n => f[i] = h[i]}
<1>4. 0 \in I
  BY <1>2, <1>3
<1>5. ASSUME NEW i \in Nat, i \in I PROVE i + 1 \in I
  <2>1. SUFFICES ASSUME i + 1 <= n PROVE f[i + 1] = h[i + 1]
    OBVIOUS
  <2>2. i + 1 \in 1 .. n /\ i + 1 \in 1 .. n + 1 /\ i + 1 - 1 = i /\ f[i] = h[i]
    BY <2>1, <1>1, <1>5
  <2>3. f[i + 1] = IF more[i + 1] = Zero THEN f[i] ELSE Append(f[i], more[i + 1])
    <3>1. f[i + 1] = IF more[i + 1] = Zero THEN f[i + 1 - 1]
                     ELSE Append(f[i + 1 - 1], more[i + 1])
      BY ONLY <2>2, <1>2
    <3> QED BY ONLY <3>1, <2>2
  <2>4. h[i + 1] = IF words[i + 1] = Zero THEN h[i] ELSE Append(h[i], words[i + 1])
    <3>1. h[i + 1] = IF words[i + 1] = Zero THEN h[i + 1 - 1]
                     ELSE Append(h[i + 1 - 1], words[i + 1])
      BY ONLY <2>2, <1>3
    <3> QED BY ONLY <3>1, <2>2
  <2> QED BY <2>2, <2>3, <2>4, <1>1
<1>6. Nat \subseteq I
  <2> HIDE DEF I
  <2> QED BY <1>4, <1>5, SetInduction
<1>7. f[n] = h[n]
  BY <1>1, <1>6
<1>8. f[n + 1] = IF more[n + 1] = Zero THEN f[n] ELSE Append(f[n], more[n + 1])
  <2>1. n + 1 \in 1 .. n + 1 /\ n + 1 - 1 = n
    BY <1>1
  <2> QED BY <2>1, <1>2
<1> QED BY <1>1, <1>2, <1>3, <1>7, <1>8 DEF more

-----------------------------------------------------------------------------
(* The words of messages. *)

(* A message is a header and its chunks. *)
LEMMA MessageType ==
  ASSUME NEW m \in Nat, NEW c \in Nat
  PROVE  /\ MessageWords(m, c) \in Seq(Words) /\ Len(MessageWords(m, c)) = c + 1
         /\ \A i \in 1 .. c + 1 : MessageWords(m, c)[i] = <<m, i - 1>>
BY DEF MessageWords, Words

(* WordsBehind, for messages h. *)
BehindOf(h, n) ==
  LET words[i \in 0 .. Len(h) - n] ==
        IF i = 0 THEN << >> ELSE words[i - 1] \o MessageWords(n + i, h[n + i])
  IN  words[Len(h) - n]

(* BehindOf is a function computed message by message. *)
LEMMA BehindExists ==
  ASSUME NEW h \in Seq(Nat), NEW n \in 0 .. Len(h)
  PROVE  \E f \in [0 .. Len(h) - n -> Seq(Words)] :
           /\ f[0] = << >> /\ f[Len(h) - n] = BehindOf(h, n)
           /\ \A i \in 1 .. Len(h) - n : f[i] = f[i - 1] \o MessageWords(n + i, h[n + i])
<1> DEFINE k == Len(h) - n
           message == [i \in 1 .. k |-> MessageWords(n + i, h[n + i])]
           g == [p \in (1 .. k) \X Seq(Words) |-> p[2] \o message[p[1]]]
<1>1. k \in Nat /\ message \in [1 .. k -> Seq(Words)]
  <2>1. ASSUME NEW i \in 1 .. k PROVE MessageWords(n + i, h[n + i]) \in Seq(Words)
    <3>1. n + i \in 1 .. Len(h) /\ n + i \in Nat /\ h[n + i] \in Nat
      OBVIOUS
    <3> QED BY <3>1, MessageType
  <2>2. k \in Nat
    OBVIOUS
  <2> DEFINE S == Seq(Words)
  <2>3. \A i \in 1 .. k : MessageWords(n + i, h[n + i]) \in S
    BY <2>1
  <2> HIDE DEF k, S
  <2>4. message \in [1 .. k -> S]
    BY <2>3
  <2> QED BY <2>2, <2>4 DEF S
<1> HIDE DEF message
<1>2. g \in [(1 .. k) \X Seq(Words) -> Seq(Words)] /\ << >> \in Seq(Words)
  <2>1. ASSUME NEW p \in (1 .. k) \X Seq(Words) PROVE p[2] \o message[p[1]] \in Seq(Words)
    <3>1. p[2] \in Seq(Words) /\ message[p[1]] \in Seq(Words)
      BY <1>1
    <3> QED BY <3>1, ConcatProperties
  <2> QED BY <2>1
<1>3. PICK f \in [0 .. k -> Seq(Words)] :
        f[0] = << >> /\ \A i \in 1 .. k : f[i] = g[<<i, f[i - 1]>>]
  <2> HIDE DEF g, k
  <2>1. Computable(k, Seq(Words), << >>, g)
    BY <1>1, <1>2, Recursion
  <2> QED BY <2>1 DEF Computable
<1>4. ASSUME NEW i \in 1 .. k PROVE f[i] = f[i - 1] \o message[i]
  <2>1. i - 1 \in 0 .. k
    BY <1>1
  <2>2. f[i - 1] \in Seq(Words) /\ f[i] = g[<<i, f[i - 1]>>]
    <3> HIDE DEF g, k
    <3> QED BY <1>3, <2>1
  <2>3. <<i, f[i - 1]>> \in (1 .. k) \X Seq(Words)
    BY <2>2
  <2> QED BY <2>2, <2>3
<1> HIDE DEF g
<1>5. \A i \in 1 .. k : message[i] = MessageWords(n + i, h[n + i])
  BY DEF message
<1> DEFINE Body(u) == [i \in 0 .. k |->
             IF i = 0 THEN << >> ELSE u[i - 1] \o MessageWords(n + i, h[n + i])]
           w == CHOOSE u : u = Body(u)
<1>6. f = Body(f)
  <2>1. ASSUME NEW i \in 0 .. k
        PROVE  f[i] = IF i = 0 THEN << >> ELSE f[i - 1] \o MessageWords(n + i, h[n + i])
    <3>1. CASE i = 0
      BY <3>1, <1>3
    <3>2. CASE i # 0
      <4>1. i \in 1 .. k
        BY <3>2, <1>1
      <4> HIDE DEF k
      <4> QED BY <4>1, <3>2, <1>4, <1>5
    <3> QED BY <3>1, <3>2
  <2>2. f = [i \in 0 .. k |-> f[i]]
    BY <1>3
  <2> HIDE DEF k
  <2> QED BY <2>1, <2>2
<1>7. w = Body(w)
  <2> HIDE DEF Body
  <2> QED BY <1>6
<1>8. BehindOf(h, n) = w[k]
  BY DEF BehindOf
<1> HIDE DEF w
<1> DEFINE I == {i \in Nat : i <= k => w[i] = f[i]}
<1>9. 0 \in I
  <2>1. w[0] = << >>
    BY <1>1, <1>7
  <2> QED BY <1>3, <2>1
<1>10. ASSUME NEW i \in Nat, i \in I PROVE i + 1 \in I
  <2>1. SUFFICES ASSUME i + 1 <= k PROVE w[i + 1] = f[i + 1]
    OBVIOUS
  <2> DEFINE j == i + 1
  <2>2. j \in 1 .. k /\ j # 0 /\ j - 1 = i /\ j \in 0 .. k /\ w[i] = f[i]
    BY <2>1, <1>1, <1>10
  <2> HIDE DEF j, k
  <2>3. w[j] = Body(w)[j]
    BY <1>7
  <2>4. Body(w)[j] = w[j - 1] \o MessageWords(n + j, h[n + j])
    BY <2>2
  <2> HIDE DEF Body
  <2>5. f[j] = f[j - 1] \o message[j]
    BY <2>2, <1>4
  <2>6. message[j] = MessageWords(n + j, h[n + j])
    BY <2>2, <1>5
  <2>7. w[j - 1] = f[j - 1]
    BY <2>2
  <2> QED BY <2>3, <2>4, <2>5, <2>6, <2>7 DEF j
<1>11. Nat \subseteq I
  <2> HIDE DEF I, Body
  <2> QED BY <1>9, <1>10, SetInduction
<1>12. w[k] = f[k]
  <2> HIDE DEF Body, k
  <2> QED BY <1>1, <1>11
<1>13. \A i \in 1 .. k : f[i] = f[i - 1] \o MessageWords(n + i, h[n + i])
  <2> HIDE DEF Body, k, I
  <2> QED BY <1>4, <1>5
<1> HIDE DEF I, Body
<1> QED BY <1>3, <1>8, <1>12, <1>13

(* It gives words. *)
LEMMA BehindType ==
  ASSUME NEW h \in Seq(Nat), NEW n \in 0 .. Len(h)
  PROVE  BehindOf(h, n) \in Seq(Words)
<1>1. PICK f \in [0 .. Len(h) - n -> Seq(Words)] :
        /\ f[0] = << >> /\ f[Len(h) - n] = BehindOf(h, n)
        /\ \A i \in 1 .. Len(h) - n : f[i] = f[i - 1] \o MessageWords(n + i, h[n + i])
  BY BehindExists
<1>2. Len(h) - n \in 0 .. Len(h) - n
  OBVIOUS
<1> QED BY <1>1, <1>2

(***************************************************************************)
(* The inductive invariant.                                                *)
(***************************************************************************)
HostTypes ==
  /\ h2f \in Seq(H2FPayloads) /\ acked \in 0 .. Len(h2f)
  /\ buf \in Seq(Words) /\ sums \in Seq(BOOLEAN)
  /\ cmd \in [h2f : Sizes, f2h : Sizes, permitted : BOOLEAN, spin : Nat]
  /\ resend \in BOOLEAN /\ hpc \in {"prepare", "wait"} /\ f2hGot \in Seq(Words)

LinkTypes ==
  /\ sentChunks \in Nat /\ errors \in Nat /\ corrupt \subseteq 2 .. MaxMsgWords
  /\ inQ \in Seq(ChunkType) /\ Len(inQ) <= 1 /\ idx \in 0 .. DataPerChunk - 1
  /\ outQ \in Seq(Words) /\ Len(outQ) <= 2 /\ error \in BOOLEAN

ReadTypes ==
  /\ readState \in ReadStates /\ rawReadChunksRemaining \in Sizes
  /\ readDataChunksRemaining \in Sizes /\ noMoreReadData \in BOOLEAN
  /\ h2fErrRecovery \in RecoveryType \cup {NoRecovery}
  /\ readBuffer \in Seq(Words) /\ Len(readBuffer) <= 2

ClientTypes == partial \in Seq(Words) /\ h2fGot \in Seq(Seq(Words))

WriteTypes ==
  /\ writeState \in WriteStates /\ rawWriteChunksRemaining \in Sizes
  /\ writeDataChunksRemaining \in Nat /\ numUsefulWriteChunks \in Sizes
  /\ numWrittenChunks \in Sizes /\ spinCycles \in Nat /\ reply \in Seq(Words)

F2HTypes ==
  /\ writeDataQ \in Seq(Words) /\ Len(writeDataQ) <= 2
  /\ f2h \in Seq(F2HPayloads) /\ f2hSent \in Seq(Words)

TypeInv ==
  HostTypes /\ LinkTypes /\ ReadTypes /\ ClientTypes /\ WriteTypes /\ F2HTypes

(* The buffer of a transaction, and the one to be sent again.              *)
BufferInv ==
  /\ hpc = "wait" \/ resend =>
       LegalChunks(Len(sums)) /\ Len(buf) = DataPerChunk * Len(sums) /\ Len(buf) > 1
  /\ hpc = "wait" => cmd.h2f = Len(buf) - 1 /\ cmd.f2h > 0

Before  == hpc = "wait" /\ readState = "READY" /\ reply = << >>
Running == hpc = "wait" /\ readState # "READY"

(* Where a transaction is.                                                 *)
PhaseInv ==
  /\ readState = "READY" <=> writeState = "READY"
  /\ hpc = "prepare" => readState = "READY"
  /\ Before \/ Running \/ Replied \/ hpc = "prepare"
  /\ Running =>
       /\ Len(reply) + rawWriteChunksRemaining = cmd.f2h
       /\ writeState = "LAST" <=> rawWriteChunksRemaining = 0
       /\ readState = "DONE" <=> rawReadChunksRemaining = 0
       /\ writeState = "TRY" => reply = << >>
       /\ writeState \in {"TRY", "START", "CONT"} => cmd.permitted
       /\ writeState = "DUMMY" => ~ cmd.permitted
       /\ writeState \in {"START", "CONT"} => numWrittenChunks = Len(reply)
       /\ rawReadChunksRemaining < Len(buf)

(* The words of the buffer that are not taken yet are in the pipe.         *)
Left == IF inQ = << >> THEN 0 ELSE DataPerChunk - idx

Untaken == IF Replied THEN 0 ELSE IF Before THEN Len(buf) ELSE rawReadChunksRemaining

PipeInv ==
  /\ inQ = << >> => idx = 0
  /\ hpc = "prepare" => inQ = << >> /\ outQ = << >>
  /\ hpc = "wait" =>
       /\ sentChunks <= Len(sums)
       /\ Len(outQ) + Left + DataPerChunk * (Len(sums) - sentChunks) = Untaken

(* The recovery state, from the errant word to the one it resumes at.      *)
RecoveryInv ==
  /\ readState = "CONT" => readDataChunksRemaining > 0
  /\ readState \in {"START", "CONT"} => h2fErrRecovery = NoRecovery
  /\ readState = "ERROR" => h2fErrRecovery # NoRecovery
  /\ hpc = "prepare" /\ h2fErrRecovery # NoRecovery => resend
  /\ readState = "RECOVER" =>
       /\ h2fErrRecovery # NoRecovery
       /\ h2fErrRecovery.rawChunksRemaining <= rawReadChunksRemaining
  /\ h2fErrRecovery # NoRecovery =>
       /\ h2fErrRecovery.rawChunksRemaining < Len(buf)
       /\ h2fErrRecovery.readState = "CONT" => h2fErrRecovery.dataChunksRemaining > 0

(* What the reply holds so far, and what it says when it is complete.      *)
ReplyInv ==
  /\ Replied \/ (Running /\ (reply # << >> \/ writeState \in {"START", "CONT"})) =>
       LET sent == IF Replied THEN cmd.f2h ELSE Len(reply)
       IN  /\ numUsefulWriteChunks <= sent
           /\ numUsefulWriteChunks > 0 => reply[numUsefulWriteChunks] # Zero
           /\ \A i \in numUsefulWriteChunks + 1 .. sent : reply[i] = Zero
           /\ ~ cmd.permitted => numUsefulWriteChunks = 0
  /\ Replied =>
       reply[Len(reply)] = <<numUsefulWriteChunks,
                             IF h2fErrRecovery = NoRecovery THEN 0
                             ELSE h2fErrRecovery.rawChunksRemaining>>

(* The words of the FPGA's client: those the host has, those in the reply, *)
(* those that wait.                                                        *)
InReply ==
  IF (Running \/ Replied) /\ cmd.permitted
  THEN UsefulWords(reply, IF Replied THEN numUsefulWriteChunks ELSE Len(reply))
  ELSE << >>

SentWords == {w \in Words : w[1] \in DOMAIN f2h /\ w[2] \in 0 .. f2h[w[1]]}

FlowInv ==
  /\ f2hSent = f2hGot \o InReply \o writeDataQ
  /\ f2hSent \in Seq(SentWords)
  /\ Len(f2h) <= MaxF2H
  /\ f2hSent = << >> => f2h = << >>
  /\ f2hSent # << >> => f2hSent[Len(f2hSent)][1] = Len(f2h)

EdgeInv ==
  /\ TypeInv /\ BufferInv /\ PhaseInv /\ PipeInv /\ RecoveryInv /\ ReplyInv /\ FlowInv

-----------------------------------------------------------------------------
(* The invariant holds at the start, and what it says of a phase. *)

(* The invariant holds at the start. *)
LEMMA InitEdge == Init => EdgeInv
<1> SUFFICES ASSUME Init PROVE EdgeInv
  OBVIOUS
<1>0. 0 \in Sizes /\ 0 \in 0 .. DataPerChunk - 1
  BY SizeConstants DEF Sizes
<1>1. HostTypes
  <2>1. h2f \in Seq(H2FPayloads) /\ acked \in 0 .. Len(h2f)
    BY DEF Init
  <2>2. buf \in Seq(Words) /\ sums \in Seq(BOOLEAN) /\ f2hGot \in Seq(Words)
    BY DEF Init
  <2>3. cmd \in [h2f : Sizes, f2h : Sizes, permitted : BOOLEAN, spin : Nat]
    BY <1>0 DEF Init
  <2>4. resend \in BOOLEAN /\ hpc \in {"prepare", "wait"}
    BY DEF Init
  <2> QED BY <2>1, <2>2, <2>3, <2>4 DEF HostTypes
<1>10. LinkTypes
  <2>1. inQ \in Seq(ChunkType) /\ outQ \in Seq(Words) /\ Len(inQ) <= 1 /\ Len(outQ) <= 2
    BY DEF Init
  <2>2. sentChunks \in Nat /\ errors \in Nat /\ corrupt \subseteq 2 .. MaxMsgWords
        /\ idx \in 0 .. DataPerChunk - 1 /\ error \in BOOLEAN
    BY <1>0 DEF Init
  <2> QED BY <2>1, <2>2 DEF LinkTypes
<1>2. ReadTypes
  <2>1. readBuffer \in Seq(Words) /\ Len(readBuffer) <= 2
    BY DEF Init
  <2>2. h2fErrRecovery \in RecoveryType \cup {NoRecovery}
    BY DEF Init
  <2>3. readState \in ReadStates /\ rawReadChunksRemaining \in Sizes
        /\ readDataChunksRemaining \in Sizes /\ noMoreReadData \in BOOLEAN
    BY <1>0 DEF Init, ReadStates
  <2> QED BY <2>1, <2>2, <2>3 DEF ReadTypes
<1>11. ClientTypes
  BY DEF Init, ClientTypes
<1>3. WriteTypes /\ F2HTypes
  BY <1>0 DEF Init, WriteTypes, F2HTypes, WriteStates
<1>4. hpc = "prepare" /\ ~ resend /\ ~ Replied /\ ~ Running
  BY DEF Init, Replied, Running
<1>5. BufferInv /\ PhaseInv
  BY <1>4 DEF Init, BufferInv, PhaseInv
<1>6. PipeInv /\ RecoveryInv
  BY <1>4 DEF Init, PipeInv, RecoveryInv
<1>7. ReplyInv
  BY <1>4 DEF ReplyInv
<1>8. FlowInv
  <2>1. InReply = << >>
    BY <1>4 DEF InReply
  <2>2. << >> = << >> \o << >> \o << >>
    OBVIOUS
  <2>3. Len(f2h) <= MaxF2H /\ f2hSent \in Seq(SentWords)
    BY SizeConstants DEF Init
  <2> QED BY <2>1, <2>2, <2>3 DEF Init, FlowInv
<1> QED BY <1>1, <1>10, <1>11, <1>2, <1>3, <1>5, <1>6, <1>7, <1>8 DEF EdgeInv, TypeInv

(* Variables that do not change keep their types. *)
LEMMA TypesStay ==
  /\ HostTypes /\ UNCHANGED hostVars => HostTypes'
  /\ LinkTypes /\ UNCHANGED linkVars /\ UNCHANGED marshVars => LinkTypes'
  /\ ReadTypes /\ UNCHANGED readVars => ReadTypes'
  /\ ClientTypes /\ UNCHANGED clientVars => ClientTypes'
  /\ WriteTypes /\ UNCHANGED writeVars => WriteTypes'
  /\ F2HTypes /\ UNCHANGED f2hVars => F2HTypes'
<1>1. HostTypes /\ UNCHANGED hostVars => HostTypes'
  BY DEF HostTypes, hostVars
<1>2. LinkTypes /\ UNCHANGED linkVars /\ UNCHANGED marshVars => LinkTypes'
  BY DEF LinkTypes, linkVars, marshVars
<1>3. ReadTypes /\ UNCHANGED readVars => ReadTypes'
  BY DEF ReadTypes, readVars
<1>4. ClientTypes /\ UNCHANGED clientVars => ClientTypes'
  BY DEF ClientTypes, clientVars
<1>5. WriteTypes /\ UNCHANGED writeVars => WriteTypes'
  BY DEF WriteTypes, writeVars
<1>6. F2HTypes /\ UNCHANGED f2hVars => F2HTypes'
  BY DEF F2HTypes, f2hVars
<1> QED BY <1>1, <1>2, <1>3, <1>4, <1>5, <1>6

(* The types arithmetic needs. *)
LEMMA ReplyTypes ==
  ASSUME EdgeInv
  PROVE  /\ Len(reply) \in Nat /\ cmd.f2h \in Sizes /\ cmd.h2f \in Sizes
         /\ cmd.permitted \in BOOLEAN /\ cmd.spin \in Nat
         /\ rawWriteChunksRemaining \in Nat /\ rawReadChunksRemaining \in Nat
         /\ Len(buf) \in Nat /\ Len(sums) \in Nat /\ Len(reply) >= 0
         /\ reply = << >> <=> Len(reply) = 0
         /\ MaxMsgWords \in Nat
<1>1. reply \in Seq(Words) /\ buf \in Seq(Words) /\ sums \in Seq(BOOLEAN)
      /\ cmd \in [h2f : Sizes, f2h : Sizes, permitted : BOOLEAN, spin : Nat]
  BY DEF EdgeInv, TypeInv, HostTypes, WriteTypes
<1>2. rawWriteChunksRemaining \in Nat /\ rawReadChunksRemaining \in Nat /\ MaxMsgWords \in Nat
  BY SizeConstants DEF EdgeInv, TypeInv, ReadTypes, WriteTypes, Sizes
<1>3. reply = << >> <=> Len(reply) = 0
  BY <1>1
<1> QED BY <1>1, <1>2, <1>3

(* A transaction is in one phase at a time. *)
LEMMA Phases ==
  ASSUME EdgeInv
  PROVE  /\ readState # "READY" => Running
         /\ Running => ~ Replied /\ ~ Before /\ hpc = "wait"
         /\ Before => ~ Replied /\ ~ Running /\ hpc = "wait"
         /\ Replied => ~ Running /\ ~ Before /\ hpc = "wait" /\ readState = "READY"
         /\ hpc = "prepare" => ~ Running /\ ~ Before /\ ~ Replied /\ readState = "READY"
         /\ readState = "READY" <=> writeState = "READY"
<1>1. hpc \in {"prepare", "wait"} /\ Len(reply) \in Nat /\ cmd.f2h \in Nat
      /\ (reply = << >> => Len(reply) = 0)
  BY ReplyTypes DEF EdgeInv, TypeInv, HostTypes, Sizes
<1>2. readState # "READY" => Running
  BY <1>1 DEF EdgeInv, PhaseInv, Running
<1>3. Running => ~ Replied /\ ~ Before /\ hpc = "wait"
  BY <1>1, ReplyTypes DEF EdgeInv, PhaseInv, Running, Replied, Before
<1>4. Before => ~ Replied /\ ~ Running /\ hpc = "wait"
  BY <1>1 DEF Before, Replied, Running
<1>5. hpc = "prepare" => ~ Running /\ ~ Before /\ ~ Replied /\ readState = "READY"
  BY DEF EdgeInv, PhaseInv, Running, Before, Replied
<1>6. Replied => hpc = "wait"
  BY DEF Replied
<1>7. readState = "READY" <=> writeState = "READY"
  BY DEF EdgeInv, PhaseInv
<1> QED BY <1>2, <1>3, <1>4, <1>5, <1>6, <1>7
-----------------------------------------------------------------------------
(* Steps of the host. *)

(* The stream stays as it is when no word of it moves. *)
LEMMA FlowStays ==
  ASSUME FlowInv, UNCHANGED f2hVars, f2hGot' = f2hGot, InReply' = InReply
  PROVE  FlowInv'
<1>1. f2hSent' = f2hSent /\ writeDataQ' = writeDataQ /\ f2h' = f2h
  BY DEF f2hVars
<1>2. SentWords' = SentWords
  BY <1>1 DEF SentWords
<1> QED BY <1>1, <1>2 DEF FlowInv

(* What the host writes and what the clients read changes nothing else.    *)
LEMMA Quiet ==
  ASSUME EdgeInv,
         UNCHANGED <<buf, sums, cmd, resend, hpc, f2hGot, sentChunks, marshVars, readState,
                     rawReadChunksRemaining, readDataChunksRemaining, h2fErrRecovery,
                     writeVars, f2hVars>>
  PROVE  BufferInv' /\ PhaseInv' /\ PipeInv' /\ RecoveryInv' /\ ReplyInv' /\ FlowInv'
<1>0. /\ BufferInv /\ PhaseInv /\ PipeInv /\ RecoveryInv /\ ReplyInv /\ FlowInv
  BY DEF EdgeInv
<1>1. Replied' = Replied /\ Running' = Running /\ Before' = Before
  BY DEF Replied, Running, Before, writeVars
<1>2. BufferInv'
  BY <1>0 DEF BufferInv
<1>3. PhaseInv'
  BY <1>0, <1>1 DEF PhaseInv, writeVars
<1>4. PipeInv'
  BY <1>0, <1>1 DEF PipeInv, Untaken, Left, marshVars
<1>5. RecoveryInv'
  BY <1>0 DEF RecoveryInv
<1>6. ReplyInv'
  BY <1>0, <1>1 DEF ReplyInv, writeVars
<1>7. InReply' = InReply
  BY <1>1 DEF InReply, UsefulWords, writeVars
<1> QED BY <1>0, <1>2, <1>3, <1>4, <1>5, <1>6, <1>7, FlowStays

(* Write puts a message into the window. *)
LEMMA HostWriteStep == ASSUME EdgeInv, HostWrite PROVE EdgeInv'
<1>0. HostTypes /\ LinkTypes /\ ReadTypes /\ ClientTypes /\ WriteTypes /\ F2HTypes
  BY DEF EdgeInv, TypeInv
<1>1. HostTypes'
  <2>1. PICK chunks \in H2FPayloads : h2f' = Append(h2f, chunks)
    BY DEF HostWrite
  <2>2. h2f \in Seq(H2FPayloads)
    BY <1>0 DEF HostTypes
  <2>3. h2f' \in Seq(H2FPayloads) /\ Len(h2f') = Len(h2f) + 1 /\ Len(h2f) \in Nat
    BY <2>1, <2>2
  <2>4. acked' \in 0 .. Len(h2f')
    BY <1>0, <2>3 DEF HostTypes, HostWrite
  <2> QED BY <1>0, <2>3, <2>4 DEF HostTypes, HostWrite
<1>2. UNCHANGED <<linkVars, marshVars, readVars, clientVars, writeVars, f2hVars>>
  BY DEF HostWrite
<1>3. BufferInv' /\ PhaseInv' /\ PipeInv' /\ RecoveryInv' /\ ReplyInv' /\ FlowInv'
  BY Quiet DEF HostWrite, linkVars, readVars
<1> QED BY <1>0, <1>1, <1>2, <1>3, TypesStay DEF EdgeInv, TypeInv

(* The client takes a word that was read. *)
LEMMA ClientReadStep == ASSUME EdgeInv, ClientRead PROVE EdgeInv'
<1>0. HostTypes /\ LinkTypes /\ ReadTypes /\ ClientTypes /\ WriteTypes /\ F2HTypes
  BY DEF EdgeInv, TypeInv
<1>1. readBuffer \in Seq(Words) /\ readBuffer # << >> /\ Len(readBuffer) <= 2
  BY <1>0 DEF ReadTypes, ClientRead
<1>2. Head(readBuffer) \in Words /\ readBuffer' \in Seq(Words) /\ Len(readBuffer') <= 2
  BY <1>1 DEF ClientRead
<1>3. ReadTypes'
  BY <1>0, <1>2 DEF ReadTypes, ClientRead
<1>4. ClientTypes'
  <2> DEFINE words == Append(partial, Head(readBuffer))
  <2>1. words \in Seq(Words) /\ partial \in Seq(Words) /\ h2fGot \in Seq(Seq(Words))
    BY <1>0, <1>2 DEF ClientTypes
  <2>2. \/ h2fGot' = Append(h2fGot, words) /\ partial' = << >>
        \/ partial' = words /\ UNCHANGED h2fGot
    BY DEF ClientRead
  <2> HIDE DEF words
  <2>3. CASE h2fGot' = Append(h2fGot, words) /\ partial' = << >>
    BY <2>1, <2>3 DEF ClientTypes
  <2>4. CASE partial' = words /\ UNCHANGED h2fGot
    BY <2>1, <2>4 DEF ClientTypes
  <2> QED BY <2>2, <2>3, <2>4
<1>5. UNCHANGED <<hostVars, linkVars, marshVars, writeVars, f2hVars>>
  BY DEF ClientRead
<1>6. BufferInv' /\ PhaseInv' /\ PipeInv' /\ RecoveryInv' /\ ReplyInv' /\ FlowInv'
  BY Quiet DEF ClientRead, linkVars, hostVars
<1> QED BY <1>0, <1>3, <1>4, <1>5, <1>6, TypesStay DEF EdgeInv, TypeInv

(* Nothing changes. *)
LEMMA StutterStep == ASSUME EdgeInv, UNCHANGED vars PROVE EdgeInv'
<1>1. UNCHANGED <<hostVars, linkVars, marshVars, readVars, clientVars, writeVars, f2hVars>>
  BY DEF vars
<1>2. BufferInv' /\ PhaseInv' /\ PipeInv' /\ RecoveryInv' /\ ReplyInv' /\ FlowInv'
  BY <1>1, Quiet DEF hostVars, linkVars, readVars
<1> QED BY <1>1, <1>2, TypesStay DEF EdgeInv, TypeInv

(* The window holds words. *)
LEMMA HostMessages ==
  ASSUME HostTypes
  PROVE  /\ h2f \in Seq(Nat) /\ acked \in 0 .. Len(h2f) /\ WindowWords = BehindOf(h2f, acked)
         /\ WindowWords \in Seq(Words)
<1>1. h2f \in Seq(H2FPayloads) /\ acked \in 0 .. Len(h2f)
  BY DEF HostTypes
<1>2. H2FPayloads \subseteq Nat
  BY SizeConstants DEF Sizes
<1>3. h2f \in Seq(Nat)
  BY <1>1, <1>2, SeqMonotonic
<1>4. WindowWords = BehindOf(h2f, acked)
  BY DEF WindowWords, WordsBehind, BehindOf
<1> QED BY <1>1, <1>3, <1>4, BehindType

(* A buffer holds what was prepared, or it is a full window. *)
LEMMA PreparedFits ==
  ASSUME NEW m \in Nat, NEW n, LegalChunks(n),
         LegalBufSize(PreparedSize(m)) = RawChunkWords * n
  PROVE  m <= DataPerChunk * n \/ DataPerChunk * n = MaxWriteWords
<1> DEFINE r == RawChunkWords
           d == DataPerChunk
           g == MinMsgWords
           p == (m + d - 1) \div d
           words == p * r
           q == (words + g - 1) \div g
<1>1. /\ r \in Nat \ {0} /\ d = r - 1 /\ d \in Nat \ {0} /\ g \in Nat \ {0}
      /\ MaxMsgWords \in Nat /\ n \in Nat \ {0}
  BY SizeConstants, LegalFacts
<1>2. PreparedSize(m) = words
  BY <1>1, LinkAssumption DEF PreparedSize, CheckedSize
<1>3. p \in Nat /\ m <= d * p
  <2>1. m + d - 1 \in Nat
    BY <1>1
  <2>2. p \in Nat /\ m + d - 1 < d * p + d
    BY <1>1, <2>1, Division
  <2> HIDE DEF p, d
  <2>3. d * p \in Nat
    BY <1>1, <2>2
  <2> QED BY <1>1, <2>2, <2>3
<1> HIDE DEF p
<1>4. words \in Nat
  BY <1>1, <1>3
<1>5. LegalBufSize(words) = IF q * g > MaxMsgWords THEN MaxMsgWords
                            ELSE IF q * g < g THEN g ELSE q * g
  BY DEF LegalBufSize
<1>6. q * g \in Nat /\ q * g >= words
  <2> HIDE DEF words
  <2>1. words + g - 1 \in Nat
    BY <1>1, <1>4
  <2>2. q \in Nat /\ words + g - 1 < g * q + g
    BY <1>1, <2>1, Division
  <2> HIDE DEF q
  <2>3. g * q \in Nat /\ q * g = g * q
    BY <1>1, <2>2
  <2> QED BY <1>1, <1>4, <2>2, <2>3
<1> HIDE DEF q
<1>7. CASE q * g > MaxMsgWords
  <2>1. r * n = MaxMsgWords
    BY <1>2, <1>5, <1>7
  <2>2. DataWords(MaxMsgWords) = MaxWriteWords
    BY DEF DataWords, MaxWriteWords
  <2>3. DataWords(r * n) = d * n
    BY LegalFacts
  <2> QED BY <2>1, <2>2, <2>3
<1>8. CASE ~ (q * g > MaxMsgWords)
  <2>1. r * n >= words
    <3> DEFINE qg == q * g
    <3> HIDE DEF words, qg
    <3>1. r * n = IF qg < g THEN g ELSE qg
      BY <1>2, <1>5, <1>8 DEF qg
    <3> QED BY <3>1, <1>1, <1>4, <1>6 DEF qg
  <2>2. r * n >= r * p
    BY <2>1, <1>1, <1>3
  <2>3. n >= p
    BY <2>2, <1>1, <1>3
  <2>4. d * n >= d * p
    BY <2>3, <1>1, <1>3
  <2>5. d * n \in Nat /\ d * p \in Nat
    BY <1>1, <1>3
  <2> QED BY <2>4, <2>5, <1>3
<1> QED BY <1>7, <1>8

(* The buffer of a new transaction. *)
LEMMA FilledType ==
  ASSUME EdgeInv, NEW raw, NEW k \in Nat, DataWords(raw) = k
  PROVE  Filled(raw) \in Seq(Words) /\ Len(Filled(raw)) = k
<1> DEFINE used == DataWords(PreparedSize(NWords + 1))
           words == <<Command>> \o WindowWords \o <<Zero>>
<1>1. WindowWords \in Seq(Words)
  BY HostMessages DEF EdgeInv, TypeInv
<1>2. Zero \in Words /\ Command \in Words /\ Stale \in Words
  BY SizeConstants DEF Zero, Command, Stale, Words
<1>3. words \in Seq(Words)
  <2>1. <<Command>> \in Seq(Words) /\ <<Zero>> \in Seq(Words)
    BY <1>2
  <2> QED BY <1>1, <2>1, ConcatProperties
<1> HIDE DEF used, words
<1>4. Filled(raw) = [i \in 1 .. k |->
                       IF i <= Len(words) THEN words[i] ELSE IF i <= used THEN Zero ELSE Stale]
  BY DEF Filled, used, words
<1>5. \A i \in 1 .. k :
        (IF i <= Len(words) THEN words[i] ELSE IF i <= used THEN Zero ELSE Stale) \in Words
  BY <1>2, <1>3
<1> QED BY <1>4, <1>5

(* The size of a fresh buffer is a number. *)
LEMMA PreparedType == ASSUME EdgeInv PROVE PreparedSize(NWords + 1) \in Nat
<1>1. NWords + 1 \in Nat
  <2>1. WindowWords \in Seq(Words)
    BY HostMessages DEF EdgeInv, TypeInv
  <2> QED BY <2>1 DEF NWords
<1> DEFINE n == NWords + 1
           d == RawChunkWords - 1
<1>2. n + d - 1 \in Nat /\ d \in Nat \ {0} /\ RawChunkWords \in Nat
  BY <1>1, SizeConstants
<1>3. PreparedSize(n) = ((n + d - 1) \div d) * RawChunkWords
  BY LinkAssumption DEF PreparedSize, CheckedSize
<1> HIDE DEF n, d
<1>4. (n + d - 1) \div d \in Nat
  BY <1>2, Division
<1>5. PreparedSize(n) \in Nat
  BY <1>2, <1>3, <1>4
<1> QED BY <1>5 DEF n
(* The buffer that is prepared, or prepared again, has a legal size and room. *)
LEMMA HostPrepareBuffer ==
  ASSUME EdgeInv, HostPrepare
  PROVE  \E n : /\ LegalChunks(n) /\ Len(buf') = DataPerChunk * n /\ Len(sums') = n
                /\ buf' \in Seq(Words) /\ sums' \in Seq(BOOLEAN)
                /\ cmd' \in [h2f : Sizes, f2h : Sizes, permitted : BOOLEAN, spin : Nat]
                /\ cmd'.h2f = Len(buf') - 1 /\ cmd'.f2h > 0
                /\ resend => Len(buf') = Len(buf)
                /\ Len(buf') > 1
<1> DEFINE words == IF resend THEN (Len(buf) * RawChunkWords) \div DataPerChunk
                    ELSE PreparedSize(NWords + 1)
           raw == LegalBufSize(words)
<1>0. HostTypes /\ BufferInv
  BY DEF EdgeInv, TypeInv
<1>1. PICK permitted \in BOOLEAN, size \in ReadSizes \cup {MinMsgWords} :
        /\ cmd' = [h2f |-> DataWords(raw) - 1, f2h |-> size - 1, permitted |-> permitted,
                   spin |-> IF permitted /\ words <= 1 THEN SpinCycles ELSE 0]
        /\ IF resend
           THEN /\ buf' = [buf EXCEPT ![1] = Command] /\ sums' = [sums EXCEPT ![1] = TRUE]
           ELSE /\ buf' = Filled(raw)
                /\ \E stale \in StaleSums :
                     sums' = [c \in 1 .. raw \div RawChunkWords |->
                                c * RawChunkWords <= words \/ stale]
  BY DEF HostPrepare
<1>2. size \in Nat /\ size - 1 \in Sizes /\ size - 1 > 0
  <2>1. ASSUME NEW n, LegalChunks(n)
        PROVE  RawChunkWords * n - 1 \in Sizes /\ RawChunkWords * n \in Nat /\ RawChunkWords * n - 1 > 0
    <3> DEFINE w == RawChunkWords * n
    <3>1. w \in MinMsgWords .. MaxMsgWords
      BY <2>1 DEF LegalChunks
    <3> HIDE DEF w
    <3>2. w - 1 \in Sizes /\ w \in Nat /\ w - 1 > 0
      BY <3>1, SizeConstants DEF Sizes
    <3> QED BY <3>2 DEF w
  <2>2. CASE size = MinMsgWords
    BY <2>2, SizeConstants DEF Sizes
  <2>3. CASE size \in ReadSizes
    <3>1. PICK n \in 1 .. MaxMsgWords : size = LegalBufSize(n)
      BY <2>3, LinkAssumption
    <3>2. n \in Nat
      OBVIOUS
    <3>3. PICK k : LegalChunks(k) /\ size = RawChunkWords * k
      BY <3>1, <3>2, LegalSize
    <3> QED BY <3>3, <2>1
  <2> QED BY <2>2, <2>3
<1>3. words \in Nat /\ \E n : LegalChunks(n) /\ raw = RawChunkWords * n /\ (resend => n = Len(sums))
  <2>1. CASE resend
    <3>1. LegalChunks(Len(sums)) /\ Len(buf) = DataPerChunk * Len(sums)
      BY <1>0, <2>1 DEF BufferInv
    <3>2. words = RawChunkWords * Len(sums) /\ LegalBufSize(RawChunkWords * Len(sums)) = RawChunkWords * Len(sums)
      BY <2>1, <3>1, LegalFacts
    <3>3. RawChunkWords * Len(sums) \in Nat
      BY <3>1, LegalFacts, SizeConstants
    <3> QED BY <3>1, <3>2, <3>3
  <2>2. CASE ~ resend
    <3>1. words \in Nat
      BY <2>2, PreparedType
    <3> QED BY <2>2, <3>1, LegalSize
  <2> QED BY <2>1, <2>2
<1> HIDE DEF words, raw
<1>4. PICK n : LegalChunks(n) /\ raw = RawChunkWords * n /\ (resend => n = Len(sums))
  BY <1>3
<1>5. /\ DataWords(raw) = DataPerChunk * n /\ raw \div RawChunkWords = n /\ n \in Nat \ {0}
      /\ DataPerChunk * n \in 1 .. MaxMsgWords
  BY <1>4, LegalFacts
<1> DEFINE k == DataPerChunk * n
<1> HIDE DEF k
<1>6. DataWords(raw) = k /\ k \in Nat /\ k - 1 \in Sizes
  BY <1>5, SizeConstants DEF k, Sizes
<1>7. cmd' \in [h2f : Sizes, f2h : Sizes, permitted : BOOLEAN, spin : Nat]
      /\ cmd'.h2f = k - 1 /\ cmd'.f2h > 0
  <2>1. (IF permitted /\ words <= 1 THEN SpinCycles ELSE 0) \in Nat
    BY LinkAssumption
  <2> QED BY <1>1, <1>2, <1>6, <2>1
<1>8. buf' \in Seq(Words) /\ Len(buf') = k /\ sums' \in Seq(BOOLEAN) /\ Len(sums') = n
      /\ (resend => Len(buf') = Len(buf))
  <2>1. CASE resend
    <3>1. buf \in Seq(Words) /\ sums \in Seq(BOOLEAN) /\ Len(buf) = DataPerChunk * Len(sums)
      BY <1>0, <2>1 DEF HostTypes, BufferInv
    <3>2. buf' = [buf EXCEPT ![1] = Command] /\ sums' = [sums EXCEPT ![1] = TRUE]
      BY <1>1, <2>1
    <3>3. Command \in Words
      BY DEF Command, Words
    <3>6. Len(sums) = n
      BY <1>4, <2>1
    <3>7. 1 \in 1 .. Len(buf) /\ 1 \in 1 .. Len(sums)
      <4>1. Len(sums) >= 1 /\ Len(sums) \in Nat /\ Len(buf) >= 1 /\ Len(buf) \in Nat
        BY <1>5, <1>6, <3>1, <3>6
      <4> QED BY <4>1
    <3>4. buf' \in Seq(Words) /\ Len(buf') = Len(buf)
      BY <3>1, <3>2, <3>3, <3>7, ExceptSeq
    <3>5. sums' \in Seq(BOOLEAN) /\ Len(sums') = Len(sums)
      <4>1. TRUE \in BOOLEAN
        OBVIOUS
      <4> QED BY <4>1, <3>1, <3>2, <3>7, ExceptSeq
    <3> QED BY <3>1, <3>4, <3>5, <3>6 DEF k
  <2>2. CASE ~ resend
    <3>1. buf' \in Seq(Words) /\ Len(buf') = k
      BY <1>1, <1>6, <2>2, FilledType
    <3>2. PICK stale \in StaleSums :
            sums' = [c \in 1 .. n |-> c * RawChunkWords <= words \/ stale]
      BY <1>1, <1>5, <2>2
    <3>3. sums' \in Seq(BOOLEAN) /\ Len(sums') = n
      <4>1. \A c \in 1 .. n : (c * RawChunkWords <= words \/ stale) \in BOOLEAN
        OBVIOUS
      <4> QED BY <3>2, <4>1, <1>5
    <3> QED BY <2>2, <3>1, <3>3
  <2> QED BY <2>1, <2>2
<1>9. k > 1
  <2>1. CASE resend
    <3>1. Len(buf) > 1
      BY <1>0, <2>1 DEF BufferInv
    <3> QED BY <2>1, <3>1, <1>8
  <2>2. CASE ~ resend
    <3>1. NWords + 1 \in Nat /\ NWords + 1 >= 2
      <4>1. WindowWords \in Seq(Words)
        BY <1>0, HostMessages
      <4> QED BY <4>1 DEF NWords
    <3>2. LegalBufSize(PreparedSize(NWords + 1)) = RawChunkWords * n
      BY <1>4, <2>2 DEF raw, words
    <3> DEFINE m == NWords + 1
    <3>3. m \in Nat /\ m >= 2 /\ LegalBufSize(PreparedSize(m)) = RawChunkWords * n
      BY <3>1, <3>2
    <3> HIDE DEF m
    <3>4. m <= DataPerChunk * n \/ DataPerChunk * n = MaxWriteWords
      BY <1>4, <3>3, PreparedFits
    <3> QED BY <3>3, <3>4, <1>6, SizeConstants DEF k
  <2> QED BY <2>1, <2>2
<1> QED BY <1>4, <1>7, <1>8, <1>9 DEF k

(* The host starts a transaction. *)
LEMMA HostPrepareStep == ASSUME EdgeInv, HostPrepare PROVE EdgeInv'
<1>0. /\ HostTypes /\ LinkTypes /\ ReadTypes /\ ClientTypes /\ WriteTypes /\ F2HTypes
      /\ BufferInv /\ PhaseInv /\ PipeInv /\ RecoveryInv /\ ReplyInv /\ FlowInv
  BY DEF EdgeInv, TypeInv
<1>1. PICK n : /\ LegalChunks(n) /\ Len(buf') = DataPerChunk * n /\ Len(sums') = n
               /\ buf' \in Seq(Words) /\ sums' \in Seq(BOOLEAN)
               /\ cmd' \in [h2f : Sizes, f2h : Sizes, permitted : BOOLEAN, spin : Nat]
               /\ cmd'.h2f = Len(buf') - 1 /\ cmd'.f2h > 0
               /\ resend => Len(buf') = Len(buf)
               /\ Len(buf') > 1
  BY HostPrepareBuffer
<1>2. /\ hpc = "prepare" /\ hpc' = "wait" /\ reply' = << >> /\ sentChunks' = 0 /\ corrupt' = {}
      /\ UNCHANGED <<h2f, acked, resend, f2hGot, errors, marshVars, readVars, clientVars,
                     writeState, rawWriteChunksRemaining, writeDataChunksRemaining,
                     numUsefulWriteChunks, numWrittenChunks, spinCycles, f2hVars>>
  BY DEF HostPrepare
<1>3. ~ Running /\ ~ Before /\ ~ Replied /\ readState = "READY" /\ writeState = "READY"
  BY <1>2, Phases
<1>4. HostTypes'
  BY <1>0, <1>1, <1>2 DEF HostTypes
<1>5. LinkTypes'
  BY <1>0, <1>2 DEF LinkTypes, marshVars
<1>6. ReadTypes' /\ ClientTypes' /\ F2HTypes'
  BY <1>0, <1>2, TypesStay
<1>7. WriteTypes'
  BY <1>0, <1>2 DEF WriteTypes
<1>8. BufferInv'
  BY <1>1, <1>2 DEF BufferInv
<1>9. Before' /\ ~ Running' /\ ~ Replied'
  <2>1. Before' /\ ~ Running'
    BY <1>2, <1>3 DEF Before, Running, readVars
  <2>2. Len(reply') = 0 /\ cmd'.f2h \in Nat
    BY <1>1, <1>2, SizeConstants DEF Sizes
  <2> QED BY <2>1, <2>2, <1>1 DEF Replied
<1>10. PhaseInv'
  BY <1>2, <1>3, <1>9 DEF PhaseInv, readVars
<1>11. PipeInv'
  <2>1. inQ' = << >> /\ outQ' = << >> /\ idx' = 0
    BY <1>0, <1>2 DEF PipeInv, marshVars
  <2>2. Untaken' = Len(buf')
    BY <1>9 DEF Untaken
  <2>3. Len(outQ') = 0 /\ Left' = 0
    BY <2>1 DEF Left
  <2>4. n \in Nat /\ DataPerChunk * n \in Nat
    BY <1>1, LegalFacts, SizeConstants
  <2>5. Len(outQ') + Left' + DataPerChunk * (Len(sums') - sentChunks') = DataPerChunk * n
    BY <2>1, <2>3, <2>4, <1>1, <1>2, SizeConstants
  <2> QED BY <1>1, <1>2, <2>1, <2>2, <2>4, <2>5 DEF PipeInv
<1>12. RecoveryInv'
  BY <1>0, <1>1, <1>2, <1>3 DEF RecoveryInv, readVars
<1>13. ReplyInv'
  BY <1>9 DEF ReplyInv
<1>14. FlowInv'
  <2>1. InReply' = InReply
    BY <1>3, <1>9 DEF InReply
  <2> QED BY <1>0, <1>2, <2>1, FlowStays
<1> QED BY <1>4, <1>5, <1>6, <1>7, <1>8, <1>10, <1>11, <1>12, <1>13, <1>14 DEF EdgeInv, TypeInv

(* The words in the pipe. *)
LEMMA PipeFacts ==
  ASSUME EdgeInv, hpc = "wait"
  PROVE  /\ Len(sums) \in Nat /\ sentChunks \in Nat /\ sentChunks <= Len(sums)
         /\ Len(outQ) \in Nat /\ Left \in Nat /\ (inQ # << >> => Left >= 1)
         /\ DataPerChunk * (Len(sums) - sentChunks) \in Nat
         /\ Len(outQ) + Left + DataPerChunk * (Len(sums) - sentChunks) = Untaken
         /\ Untaken = 0 => inQ = << >> /\ outQ = << >>
<1> DEFINE ahead == Len(sums) - sentChunks
<1>1. /\ outQ \in Seq(Words) /\ idx \in 0 .. DataPerChunk - 1 /\ sentChunks \in Nat
      /\ sums \in Seq(BOOLEAN) /\ sentChunks <= Len(sums)
      /\ Len(outQ) + Left + DataPerChunk * ahead = Untaken
  BY DEF EdgeInv, TypeInv, HostTypes, LinkTypes, PipeInv
<1>2. ahead \in Nat /\ Len(sums) \in Nat
  BY <1>1
<1> HIDE DEF ahead
<1>3. DataPerChunk * ahead \in Nat /\ DataPerChunk \in Nat
  BY <1>2, SizeConstants
<1>4. Left \in Nat /\ (inQ # << >> => Left >= 1)
  BY <1>1, <1>3 DEF Left
<1>5. Len(outQ) \in Nat /\ (outQ # << >> => Len(outQ) >= 1)
  BY <1>1
<1>6. Untaken = 0 => inQ = << >> /\ outQ = << >>
  BY <1>1, <1>3, <1>4, <1>5
<1> QED BY <1>1, <1>2, <1>3, <1>4, <1>5, <1>6 DEF ahead

(* What a reply hands over. *)
LEMMA HandOver ==
  ASSUME EdgeInv, Replied
  PROVE  /\ UsefulWords(reply, reply[Len(reply)][1]) \in Seq(Words)
         /\ reply[Len(reply)] \in Words
         /\ cmd.permitted => InReply = UsefulWords(reply, reply[Len(reply)][1])
         /\ ~ cmd.permitted => InReply = << >>
<1>1. reply \in Seq(Words) /\ cmd.f2h \in Nat /\ numUsefulWriteChunks \in Nat /\ Len(reply) \in Nat
  BY SizeConstants DEF EdgeInv, TypeInv, HostTypes, WriteTypes, Sizes
<1>2. reply[Len(reply)][1] = numUsefulWriteChunks
  BY DEF EdgeInv, ReplyInv
<1>3. numUsefulWriteChunks <= cmd.f2h /\ Len(reply) = cmd.f2h + 1
  BY DEF EdgeInv, ReplyInv, Replied
<1>4. numUsefulWriteChunks \in 0 .. Len(reply) /\ Len(reply) \in 1 .. Len(reply)
  BY <1>1, <1>3
<1>5. reply[Len(reply)] \in Words
  BY <1>1, <1>4
<1>6. UsefulWords(reply, numUsefulWriteChunks) \in Seq(Words)
  BY <1>1, <1>4, UsefulType
<1> QED BY <1>2, <1>5, <1>6 DEF InReply

(* The host takes the reply, and its ACK or NACK. *)
LEMMA HostReceiveStep == ASSUME EdgeInv, HostReceive PROVE EdgeInv'
<1>0. /\ HostTypes /\ LinkTypes /\ ReadTypes /\ ClientTypes /\ WriteTypes /\ F2HTypes
      /\ BufferInv /\ PhaseInv /\ PipeInv /\ RecoveryInv /\ ReplyInv /\ FlowInv
  BY DEF EdgeInv, TypeInv
<1>1. /\ Replied /\ hpc = "wait" /\ readState = "READY" /\ writeState = "READY" /\ ~ Running
  BY Phases DEF HostReceive
<1>2. /\ hpc' = "prepare"
      /\ UNCHANGED <<h2f, cmd, linkVars, marshVars, readVars, clientVars, writeVars, f2hVars>>
  BY DEF HostReceive
<1> DEFINE last == reply[Len(reply)]
<1>3. f2hGot' = f2hGot \o InReply /\ InReply \in Seq(Words) /\ f2hGot \in Seq(Words)
  <2>1. f2hGot' = IF cmd.permitted THEN f2hGot \o UsefulWords(reply, last[1]) ELSE f2hGot
    BY DEF HostReceive
  <2>2. f2hGot \in Seq(Words)
    BY <1>0 DEF HostTypes
  <2>3. CASE cmd.permitted
    BY <2>1, <2>2, <2>3, <1>1, HandOver
  <2>4. CASE ~ cmd.permitted
    <3>1. InReply = << >> /\ f2hGot' = f2hGot
      BY <2>1, <2>4, <1>1, HandOver
    <3> QED BY <3>1, <2>2
  <2> QED BY <2>3, <2>4
<1>4. f2hGot' \in Seq(Words)
  BY <1>3, ConcatProperties
<1>5. \/ acked' = Len(h2f) /\ buf' = << >> /\ sums' = << >> /\ resend' = FALSE /\ last[2] = 0
      \/ acked' = acked /\ ClearSentWords(last[2]) /\ resend' = TRUE /\ last[2] # 0
  BY DEF HostReceive
<1>6. last[2] = 0 <=> h2fErrRecovery = NoRecovery
  <2>1. last[2] = IF h2fErrRecovery = NoRecovery THEN 0 ELSE h2fErrRecovery.rawChunksRemaining
    BY <1>0, <1>1 DEF ReplyInv
  <2>2. h2fErrRecovery # NoRecovery => h2fErrRecovery.rawChunksRemaining # 0
    BY <1>0 DEF ReadTypes, RecoveryType
  <2> QED BY <2>1, <2>2
<1>7. /\ buf' \in Seq(Words) /\ sums' \in Seq(BOOLEAN)
      /\ resend' => Len(buf') = Len(buf) /\ Len(sums') = Len(sums)
  <2>1. CASE buf' = << >> /\ sums' = << >> /\ resend' = FALSE
    BY <2>1
  <2>2. CASE ClearSentWords(last[2])
    <3> DEFINE clear == Len(buf) - last[2]
    <3>1. buf \in Seq(Words) /\ sums \in Seq(BOOLEAN)
      BY <1>0 DEF HostTypes
    <3>2. Zero \in Words
      BY DEF Zero, Words
    <3>3. /\ buf' = [i \in DOMAIN buf |-> IF i <= clear THEN Zero ELSE buf[i]]
          /\ sums' = [c \in DOMAIN sums |-> (c - 1) * DataPerChunk < clear \/ sums[c]]
      BY <2>2 DEF ClearSentWords
    <3> HIDE DEF clear
    <3>4. buf' \in Seq(Words) /\ Len(buf') = Len(buf)
      <4>1. \A i \in 1 .. Len(buf) : (IF i <= clear THEN Zero ELSE buf[i]) \in Words
        BY <3>1, <3>2
      <4>2. buf' = [i \in 1 .. Len(buf) |-> IF i <= clear THEN Zero ELSE buf[i]]
        BY <3>1, <3>3
      <4>3. Len(buf) \in Nat
        BY <3>1
      <4> QED BY <4>1, <4>2, <4>3
    <3>5. sums' \in Seq(BOOLEAN) /\ Len(sums') = Len(sums)
      <4> DEFINE Mended(c) == (c - 1) * DataPerChunk < clear \/ sums[c]
      <4>1. \A c \in 1 .. Len(sums) : Mended(c) \in BOOLEAN
        OBVIOUS
      <4>2. sums' = [c \in 1 .. Len(sums) |-> Mended(c)]
        BY <3>1, <3>3
      <4>3. Len(sums) \in Nat
        BY <3>1
      <4> HIDE DEF Mended
      <4> QED BY <4>1, <4>2, <4>3
    <3> QED BY <3>4, <3>5
  <2> QED BY <1>5, <2>1, <2>2
<1>8. HostTypes'
  <2>1. acked' \in 0 .. Len(h2f) /\ resend' \in BOOLEAN
    <3>1. Len(h2f) \in Nat /\ acked \in 0 .. Len(h2f)
      BY <1>0 DEF HostTypes
    <3>2. acked' \in {Len(h2f), acked} /\ resend' \in BOOLEAN
      BY <1>5
    <3> HIDE DEF last
    <3> QED BY <3>1, <3>2
  <2> QED BY <1>0, <1>2, <1>4, <1>7, <2>1 DEF HostTypes
<1>9. LinkTypes' /\ ReadTypes' /\ ClientTypes' /\ WriteTypes' /\ F2HTypes'
  BY <1>0, <1>2, TypesStay
<1>10. BufferInv'
  BY <1>0, <1>1, <1>2, <1>7 DEF BufferInv
<1>11. ~ Before' /\ ~ Running' /\ ~ Replied'
  BY <1>2 DEF Before, Running, Replied
<1>12. PhaseInv'
  BY <1>1, <1>2, <1>11 DEF PhaseInv, readVars, writeVars
<1>13. PipeInv'
  <2>1. Untaken = 0
    BY <1>1 DEF Untaken
  <2>2. inQ = << >> /\ outQ = << >>
    BY <1>1, <2>1, PipeFacts
  <2> QED BY <1>0, <1>2, <2>2 DEF PipeInv, marshVars
<1>14. RecoveryInv'
  <2>1. h2fErrRecovery' # NoRecovery => resend' /\ Len(buf') = Len(buf)
    BY <1>2, <1>5, <1>6, <1>7 DEF readVars
  <2> QED BY <1>0, <1>1, <1>2, <2>1 DEF RecoveryInv, readVars
<1>15. ReplyInv'
  BY <1>11 DEF ReplyInv
<1>16. FlowInv'
  <2>1. InReply' = << >>
    BY <1>11 DEF InReply
  <2>2. f2hSent' = f2hSent /\ writeDataQ' = writeDataQ /\ f2h' = f2h
    BY <1>2 DEF f2hVars
  <2>3. SentWords' = SentWords
    BY <2>2 DEF SentWords
  <2>4. f2hGot' \o << >> = f2hGot \o InReply
    BY <1>3, <1>4, ConcatProperties, ConcatEmptySeq
  <2> QED BY <1>0, <2>1, <2>2, <2>3, <2>4 DEF FlowInv
<1> QED BY <1>8, <1>9, <1>10, <1>12, <1>13, <1>14, <1>15, <1>16 DEF EdgeInv, TypeInv
-----------------------------------------------------------------------------
(* Steps of the link and the marshaller. *)

(* Of what is in the pipe, nothing else depends. *)
LEMMA Transport ==
  ASSUME EdgeInv, LinkTypes', PipeInv',
         UNCHANGED <<hostVars, readVars, clientVars, writeVars, f2hVars>>
  PROVE  EdgeInv'
<1>0. /\ HostTypes /\ ReadTypes /\ ClientTypes /\ WriteTypes /\ F2HTypes
      /\ BufferInv /\ PhaseInv /\ RecoveryInv /\ ReplyInv /\ FlowInv
  BY DEF EdgeInv, TypeInv
<1>1. HostTypes' /\ ReadTypes' /\ ClientTypes' /\ WriteTypes' /\ F2HTypes'
  BY <1>0, TypesStay
<1>2. Replied' = Replied /\ Running' = Running /\ Before' = Before
  BY DEF Replied, Running, Before, hostVars, readVars, writeVars
<1>3. BufferInv'
  BY <1>0 DEF BufferInv, hostVars
<1>4. PhaseInv'
  BY <1>0, <1>2 DEF PhaseInv, hostVars, readVars, writeVars
<1>5. RecoveryInv'
  BY <1>0 DEF RecoveryInv, hostVars, readVars
<1>6. ReplyInv'
  BY <1>0, <1>2 DEF ReplyInv, hostVars, readVars, writeVars
<1>7. InReply' = InReply /\ f2hGot' = f2hGot
  BY <1>2 DEF InReply, UsefulWords, hostVars, writeVars
<1>8. FlowInv'
  BY <1>0, <1>7, FlowStays
<1> QED BY <1>1, <1>3, <1>4, <1>5, <1>6, <1>8 DEF EdgeInv, TypeInv

(* What is not taken depends on these variables only. *)
LEMMA UntakenStays ==
  ASSUME UNCHANGED <<hostVars, readVars, writeVars>>
  PROVE  Untaken' = Untaken
BY DEF Untaken, Replied, Before, hostVars, readVars, writeVars

(* A chunk of the buffer. *)
LEMMA ChunkWordsType ==
  ASSUME EdgeInv, hpc = "wait", NEW c \in 1 .. Len(sums)
  PROVE  ChunkWords(c) \in [1 .. DataPerChunk -> Words]
<1> DEFINE d == DataPerChunk
           first == (c - 1) * d + 1
           last == c * d
<1>1. d \in Nat \ {0} /\ c \in Nat /\ c >= 1 /\ Len(sums) \in Nat /\ c <= Len(sums)
  BY SizeConstants, ReplyTypes
<1>2. buf \in Seq(Words) /\ Len(buf) = d * Len(sums)
  BY DEF EdgeInv, TypeInv, HostTypes, BufferInv
<1>3. first \in Nat /\ first >= 1 /\ last \in Nat /\ last - first + 1 = d /\ first <= last
  <2>1. (c - 1) * d \in Nat /\ c * d = (c - 1) * d + d
    BY <1>1
  <2> QED BY <2>1, <1>1
<1>4. last <= Len(buf)
  <2>1. c * d <= d * Len(sums)
    BY <1>1
  <2> QED BY <2>1, <1>2
<1> HIDE DEF first, last
<1>5. \A i \in first .. last : buf[i] \in Words
  BY <1>2, <1>3, <1>4
<1>6. /\ SubSeq(buf, first, last) \in Seq(Words)
      /\ Len(SubSeq(buf, first, last)) = IF first <= last THEN last - first + 1 ELSE 0
  BY <1>3, <1>5, SubSeqProperties
<1>7. Len(SubSeq(buf, first, last)) = d
  BY <1>3, <1>6
<1>8. SubSeq(buf, first, last) \in [1 .. d -> Words]
  BY <1>6, <1>7, LenProperties
<1> QED BY <1>8 DEF ChunkWords, first, last

(* A chunk enters the marshaller, whatever its words are. *)
LEMMA LinkMove ==
  ASSUME EdgeInv, hpc = "wait", sentChunks < Len(sums), inQ = << >>,
         sentChunks' = sentChunks + 1, NEW chunk \in ChunkType, inQ' = <<chunk>>,
         UNCHANGED <<idx, outQ, error>>, errors' \in Nat, corrupt' \subseteq 2 .. MaxMsgWords,
         UNCHANGED <<hostVars, readVars, clientVars, writeVars, f2hVars>>
  PROVE  EdgeInv'
<1>1. LinkTypes /\ PipeInv
  BY DEF EdgeInv, TypeInv
<1>2. LinkTypes'
  <2>1. inQ' \in Seq(ChunkType) /\ Len(inQ') = 1
    OBVIOUS
  <2>2. sentChunks' \in Nat
    BY <1>1 DEF LinkTypes
  <2> QED BY <1>1, <2>1, <2>2 DEF LinkTypes
<1>3. PipeInv'
  <2> DEFINE ahead == Len(sums) - sentChunks
  <2>1. hpc' = hpc /\ sums' = sums /\ Untaken' = Untaken
    BY UntakenStays DEF hostVars
  <2>2. /\ Len(outQ) + Left + DataPerChunk * ahead = Untaken /\ Len(outQ) \in Nat
        /\ Len(sums) \in Nat /\ sentChunks \in Nat
    BY PipeFacts
  <2>3. Left = 0 /\ Left' = DataPerChunk - idx /\ idx = 0
    BY <1>1, SizeConstants DEF Left, PipeInv
  <2>4. DataPerChunk * ahead = DataPerChunk * (ahead - 1) + DataPerChunk
        /\ DataPerChunk \in Nat /\ DataPerChunk * (ahead - 1) \in Nat
    BY <2>2, SizeConstants
  <2>5. ahead' = ahead - 1
    BY <2>1, <2>2
  <2>6. Len(outQ') + Left' + DataPerChunk * ahead' = Untaken'
    <3> HIDE DEF ahead
    <3> QED BY <2>1, <2>2, <2>3, <2>4, <2>5
  <2>7. inQ' # << >> /\ sentChunks' <= Len(sums')
    BY <2>1, <2>2
  <2> QED BY <2>1, <2>6, <2>7 DEF PipeInv
<1> QED BY <1>2, <1>3, Transport

(* It is intact or corrupted. *)
LEMMA LinkStep == ASSUME EdgeInv, LinkChunk \/ LinkError PROVE EdgeInv'
<1>1. LinkTypes /\ HostTypes
  BY DEF EdgeInv, TypeInv
<1>2. /\ hpc = "wait" /\ sentChunks < Len(sums) /\ inQ = << >> /\ sentChunks' = sentChunks + 1
      /\ UNCHANGED <<idx, outQ, error>>
      /\ UNCHANGED <<hostVars, readVars, clientVars, writeVars, f2hVars>>
  BY DEF LinkChunk, LinkError
<1>3. sentChunks + 1 \in 1 .. Len(sums) /\ sentChunks \in Nat /\ sums \in Seq(BOOLEAN)
  BY <1>1, <1>2 DEF LinkTypes, HostTypes
<1>4. CASE LinkChunk
  <2> DEFINE chunk == [words |-> ChunkWords(sentChunks + 1), good |-> sums[sentChunks + 1]]
  <2>1. ChunkWords(sentChunks + 1) \in [1 .. DataPerChunk -> Words] /\ sums[sentChunks + 1] \in BOOLEAN
    BY <1>2, <1>3, ChunkWordsType
  <2>2. chunk \in ChunkType /\ inQ' = <<chunk>>
    BY <1>4, <2>1 DEF LinkChunk, ChunkType
  <2>3. errors' \in Nat /\ corrupt' \subseteq 2 .. MaxMsgWords
    BY <1>1, <1>4 DEF LinkChunk, LinkTypes
  <2> HIDE DEF chunk
  <2> QED BY <1>2, <2>2, <2>3, LinkMove
<1>5. CASE LinkError
  <2> DEFINE chunk == [words |-> [i \in 1 .. DataPerChunk |-> Garbage], good |-> FALSE]
  <2>1. chunk \in ChunkType
    BY DEF ChunkType, Garbage, Words
  <2>2. inQ' = <<chunk>>
    BY <1>5 DEF LinkError
  <2>3. errors' \in Nat
    BY <1>1, <1>5 DEF LinkError, LinkTypes
  <2>4. corrupt' \subseteq 2 .. MaxMsgWords
    <3>1. Len(sums) <= MaxMsgWords /\ Len(sums) \in Nat
      <4>1. LegalChunks(Len(sums))
        BY <1>2 DEF EdgeInv, BufferInv
      <4> QED BY <4>1, LegalFacts
    <3>2. sentChunks + 1 \in 2 .. MaxMsgWords
      BY <1>3, <1>5, <3>1, SizeConstants DEF LinkError
    <3> QED BY <1>1, <1>5, <3>2 DEF LinkError, LinkTypes
  <2> HIDE DEF chunk
  <2> QED BY <1>2, <2>1, <2>2, <2>3, <2>4, LinkMove
<1> QED BY <1>4, <1>5

(* The marshaller gives a data word. *)
LEMMA MarshallDataStep == ASSUME EdgeInv, MarshallData PROVE EdgeInv'
<1>0. LinkTypes /\ PipeInv /\ HostTypes
  BY DEF EdgeInv, TypeInv
<1>1. /\ inQ # << >> /\ Len(outQ) < 2 /\ inQ \in Seq(ChunkType) /\ outQ \in Seq(Words)
      /\ Len(inQ) <= 1 /\ idx \in 0 .. DataPerChunk - 1
      /\ UNCHANGED <<hostVars, linkVars, readVars, clientVars, writeVars, f2hVars>>
  BY <1>0 DEF MarshallData, LinkTypes
<1>2. inQ[1] \in ChunkType
  BY <1>1
<1>3. inQ[1].words[idx + 1] \in Words /\ inQ[1].good \in BOOLEAN
  <2>1. idx + 1 \in 1 .. DataPerChunk
    BY <1>1, SizeConstants
  <2> QED BY <1>2, <2>1 DEF ChunkType
<1>4. outQ' \in Seq(Words) /\ Len(outQ') = Len(outQ) + 1 /\ Len(outQ) \in Nat /\ Len(outQ') <= 2
  <2>1. outQ' = Append(outQ, inQ[1].words[idx + 1])
    BY DEF MarshallData
  <2> QED BY <1>1, <1>3, <2>1
<1>5. /\ inQ' \in Seq(ChunkType) /\ Len(inQ') <= 1 /\ idx' \in 0 .. DataPerChunk - 1
      /\ Left' = Left - 1 /\ (inQ' = << >> => idx' = 0)
  <2>1. CASE idx = DataPerChunk - 1
    BY <1>1, <2>1, SizeConstants DEF MarshallData, Left
  <2>2. CASE idx # DataPerChunk - 1
    <3>1. inQ' = inQ /\ idx' = idx + 1
      BY <2>2 DEF MarshallData
    <3> QED BY <1>1, <2>2, <3>1, SizeConstants DEF Left
  <2> QED BY <2>1, <2>2
<1>6. LinkTypes'
  <2>1. error' \in BOOLEAN
    BY <1>0, <1>3 DEF MarshallData, LinkTypes
  <2> QED BY <1>0, <1>1, <1>4, <1>5, <2>1 DEF LinkTypes, linkVars
<1>7. PipeInv'
  <2>1. hpc = "wait"
    BY <1>0, <1>1 DEF PipeInv, HostTypes
  <2>2. hpc' = hpc /\ sums' = sums /\ sentChunks' = sentChunks /\ Untaken' = Untaken
    BY <1>1, UntakenStays DEF hostVars, linkVars
  <2> DEFINE ahead == DataPerChunk * (Len(sums) - sentChunks)
  <2>3. /\ Len(outQ) + Left + ahead = Untaken /\ Len(outQ) \in Nat /\ Left \in Nat
        /\ ahead \in Nat /\ sentChunks <= Len(sums)
    BY <2>1, PipeFacts
  <2>4. ahead' = ahead
    BY <2>2
  <2>5. Len(outQ') + Left' + ahead' = Untaken'
    <3> HIDE DEF ahead
    <3> QED BY <1>4, <1>5, <2>2, <2>3, <2>4
  <2> QED BY <1>5, <2>1, <2>2, <2>3, <2>5 DEF PipeInv
<1> QED BY <1>1, <1>6, <1>7, Transport
(* A word leaves the pipe. *)
LEMMA Dequeued ==
  ASSUME EdgeInv, Deq, UNCHANGED hostVars, UNCHANGED linkVars
  PROVE  /\ hpc = "wait" /\ Untaken \in Nat /\ Untaken > 0 /\ LinkTypes' /\ Word \in Words
         /\ Untaken' = Untaken - 1 => PipeInv'
<1>0. LinkTypes /\ PipeInv /\ HostTypes
  BY DEF EdgeInv, TypeInv
<1>1. outQ \in Seq(Words) /\ outQ # << >> /\ outQ' = Tail(outQ) /\ UNCHANGED <<inQ, idx, error>>
  BY <1>0 DEF LinkTypes, Deq
<1>2. hpc = "wait"
  BY <1>0, <1>1 DEF PipeInv, HostTypes
<1>3. outQ' \in Seq(Words) /\ Len(outQ') = Len(outQ) - 1 /\ Len(outQ) \in Nat /\ Len(outQ) >= 1
      /\ Head(outQ) \in Words
  BY <1>1
<1>4. LinkTypes'
  BY <1>0, <1>1, <1>3 DEF LinkTypes, linkVars
<1> DEFINE ahead == DataPerChunk * (Len(sums) - sentChunks)
<1>5. /\ Len(outQ) + Left + ahead = Untaken /\ Left \in Nat /\ ahead \in Nat
      /\ sentChunks <= Len(sums)
  BY <1>2, PipeFacts
<1>6. hpc' = hpc /\ sums' = sums /\ sentChunks' = sentChunks /\ Left' = Left
  BY <1>1 DEF hostVars, linkVars, Left
<1>7. ahead' = ahead
  BY <1>6
<1> HIDE DEF ahead
<1>8. Untaken \in Nat /\ Untaken > 0
  BY <1>3, <1>5
<1>9. ASSUME Untaken' = Untaken - 1 PROVE PipeInv'
  <2>1. Len(outQ') + Left' + ahead' = Untaken'
    BY <1>3, <1>5, <1>6, <1>7, <1>9
  <2> QED BY <2>1, <1>0, <1>1, <1>2, <1>5, <1>6 DEF PipeInv, ahead
<1> QED BY <1>2, <1>3, <1>4, <1>8, <1>9 DEF Word

(* The buffer and the command of a transaction agree. *)
LEMMA BufferFacts ==
  ASSUME EdgeInv, hpc = "wait"
  PROVE  /\ LegalChunks(Len(sums)) /\ Len(buf) = DataPerChunk * Len(sums)
         /\ Len(buf) \in Nat /\ Len(buf) > 1
         /\ cmd.h2f = Len(buf) - 1 /\ cmd.h2f \in Sizes /\ cmd.f2h \in Sizes /\ cmd.f2h > 0
         /\ cmd.f2h \in Nat
  BY ReplyTypes, SizeConstants DEF EdgeInv, BufferInv, Sizes

-----------------------------------------------------------------------------
(* Accepting a request. *)

(* Both sides start. *)
LEMMA AcceptRequestStep == ASSUME EdgeInv, AcceptRequest PROVE EdgeInv'
<1>0. /\ HostTypes /\ LinkTypes /\ ReadTypes /\ ClientTypes /\ WriteTypes /\ F2HTypes
      /\ BufferInv /\ PhaseInv /\ PipeInv /\ RecoveryInv /\ ReplyInv /\ FlowInv
  BY DEF EdgeInv, TypeInv
<1>1. /\ readState = "READY" /\ writeState = "READY" /\ Deq
      /\ UNCHANGED <<readDataChunksRemaining, noMoreReadData, h2fErrRecovery, readBuffer,
                     writeDataChunksRemaining, numUsefulWriteChunks, numWrittenChunks,
                     reply, hostVars, linkVars, clientVars, f2hVars>>
  BY DEF AcceptRequest
<1>2. hpc = "wait" /\ Untaken \in Nat /\ Untaken > 0 /\ LinkTypes'
      /\ (Untaken' = Untaken - 1 => PipeInv')
  BY <1>1, Dequeued
<1>3. Before /\ ~ Running /\ ~ Replied /\ reply = << >>
  <2>1. ~ Replied
    BY <1>2 DEF Untaken
  <2>2. Before
    BY <1>0, <1>1, <1>2, <2>1 DEF PhaseInv, Running
  <2> QED BY <2>1, <2>2, Phases DEF Before
<1>4. /\ Len(buf) \in Nat /\ Len(buf) > 1
      /\ cmd.h2f = Len(buf) - 1 /\ cmd.h2f \in Sizes /\ cmd.f2h \in Sizes /\ cmd.f2h > 0
      /\ cmd.f2h \in Nat
  BY <1>2, BufferFacts
<1>5. /\ rawReadChunksRemaining' = cmd.h2f /\ rawWriteChunksRemaining' = cmd.f2h
      /\ readState' = IF h2fErrRecovery = NoRecovery THEN "START" ELSE "RECOVER"
      /\ writeState' = IF cmd.permitted THEN "TRY" ELSE "DUMMY"
      /\ spinCycles' = cmd.spin
  BY DEF AcceptRequest
<1>6. HostTypes' /\ ClientTypes' /\ F2HTypes'
  BY <1>0, <1>1, TypesStay
<1>7. ReadTypes'
  BY <1>0, <1>1, <1>4, <1>5 DEF ReadTypes, ReadStates
<1>8. WriteTypes'
  BY <1>0, <1>1, <1>4, <1>5, ReplyTypes DEF WriteTypes, WriteStates
<1>9. hpc' = hpc /\ cmd' = cmd /\ buf' = buf /\ sums' = sums /\ resend' = resend /\ f2hGot' = f2hGot
  BY <1>1 DEF hostVars
<1>10. BufferInv'
  BY <1>0, <1>9 DEF BufferInv
<1>11. Running' /\ ~ Before' /\ ~ Replied'
  <2>1. Running' /\ ~ Before'
    BY <1>2, <1>5, <1>9 DEF Running, Before
  <2>2. ~ Replied'
    BY <1>1, <1>3, <1>9 DEF Replied
  <2> QED BY <2>1, <2>2
<1>12. PhaseInv'
  <2>1. Len(reply') = 0
    BY <1>1, <1>3
  <2>2. cmd'.permitted \in BOOLEAN
    BY <1>9, ReplyTypes
  <2>3. hpc' = "wait" /\ readState' # "READY" /\ writeState' # "READY"
    BY <1>2, <1>5, <1>9
  <2>4. rawReadChunksRemaining' < Len(buf') /\ rawReadChunksRemaining' # 0
        /\ Len(reply') + rawWriteChunksRemaining' = cmd'.f2h /\ rawWriteChunksRemaining' # 0
    <3>1. rawReadChunksRemaining' = cmd.h2f /\ rawWriteChunksRemaining' = cmd.f2h
          /\ cmd' = cmd /\ buf' = buf
      BY <1>5, <1>9
    <3> DEFINE b == Len(buf)
               h == cmd.h2f
               f == cmd.f2h
    <3>2. b \in Nat /\ b > 1 /\ h = b - 1 /\ f > 0 /\ f \in Nat
      BY <1>4
    <3> HIDE DEF b, h, f
    <3>3. h < b /\ h # 0 /\ f # 0 /\ 0 + f = f
      BY <3>2
    <3> QED BY <2>1, <3>1, <3>3 DEF b, h, f
  <2>5. readState' # "DONE" /\ writeState' \in {"TRY", "DUMMY"} /\ reply' = << >>
        /\ (writeState' = "TRY" => cmd'.permitted) /\ (writeState' = "DUMMY" => ~ cmd'.permitted)
    BY <1>1, <1>3, <1>5, <1>9
  <2> QED BY <1>11, <2>3, <2>4, <2>5 DEF PhaseInv
<1>13. PipeInv'
  <2>1. Untaken = Len(buf) /\ Untaken' = rawReadChunksRemaining'
    BY <1>3, <1>11 DEF Untaken
  <2> QED BY <1>2, <1>4, <1>5, <2>1
<1>14. RecoveryInv'
  <2>1. h2fErrRecovery # NoRecovery => /\ h2fErrRecovery.rawChunksRemaining < Len(buf)
                                       /\ h2fErrRecovery.rawChunksRemaining \in Nat
    BY <1>0, SizeConstants DEF RecoveryInv, ReadTypes, RecoveryType, Sizes
  <2>2. h2fErrRecovery # NoRecovery => h2fErrRecovery.rawChunksRemaining <= Len(buf) - 1
    BY <1>4, <2>1
  <2> QED BY <1>0, <1>1, <1>2, <1>4, <1>5, <1>9, <2>2 DEF RecoveryInv
<1>15. ReplyInv'
  BY <1>1, <1>3, <1>5, <1>11 DEF ReplyInv
<1>16. FlowInv'
  <2>1. InReply = << >>
    BY <1>3 DEF InReply
  <2>2. reply' = << >> /\ reply' \in Seq(Words)
    BY <1>1, <1>3
  <2>3. InReply' = << >>
    <3>1. InReply' = IF cmd'.permitted THEN UsefulWords(<< >>, 0) ELSE << >>
      BY <1>11, <2>2 DEF InReply, UsefulWords
    <3>2. 0 \in 0 .. Len(<< >>) /\ << >> \in Seq(Words)
      OBVIOUS
    <3>3. UsefulWords(<< >>, 0) = << >>
      BY <3>2, UsefulType
    <3> QED BY <3>1, <3>3
  <2> QED BY <1>0, <1>1, <1>9, <2>1, <2>3, FlowStays
<1> QED BY <1>2, <1>6, <1>7, <1>8, <1>10, <1>12, <1>13, <1>14, <1>15, <1>16 DEF EdgeInv, TypeInv
-----------------------------------------------------------------------------
(* Steps of the read side. *)

(* What a step of the read side leaves alone, and what it takes. *)
LEMMA ReadMove ==
  ASSUME EdgeInv, ReadRule, readState \notin {"READY", "DONE"},
         readState' \in ReadStates \ {"READY"},
         TakeWord \/ UNCHANGED <<rawReadChunksRemaining, marshVars>>,
         readState' = "DONE" <=> rawReadChunksRemaining' = 0,
         ReadTypes', RecoveryInv'
  PROVE  EdgeInv'
<1>0. /\ HostTypes /\ LinkTypes /\ ReadTypes /\ ClientTypes /\ WriteTypes /\ F2HTypes
      /\ BufferInv /\ PhaseInv /\ PipeInv /\ RecoveryInv /\ ReplyInv /\ FlowInv
  BY DEF EdgeInv, TypeInv
<1>1. UNCHANGED <<hostVars, linkVars, clientVars, writeVars, f2hVars>>
  BY DEF ReadRule
<1>2. Running /\ ~ Replied /\ ~ Before /\ hpc = "wait"
  BY Phases
<1>3. /\ hpc' = hpc /\ cmd' = cmd /\ buf' = buf /\ sums' = sums /\ resend' = resend
      /\ f2hGot' = f2hGot /\ sentChunks' = sentChunks /\ reply' = reply /\ writeState' = writeState
      /\ rawWriteChunksRemaining' = rawWriteChunksRemaining
      /\ numUsefulWriteChunks' = numUsefulWriteChunks /\ numWrittenChunks' = numWrittenChunks
  BY <1>1 DEF hostVars, linkVars, writeVars
<1>4. Running' /\ ~ Replied' /\ ~ Before'
  BY <1>2, <1>3 DEF Running, Replied, Before
<1>5. HostTypes' /\ ClientTypes' /\ WriteTypes' /\ F2HTypes'
  BY <1>0, <1>1, TypesStay
<1>6. BufferInv'
  BY <1>0, <1>3 DEF BufferInv
<1>7. LinkTypes' /\ PipeInv' /\ rawReadChunksRemaining' <= rawReadChunksRemaining
  <2>1. Untaken = rawReadChunksRemaining /\ Untaken' = rawReadChunksRemaining'
    BY <1>2, <1>4 DEF Untaken
  <2>2. rawReadChunksRemaining \in Nat
    BY ReplyTypes
  <2>3. CASE TakeWord
    <3>1. Deq /\ rawReadChunksRemaining' = rawReadChunksRemaining - 1
      BY <2>3 DEF TakeWord
    <3>2. LinkTypes' /\ (Untaken' = Untaken - 1 => PipeInv')
      BY <1>1, <3>1, Dequeued
    <3> QED BY <2>1, <2>2, <3>1, <3>2
  <2>4. CASE UNCHANGED <<rawReadChunksRemaining, marshVars>>
    <3>1. LinkTypes'
      BY <1>0, <1>1, <2>4, TypesStay
    <3>2. PipeInv'
      BY <1>0, <1>3, <2>1, <2>4 DEF PipeInv, Left, marshVars
    <3> QED BY <2>2, <2>4, <3>1, <3>2
  <2> QED BY <2>3, <2>4
<1>8. PhaseInv'
  <2>1. rawReadChunksRemaining' < Len(buf')
    <3>1. rawReadChunksRemaining < Len(buf) /\ Len(buf) \in Nat /\ rawReadChunksRemaining \in Nat
      BY <1>0, <1>2, ReplyTypes DEF PhaseInv
    <3>2. rawReadChunksRemaining' \in Nat
      BY SizeConstants DEF ReadTypes, Sizes
    <3> QED BY <1>3, <1>7, <3>1, <3>2
  <2>2. writeState' # "READY" /\ hpc' = "wait" /\ readState' # "READY"
    BY <1>2, <1>3, Phases DEF Running
  <2> QED BY <1>0, <1>2, <1>3, <1>4, <2>1, <2>2 DEF PhaseInv
<1>9. ReplyInv'
  BY <1>0, <1>2, <1>3, <1>4 DEF ReplyInv
<1>10. FlowInv'
  <2>1. InReply' = InReply
    BY <1>2, <1>3, <1>4 DEF InReply, UsefulWords
  <2> QED BY <1>0, <1>1, <1>3, <2>1, FlowStays
<1> QED BY <1>5, <1>6, <1>7, <1>8, <1>9, <1>10 DEF EdgeInv, TypeInv

(* A word that is taken leaves one less to take. *)
LEMMA Taking ==
  ASSUME EdgeInv, readState \notin {"READY", "DONE"}
  PROVE  /\ rawReadChunksRemaining \in Sizes \ {0} /\ rawReadChunksRemaining \in Nat \ {0}
         /\ rawReadChunksRemaining < Len(buf) /\ Len(buf) \in Nat
         /\ TakeWord => /\ rawReadChunksRemaining' = rawReadChunksRemaining - 1
                        /\ rawReadChunksRemaining' \in Sizes
                        /\ rawReadChunksRemaining' = 0 <=> rawReadChunksRemaining = 1
         /\ TakeWord /\ ReadRule => Word \in Words
         /\ ReadRule => UNCHANGED <<hpc, resend, buf>> /\ hpc = "wait"
<1>1. Running
  BY Phases
<1>2. rawReadChunksRemaining \in Sizes /\ rawReadChunksRemaining # 0
      /\ rawReadChunksRemaining < Len(buf)
  BY <1>1 DEF EdgeInv, TypeInv, ReadTypes, PhaseInv
<1>3. rawReadChunksRemaining \in Nat \ {0} /\ MaxMsgWords \in Nat /\ Len(buf) \in Nat
  BY <1>2, ReplyTypes
<1>4. ASSUME TakeWord
      PROVE  /\ rawReadChunksRemaining' = rawReadChunksRemaining - 1
             /\ rawReadChunksRemaining' \in Sizes
             /\ rawReadChunksRemaining' = 0 <=> rawReadChunksRemaining = 1
  BY <1>2, <1>3, <1>4 DEF TakeWord, Sizes
<1>5. TakeWord /\ ReadRule => Word \in Words
  BY Dequeued DEF TakeWord, ReadRule
<1>6. ReadRule => UNCHANGED <<hpc, resend, buf>> /\ hpc = "wait"
  BY <1>1 DEF ReadRule, hostVars, Running
<1> QED BY <1>2, <1>3, <1>4, <1>5, <1>6

(* Any word, taken for a header, announces a number of chunks that fits. *)
LEMMA NumChunksType == ASSUME EdgeInv, NEW w \in Words PROVE NumChunks(w) \in Sizes
<1>1. h2f \in Seq(H2FPayloads) /\ H2FPayloads \subseteq Sizes /\ 1 \in Sizes
  BY SizeConstants DEF EdgeInv, TypeInv, HostTypes, Sizes
<1>2. CASE w[1] \in DOMAIN h2f
  <2>1. h2f[w[1]] \in H2FPayloads
    BY <1>1, <1>2
  <2> QED BY <1>1, <1>2, <2>1 DEF NumChunks
<1>3. CASE w[1] \notin DOMAIN h2f
  BY <1>1, <1>3 DEF NumChunks
<1> QED BY <1>2, <1>3

(* The words before the errant one are skipped; then it goes on there. *)
LEMMA RecoveryTypes ==
  ASSUME EdgeInv, h2fErrRecovery # NoRecovery
  PROVE  /\ h2fErrRecovery.rawChunksRemaining \in Nat \ {0}
         /\ h2fErrRecovery.dataChunksRemaining \in Sizes
         /\ h2fErrRecovery.readState \in {"START", "CONT"}
BY SizeConstants DEF EdgeInv, TypeInv, ReadTypes, RecoveryType, Sizes

(* A word is dropped: the last one, one behind the end mark, one after an  *)
(* error or before the errant one.                                         *)
LEMMA SkipStep ==
  ASSUME EdgeInv,
         H2FStartLast \/ H2FStartIgnore \/ ConsumeErrantReadData \/ RecoverSkip
  PROVE  EdgeInv'
<1>0. ReadTypes /\ RecoveryInv
  BY DEF EdgeInv, TypeInv
<1>1. /\ ReadRule /\ TakeWord /\ readState \notin {"READY", "DONE"}
      /\ noMoreReadData' \in {FALSE, noMoreReadData}
      /\ UNCHANGED <<readDataChunksRemaining, h2fErrRecovery, readBuffer>>
  BY DEF H2FStartLast, H2FStartIgnore, ConsumeErrantReadData, RecoverSkip
<1>2. /\ readState' \in {readState, "DONE"}
      /\ readState' = "DONE" <=> rawReadChunksRemaining = 1
  <2>1. CASE H2FStartLast
    BY <2>1 DEF H2FStartLast
  <2>2. CASE H2FStartIgnore
    BY <2>2 DEF H2FStartIgnore
  <2>3. CASE ConsumeErrantReadData
    BY <2>3 DEF ConsumeErrantReadData
  <2>4. CASE RecoverSkip
    <3>1. /\ h2fErrRecovery # NoRecovery /\ readState' = readState /\ readState = "RECOVER"
          /\ h2fErrRecovery.rawChunksRemaining <= rawReadChunksRemaining
          /\ h2fErrRecovery.rawChunksRemaining # rawReadChunksRemaining
      BY <1>0, <2>4 DEF RecoveryInv, RecoverSkip
    <3>2. rawReadChunksRemaining # 1
      BY <1>1, <3>1, RecoveryTypes, Taking
    <3> QED BY <3>1, <3>2
  <2> QED BY <1>1, <2>1, <2>2, <2>3, <2>4
<1>3. /\ rawReadChunksRemaining' = rawReadChunksRemaining - 1
      /\ rawReadChunksRemaining' \in Sizes /\ rawReadChunksRemaining \in Nat \ {0}
      /\ rawReadChunksRemaining' = 0 <=> rawReadChunksRemaining = 1
      /\ UNCHANGED <<hpc, resend, buf>> /\ hpc = "wait"
  BY <1>1, Taking
<1>4. ReadTypes'
  BY <1>0, <1>1, <1>2, <1>3 DEF ReadTypes, ReadStates
<1>5. RecoveryInv'
  <2>1. ASSUME readState = "RECOVER"
        PROVE  h2fErrRecovery.rawChunksRemaining <= rawReadChunksRemaining - 1
    <3>1. RecoverSkip
      BY <2>1 DEF H2FStartLast, H2FStartIgnore, ConsumeErrantReadData, RecoverSkip
    <3>2. /\ h2fErrRecovery # NoRecovery
          /\ h2fErrRecovery.rawChunksRemaining <= rawReadChunksRemaining
          /\ h2fErrRecovery.rawChunksRemaining # rawReadChunksRemaining
      BY <1>0, <2>1, <3>1 DEF RecoveryInv, RecoverSkip
    <3> QED BY <1>3, <3>2, RecoveryTypes
  <2> QED BY <1>0, <1>1, <1>2, <1>3, <2>1 DEF RecoveryInv
<1>6. readState' \in ReadStates \ {"READY"}
  BY <1>1, <1>2, <1>4 DEF ReadTypes
<1> QED BY <1>1, <1>2, <1>3, <1>4, <1>5, <1>6, ReadMove
(* A header arrives with an error. *)
LEMMA StartErrorStep == ASSUME EdgeInv, H2FStartError PROVE EdgeInv'
<1>0. ReadTypes /\ RecoveryInv
  BY DEF EdgeInv, TypeInv
<1>1. /\ ReadRule /\ TakeWord /\ readState = "START" /\ readState' = "ERROR"
      /\ rawReadChunksRemaining # 1 /\ h2fErrRecovery' = Recovery("START")
      /\ UNCHANGED <<readDataChunksRemaining, noMoreReadData, readBuffer>>
  BY DEF H2FStartError
<1>2. /\ rawReadChunksRemaining \in Sizes \ {0} /\ rawReadChunksRemaining < Len(buf)
      /\ rawReadChunksRemaining' \in Sizes
      /\ rawReadChunksRemaining' = 0 <=> rawReadChunksRemaining = 1
      /\ UNCHANGED <<hpc, resend, buf>> /\ hpc = "wait"
  BY <1>1, Taking
<1>3. h2fErrRecovery' \in RecoveryType
  BY <1>0, <1>1, <1>2 DEF Recovery, RecoveryType, ReadTypes
<1>4. h2fErrRecovery'.rawChunksRemaining = rawReadChunksRemaining
      /\ h2fErrRecovery'.readState = "START"
  BY <1>1 DEF Recovery
<1>5. h2fErrRecovery' # NoRecovery
  BY <1>4 DEF NoRecovery
<1>6. ReadTypes'
  BY <1>0, <1>1, <1>2, <1>3 DEF ReadTypes, ReadStates
<1>7. RecoveryInv'
  BY <1>1, <1>2, <1>4, <1>5 DEF RecoveryInv
<1>8. readState' \in ReadStates \ {"READY"} /\ readState' # "DONE" /\ rawReadChunksRemaining' # 0
  BY <1>1, <1>2 DEF ReadStates
<1> QED BY <1>1, <1>6, <1>7, <1>8, ReadMove

(* A word for the client. *)
LEMMA Enqueued ==
  ASSUME ReadTypes, NEW w \in Words, EnqReadBuffer(w)
  PROVE  readBuffer' \in Seq(Words) /\ Len(readBuffer') <= 2
BY DEF ReadTypes, EnqReadBuffer

(* A header, or the end mark. *)
LEMMA StartMessageStep == ASSUME EdgeInv, H2FStartMessage PROVE EdgeInv'
<1>0. ReadTypes /\ RecoveryInv
  BY DEF EdgeInv, TypeInv
<1>1. /\ ReadRule /\ TakeWord /\ readState = "START" /\ rawReadChunksRemaining # 1
      /\ UNCHANGED h2fErrRecovery
  BY DEF H2FStartMessage
<1>2. /\ rawReadChunksRemaining' \in Sizes /\ rawReadChunksRemaining' # 0
      /\ UNCHANGED <<hpc, resend, buf>> /\ hpc = "wait" /\ Word \in Words
  BY <1>1, Taking
<1>3. NumChunks(Word) \in Sizes
  BY <1>2, NumChunksType
<1>4. /\ readBuffer' \in Seq(Words) /\ Len(readBuffer') <= 2
      /\ readState' \in {"START", "CONT"} /\ readDataChunksRemaining' \in Sizes
      /\ readState' = "CONT" => readDataChunksRemaining' # 0
      /\ noMoreReadData' \in BOOLEAN
  <2>1. CASE Word # Zero
    <3>1. EnqReadBuffer(Word) /\ UNCHANGED noMoreReadData
          /\ readDataChunksRemaining' = NumChunks(Word)
          /\ readState' = IF NumChunks(Word) # 0 THEN "CONT" ELSE "START"
      BY <2>1 DEF H2FStartMessage
    <3>2. readBuffer' \in Seq(Words) /\ Len(readBuffer') <= 2
      BY <1>0, <1>2, <3>1, Enqueued
    <3> QED BY <1>0, <1>3, <3>1, <3>2 DEF ReadTypes
  <2>2. CASE Word = Zero
    <3>1. noMoreReadData' = TRUE /\ UNCHANGED <<readState, readDataChunksRemaining, readBuffer>>
      BY <2>2 DEF H2FStartMessage
    <3> QED BY <1>0, <1>1, <3>1 DEF ReadTypes
  <2> QED BY <2>1, <2>2
<1>5. ReadTypes'
  BY <1>0, <1>1, <1>2, <1>4 DEF ReadTypes, ReadStates
<1>6. RecoveryInv'
  <2>1. readState' = "CONT" => readDataChunksRemaining' > 0
    BY <1>4, SizeConstants DEF Sizes
  <2>2. h2fErrRecovery = NoRecovery
    BY <1>0, <1>1 DEF RecoveryInv
  <2> QED BY <1>1, <1>2, <1>4, <2>1, <2>2 DEF RecoveryInv
<1>7. readState' \in ReadStates \ {"READY"} /\ readState' # "DONE" /\ readState \notin {"READY", "DONE"}
  BY <1>1, <1>4 DEF ReadStates
<1> QED BY <1>1, <1>2, <1>5, <1>6, <1>7, ReadMove

(* A word of a message, with or without an error. *)
LEMMA ContReadStep == ASSUME EdgeInv, H2FContRead PROVE EdgeInv'
<1>0. ReadTypes /\ RecoveryInv
  BY DEF EdgeInv, TypeInv
<1>1. /\ ReadRule /\ TakeWord /\ readState = "CONT" /\ UNCHANGED noMoreReadData
      /\ readDataChunksRemaining' = readDataChunksRemaining - 1
  BY DEF H2FContRead
<1>2. /\ rawReadChunksRemaining \in Sizes \ {0} /\ rawReadChunksRemaining < Len(buf)
      /\ rawReadChunksRemaining' \in Sizes
      /\ rawReadChunksRemaining' = 0 <=> rawReadChunksRemaining = 1
      /\ UNCHANGED <<hpc, resend, buf>> /\ hpc = "wait" /\ Word \in Words
  BY <1>1, Taking
<1>3. readDataChunksRemaining > 0 /\ h2fErrRecovery = NoRecovery
  BY <1>0, <1>1 DEF RecoveryInv
<1>4. readDataChunksRemaining \in Sizes /\ readDataChunksRemaining' \in Sizes
  BY <1>0, <1>1, <1>3, SizeConstants DEF ReadTypes, Sizes
<1>5. /\ readBuffer' \in Seq(Words) /\ Len(readBuffer') <= 2
      /\ readState' \in {"START", "CONT", "DONE", "ERROR"}
      /\ readState' = "DONE" <=> rawReadChunksRemaining = 1
      /\ readState' = "CONT" => readDataChunksRemaining # 1
      /\ \/ readState' # "ERROR" /\ h2fErrRecovery' = NoRecovery
         \/ readState' \in {"DONE", "ERROR"} /\ h2fErrRecovery' = Recovery("CONT")
  <2>1. CASE ~ error
    <3>1. /\ EnqReadBuffer(Word) /\ UNCHANGED h2fErrRecovery
          /\ readState' = IF rawReadChunksRemaining = 1 THEN "DONE"
                          ELSE IF readDataChunksRemaining = 1 THEN "START" ELSE "CONT"
      BY <2>1 DEF H2FContRead
    <3>2. readBuffer' \in Seq(Words) /\ Len(readBuffer') <= 2
      BY <1>0, <1>2, <3>1, Enqueued
    <3> QED BY <1>3, <3>1, <3>2
  <2>2. CASE error
    <3>1. /\ UNCHANGED readBuffer /\ h2fErrRecovery' = Recovery("CONT")
          /\ readState' = IF rawReadChunksRemaining = 1 THEN "DONE" ELSE "ERROR"
      BY <2>2 DEF H2FContRead
    <3> QED BY <1>0, <3>1 DEF ReadTypes
  <2> QED BY <2>1, <2>2
<1>6. Recovery("CONT") \in RecoveryType
  BY <1>2, <1>4 DEF Recovery, RecoveryType
<1>7. /\ Recovery("CONT").rawChunksRemaining = rawReadChunksRemaining
      /\ Recovery("CONT").dataChunksRemaining = readDataChunksRemaining
      /\ Recovery("CONT").readState = "CONT"
  BY DEF Recovery
<1>8. Recovery("CONT") # NoRecovery
  BY <1>7 DEF NoRecovery
<1>9. ReadTypes'
  <2>1. h2fErrRecovery' \in RecoveryType \cup {NoRecovery}
    BY <1>5, <1>6
  <2> QED BY <1>0, <1>1, <1>2, <1>4, <1>5, <2>1 DEF ReadTypes, ReadStates
<1>10. RecoveryInv'
  <2>1. readState' = "CONT" => readDataChunksRemaining' > 0
    BY <1>1, <1>3, <1>4, <1>5, SizeConstants DEF Sizes
  <2>2. h2fErrRecovery' # NoRecovery =>
          /\ h2fErrRecovery'.rawChunksRemaining = rawReadChunksRemaining
          /\ h2fErrRecovery'.dataChunksRemaining = readDataChunksRemaining
    BY <1>5, <1>7
  <2> QED BY <1>2, <1>3, <1>5, <1>8, <2>1, <2>2 DEF RecoveryInv
<1>11. readState' \in ReadStates \ {"READY"}
  BY <1>5 DEF ReadStates
<1> QED BY <1>1, <1>2, <1>5, <1>9, <1>10, <1>11, ReadMove

(* Recovery ends at the errant word. *)
LEMMA ResumeStep == ASSUME EdgeInv, RecoverResume PROVE EdgeInv'
<1>0. ReadTypes /\ RecoveryInv
  BY DEF EdgeInv, TypeInv
<1>1. /\ ReadRule /\ readState = "RECOVER" /\ h2fErrRecovery' = NoRecovery
      /\ readState' = h2fErrRecovery.readState
      /\ readDataChunksRemaining' = h2fErrRecovery.dataChunksRemaining
      /\ UNCHANGED <<rawReadChunksRemaining, noMoreReadData, readBuffer, marshVars>>
  BY DEF RecoverResume
<1>2. h2fErrRecovery # NoRecovery
  BY <1>0, <1>1 DEF RecoveryInv
<1>3. /\ readState' \in {"START", "CONT"} /\ readDataChunksRemaining' \in Sizes
      /\ readState' = "CONT" => readDataChunksRemaining' > 0
  BY <1>0, <1>1, <1>2, RecoveryTypes DEF RecoveryInv
<1>4. rawReadChunksRemaining' # 0 /\ UNCHANGED <<hpc, resend, buf>> /\ hpc = "wait"
  BY <1>1, Taking
<1>5. ReadTypes'
  BY <1>0, <1>1, <1>3 DEF ReadTypes, ReadStates
<1>6. RecoveryInv'
  BY <1>1, <1>3, <1>4 DEF RecoveryInv
<1>7. readState' \in ReadStates \ {"READY"} /\ readState' # "DONE"
  BY <1>3 DEF ReadStates
<1> QED BY <1>1, <1>4, <1>5, <1>6, <1>7, ReadMove
-----------------------------------------------------------------------------
(* Steps of the write side. *)

(* What a step of the write side leaves alone. *)
LEMMA WriteMove ==
  ASSUME EdgeInv, WriteRule, readState # "READY", WriteTypes', F2HTypes',
         Len(reply') + rawWriteChunksRemaining' = cmd.f2h,
         writeState' = "LAST" <=> rawWriteChunksRemaining' = 0,
         writeState' = "TRY" => reply' = << >>,
         writeState' \in {"TRY", "START", "CONT"} => cmd.permitted,
         writeState' = "DUMMY" => ~ cmd.permitted,
         writeState' \in {"START", "CONT"} => numWrittenChunks' = Len(reply'),
         writeState' # "READY", ReplyInv', FlowInv'
  PROVE  EdgeInv'
<1>0. /\ HostTypes /\ LinkTypes /\ ReadTypes /\ ClientTypes /\ WriteTypes /\ F2HTypes
      /\ BufferInv /\ PhaseInv /\ PipeInv /\ RecoveryInv /\ ReplyInv /\ FlowInv
  BY DEF EdgeInv, TypeInv
<1>1. UNCHANGED <<hostVars, linkVars, marshVars, readVars, clientVars>>
  BY DEF WriteRule
<1>2. Running /\ ~ Replied /\ ~ Before /\ hpc = "wait"
  BY Phases
<1>3. /\ hpc' = hpc /\ cmd' = cmd /\ buf' = buf /\ sums' = sums /\ resend' = resend
      /\ sentChunks' = sentChunks /\ readState' = readState
      /\ rawReadChunksRemaining' = rawReadChunksRemaining /\ h2fErrRecovery' = h2fErrRecovery
      /\ readDataChunksRemaining' = readDataChunksRemaining
      /\ inQ' = inQ /\ outQ' = outQ /\ idx' = idx
  BY <1>1 DEF hostVars, linkVars, readVars, marshVars
<1>4. Running' /\ ~ Before' /\ ~ Replied'
  <2>1. Running' /\ ~ Before'
    BY <1>2, <1>3 DEF Running, Before
  <2>2. Len(reply') \in Nat /\ rawWriteChunksRemaining' \in Nat /\ cmd.f2h \in Nat
    BY SizeConstants, ReplyTypes DEF WriteTypes, Sizes
  <2>3. Len(reply') # cmd.f2h + 1
    <3> DEFINE n == Len(reply')
               r == rawWriteChunksRemaining'
               f == cmd.f2h
    <3>1. n \in Nat /\ r \in Nat /\ f \in Nat /\ n + r = f
      BY <2>2
    <3> HIDE DEF n, r, f
    <3>2. n # f + 1
      BY <3>1
    <3> QED BY <3>2 DEF n, f
  <2> QED BY <1>3, <2>1, <2>3 DEF Replied
<1>5. HostTypes' /\ LinkTypes' /\ ReadTypes' /\ ClientTypes'
  BY <1>0, <1>1, TypesStay
<1>6. BufferInv'
  BY <1>0, <1>3 DEF BufferInv
<1>7. PipeInv'
  <2>1. Untaken' = Untaken /\ Left' = Left
    BY <1>2, <1>3, <1>4 DEF Untaken, Left
  <2> QED BY <1>0, <1>3, <2>1 DEF PipeInv
<1>8. RecoveryInv'
  BY <1>0, <1>3 DEF RecoveryInv
<1>9. PhaseInv'
  BY <1>0, <1>2, <1>3, <1>4 DEF PhaseInv
<1> QED BY <1>5, <1>6, <1>7, <1>8, <1>9 DEF EdgeInv, TypeInv

(* Where a reply is while it is written. *)
LEMMA WriteFacts ==
  ASSUME EdgeInv, writeState # "READY"
  PROVE  /\ readState # "READY" /\ Running /\ ~ Replied
         /\ Len(reply) + rawWriteChunksRemaining = cmd.f2h
         /\ writeState = "LAST" <=> rawWriteChunksRemaining = 0
         /\ writeState = "TRY" => reply = << >>
         /\ writeState \in {"TRY", "START", "CONT"} => cmd.permitted
         /\ writeState = "DUMMY" => ~ cmd.permitted
         /\ writeState \in {"START", "CONT"} => numWrittenChunks = Len(reply)
         /\ Len(reply) \in Nat /\ rawWriteChunksRemaining \in Nat
         /\ cmd.f2h \in Nat /\ cmd.f2h <= MaxMsgWords /\ MaxMsgWords \in Nat
         /\ InReply = IF cmd.permitted THEN UsefulWords(reply, Len(reply)) ELSE << >>
         /\ WriteRule => UNCHANGED <<hpc, cmd, readState, f2hGot, f2h, f2hSent>>
<1>1. readState # "READY" /\ Running /\ ~ Replied
  BY Phases
<1>2. cmd.f2h \in Nat /\ cmd.f2h <= MaxMsgWords
  BY ReplyTypes DEF Sizes
<1>3. InReply = IF cmd.permitted THEN UsefulWords(reply, Len(reply)) ELSE << >>
  BY <1>1 DEF InReply
<1>4. WriteRule => UNCHANGED <<hpc, cmd, readState, f2hGot, f2h, f2hSent>>
  BY DEF WriteRule, hostVars, readVars
<1> QED BY <1>1, <1>2, <1>3, <1>4, ReplyTypes DEF EdgeInv, PhaseInv

(* The words that wait are words of messages. *)
LEMMA Waiting ==
  ASSUME EdgeInv
  PROVE  /\ writeDataQ \in Seq(SentWords) /\ f2hGot \in Seq(SentWords) /\ InReply \in Seq(SentWords)
         /\ f2hSent \in Seq(SentWords) /\ f2hSent = f2hGot \o InReply \o writeDataQ
<1>1. /\ writeDataQ \in Seq(Words) /\ f2hGot \in Seq(Words) /\ f2hSent \in Seq(SentWords)
      /\ f2hSent = f2hGot \o InReply \o writeDataQ
  BY DEF EdgeInv, TypeInv, F2HTypes, HostTypes, FlowInv
<1>2. InReply \in Seq(Words)
  <2>1. CASE Replied /\ cmd.permitted
    <3>1. numUsefulWriteChunks <= cmd.f2h /\ numUsefulWriteChunks \in Nat
      BY <2>1, SizeConstants DEF EdgeInv, ReplyInv, TypeInv, WriteTypes, Sizes
    <3>2. Len(reply) = cmd.f2h + 1 /\ cmd.f2h \in Nat /\ reply \in Seq(Words)
      BY <2>1, SizeConstants DEF Replied, EdgeInv, TypeInv, WriteTypes, HostTypes, Sizes
    <3>3. numUsefulWriteChunks \in 0 .. Len(reply)
      BY <3>1, <3>2
    <3>4. InReply = UsefulWords(reply, numUsefulWriteChunks)
      BY <2>1 DEF InReply
    <3> QED BY <3>2, <3>3, <3>4, UsefulType
  <2>2. CASE Running /\ ~ Replied /\ cmd.permitted
    <3>1. reply \in Seq(Words) /\ Len(reply) \in 0 .. Len(reply)
      BY DEF EdgeInv, TypeInv, WriteTypes
    <3>2. InReply = UsefulWords(reply, Len(reply))
      BY <2>2 DEF InReply
    <3> QED BY <3>1, <3>2, UsefulType
  <2>3. CASE ~ ((Running \/ Replied) /\ cmd.permitted)
    BY <2>3 DEF InReply
  <2> QED BY <2>1, <2>2, <2>3
<1> DEFINE a == Len(f2hGot)
           b == Len(InReply)
           c == Len(writeDataQ)
<1>3. a \in Nat /\ b \in Nat /\ c \in Nat
  BY <1>1, <1>2
<1>4. Len(f2hSent) = a + b + c
      /\ (\A i \in 1 .. a : f2hSent[i] = f2hGot[i])
      /\ (\A i \in 1 .. b : f2hSent[a + i] = InReply[i])
      /\ (\A i \in 1 .. c : f2hSent[a + b + i] = writeDataQ[i])
  <2> DEFINE front == f2hGot \o InReply
  <2>1. /\ front \in Seq(Words) /\ Len(front) = a + b
        /\ \A i \in 1 .. a + b : front[i] = IF i <= a THEN f2hGot[i] ELSE InReply[i - a]
    BY <1>1, <1>2, ConcatProperties
  <2>2. f2hSent = front \o writeDataQ
    BY <1>1
  <2> HIDE DEF front
  <2>3. /\ Len(f2hSent) = a + b + c
        /\ \A i \in 1 .. a + b + c :
             f2hSent[i] = IF i <= a + b THEN front[i] ELSE writeDataQ[i - (a + b)]
    BY <1>1, <2>1, <2>2, ConcatProperties
  <2> HIDE DEF a, b, c
  <2>4. ASSUME NEW i \in 1 .. a PROVE f2hSent[i] = f2hGot[i]
    BY <1>3, <2>1, <2>3, <2>4
  <2>5. ASSUME NEW i \in 1 .. b PROVE f2hSent[a + i] = InReply[i]
    <3> DEFINE j == a + i
    <3>1. j \in 1 .. a + b /\ ~ (j <= a) /\ j - a = i /\ j \in 1 .. a + b + c /\ j <= a + b
      BY <1>3
    <3> HIDE DEF j
    <3>2. f2hSent[j] = front[j] /\ front[j] = InReply[j - a]
      BY <2>1, <2>3, <3>1
    <3>3. f2hSent[j] = InReply[i]
      BY <3>1, <3>2
    <3> QED BY <3>3 DEF j
  <2>6. ASSUME NEW i \in 1 .. c PROVE f2hSent[a + b + i] = writeDataQ[i]
    <3> DEFINE j == a + b + i
    <3>1. j \in 1 .. a + b + c /\ ~ (j <= a + b) /\ j - (a + b) = i
      BY <1>3
    <3> HIDE DEF j
    <3>2. f2hSent[j] = writeDataQ[j - (a + b)]
      BY <2>3, <3>1
    <3>3. f2hSent[j] = writeDataQ[i]
      BY <3>1, <3>2
    <3> QED BY <3>3 DEF j
  <2> QED BY <2>3, <2>4, <2>5, <2>6
<1>5. \A j \in 1 .. a + b + c : f2hSent[j] \in SentWords
  BY <1>1, <1>4
<1>6. /\ \A i \in 1 .. a : f2hGot[i] \in SentWords
      /\ \A i \in 1 .. b : InReply[i] \in SentWords
      /\ \A i \in 1 .. c : writeDataQ[i] \in SentWords
  <2> HIDE DEF a, b, c
  <2>1. ASSUME NEW i \in 1 .. a PROVE f2hGot[i] \in SentWords
    <3>1. i \in 1 .. a + b + c
      BY <1>3
    <3> QED BY <1>4, <1>5, <3>1
  <2>2. ASSUME NEW i \in 1 .. b PROVE InReply[i] \in SentWords
    <3>1. a + i \in 1 .. a + b + c
      BY <1>3
    <3> QED BY <1>4, <1>5, <3>1
  <2>3. ASSUME NEW i \in 1 .. c PROVE writeDataQ[i] \in SentWords
    <3>1. a + b + i \in 1 .. a + b + c
      BY <1>3
    <3> QED BY <1>4, <1>5, <3>1
  <2> QED BY <2>1, <2>2, <2>3
<1>7. f2hGot \in Seq(SentWords) /\ InReply \in Seq(SentWords) /\ writeDataQ \in Seq(SentWords)
  BY <1>1, <1>2, <1>6
<1> QED BY <1>1, <1>7

(* A word of a message is no fill word. *)
LEMMA SentWordsFacts ==
  ASSUME EdgeInv, NEW w \in SentWords
  PROVE  w \in Words /\ w # Zero /\ f2h[w[1]] \in Nat
<1>1. f2h \in Seq(F2HPayloads) /\ F2HPayloads \subseteq Nat
  BY SizeConstants DEF EdgeInv, TypeInv, F2HTypes
<1>2. w \in Words /\ w[1] \in 1 .. Len(f2h)
  BY <1>1 DEF SentWords
<1>3. f2h[w[1]] \in F2HPayloads
  BY <1>1, <1>2
<1>4. w[1] # 0
  BY <1>1, <1>2
<1>5. Zero[1] = 0
  BY DEF Zero
<1> QED BY <1>1, <1>2, <1>3, <1>4, <1>5
(* What a word put into the reply does to the stream. *)
LEMMA FlowOfWord ==
  ASSUME EdgeInv, WriteRule, writeState \in {"START", "CONT"}, Running', ~ Replied',
         DeqWriteData, reply' = Append(reply, Head(writeDataQ))
  PROVE  FlowInv'
<1>1. /\ writeDataQ \in Seq(SentWords) /\ f2hGot \in Seq(SentWords) /\ InReply \in Seq(SentWords)
      /\ f2hSent \in Seq(SentWords) /\ f2hSent = f2hGot \o InReply \o writeDataQ
  BY Waiting
<1>2. /\ cmd.permitted /\ InReply = UsefulWords(reply, Len(reply))
      /\ UNCHANGED <<hpc, cmd, readState, f2hGot, f2h, f2hSent>>
  BY WriteFacts
<1> DEFINE w == Head(writeDataQ)
<1>3. writeDataQ # << >> /\ writeDataQ' = Tail(writeDataQ) /\ w \in SentWords
  BY <1>1 DEF DeqWriteData
<1>4. w \in Words /\ w # Zero /\ reply \in Seq(Words)
  BY <1>3, SentWordsFacts DEF EdgeInv, TypeInv, WriteTypes
<1>5. InReply' = UsefulWords(Append(reply, w), Len(Append(reply, w)))
  <2>1. InReply' = UsefulWords(reply', Len(reply'))
    BY <1>2 DEF InReply, UsefulWords
  <2> QED BY <2>1
<1> HIDE DEF w
<1>6. InReply' = Append(InReply, w)
  BY <1>2, <1>4, <1>5, UsefulAppend
<1>7. writeDataQ = <<w>> \o writeDataQ' /\ writeDataQ' \in Seq(SentWords)
  BY <1>1, <1>3 DEF w
<1>8. InReply' = InReply \o <<w>> /\ InReply' \in Seq(SentWords)
  BY <1>1, <1>3, <1>6
<1>9. f2hSent' = f2hGot' \o InReply' \o writeDataQ'
  <2> DEFINE q == writeDataQ'
             a == f2hGot
             b == InReply
             one == <<w>>
  <2>1. /\ q \in Seq(SentWords) /\ a \in Seq(SentWords) /\ b \in Seq(SentWords)
        /\ one \in Seq(SentWords)
    BY <1>1, <1>3, <1>7
  <2>6. f2hSent = (a \o b) \o (one \o q)
    BY <1>1, <1>7
  <2> HIDE DEF q, a, b, one
  <2>2. a \o b \in Seq(SentWords) /\ b \o one \in Seq(SentWords)
    BY ONLY <2>1, ConcatProperties
  <2>3. ((a \o b) \o one) \o q = (a \o b) \o (one \o q)
    BY ONLY SMTT(30), <2>1, <2>2, ConcatAssociative
  <2>4. (a \o b) \o one = a \o (b \o one)
    BY ONLY SMTT(30), <2>1, ConcatAssociative
  <2>5. f2hSent = a \o (b \o one) \o q
    BY ONLY <2>3, <2>4, <2>6
  <2> QED BY <1>2, <1>8, <2>5 DEF q, a, b, one
<1>10. SentWords' = SentWords
  BY <1>2 DEF SentWords
<1> QED BY <1>2, <1>9, <1>10 DEF FlowInv, EdgeInv

(* What a fill word does to it. *)
LEMMA FlowOfFill ==
  ASSUME EdgeInv, WriteRule, writeState \in {"CONT", "DUMMY"}, Running', ~ Replied',
         writeDataQ' = writeDataQ, reply' = Append(reply, Zero)
  PROVE  FlowInv'
<1>1. /\ InReply = IF cmd.permitted THEN UsefulWords(reply, Len(reply)) ELSE << >>
      /\ UNCHANGED <<hpc, cmd, readState, f2hGot, f2h, f2hSent>>
  BY WriteFacts
<1>2. reply \in Seq(Words) /\ Zero \in Words
  BY DEF EdgeInv, TypeInv, WriteTypes, Zero, Words
<1>3. InReply' = InReply
  <2>1. CASE cmd.permitted
    <3>1. InReply' = UsefulWords(reply', Len(reply'))
      BY <1>1, <2>1 DEF InReply, UsefulWords
    <3>2. InReply' = UsefulWords(Append(reply, Zero), Len(Append(reply, Zero)))
      BY <3>1
    <3>3. UsefulWords(Append(reply, Zero), Len(Append(reply, Zero))) = UsefulWords(reply, Len(reply))
      BY <1>2, UsefulAppend
    <3> QED BY <1>1, <2>1, <3>2, <3>3
  <2>2. CASE ~ cmd.permitted
    BY <1>1, <2>2 DEF InReply
  <2> QED BY <2>1, <2>2
<1>4. UNCHANGED f2hVars /\ FlowInv
  BY <1>1 DEF f2hVars, EdgeInv
<1> QED BY <1>1, <1>3, <1>4, FlowStays

(* A word put into the reply. *)
LEMMA EmitStep ==
  ASSUME EdgeInv, WriteRule, writeState \in {"START", "CONT", "DUMMY"}, NEW w \in Words, Emit(w),
         writeState' \in WriteStates \ {"READY", "TRY"},
         writeState' = "LAST" <=> rawWriteChunksRemaining = 1,
         writeState' = "DUMMY" => writeState = "DUMMY",
         writeState' = "CONT" => writeState # "DUMMY",
         writeState' # "START",
         writeDataChunksRemaining' \in Nat, spinCycles' = spinCycles,
         \/ w # Zero /\ numUsefulWriteChunks' = numWrittenChunks + 1 /\ writeState # "DUMMY"
         \/ w = Zero /\ numUsefulWriteChunks' = numUsefulWriteChunks /\ writeState = "CONT"
         \/ w = Zero /\ numUsefulWriteChunks' = 0 /\ writeState = "DUMMY",
         numWrittenChunks' = IF writeState = "DUMMY" THEN numWrittenChunks ELSE numWrittenChunks + 1,
         F2HTypes', Running' /\ ~ Replied' => FlowInv'
  PROVE  EdgeInv'
<1>0. WriteTypes /\ ReplyInv
  BY DEF EdgeInv, TypeInv
<1>1. /\ readState # "READY" /\ Running /\ ~ Replied
      /\ Len(reply) + rawWriteChunksRemaining = cmd.f2h
      /\ rawWriteChunksRemaining # 0
      /\ Len(reply) \in Nat /\ rawWriteChunksRemaining \in Nat /\ cmd.f2h \in Nat
      /\ cmd.f2h <= MaxMsgWords /\ MaxMsgWords \in Nat
      /\ UNCHANGED <<hpc, cmd, readState>>
  BY WriteFacts
<1>2. /\ writeState \in {"START", "CONT"} => cmd.permitted /\ numWrittenChunks = Len(reply)
      /\ writeState = "DUMMY" => ~ cmd.permitted
  BY WriteFacts
<1>3. reply' = Append(reply, w) /\ rawWriteChunksRemaining' = rawWriteChunksRemaining - 1
  BY DEF Emit
<1> DEFINE n == Len(reply)
           r == rawWriteChunksRemaining
           f == cmd.f2h
<1>4. n \in Nat /\ r \in Nat \ {0} /\ f \in Nat /\ n + r = f /\ f <= MaxMsgWords /\ MaxMsgWords \in Nat
  BY <1>1
<1>5. /\ reply' \in Seq(Words) /\ Len(reply') = n + 1 /\ reply'[n + 1] = w
      /\ \A i \in 1 .. n : reply'[i] = reply[i]
  BY <1>0, <1>3 DEF WriteTypes
<1> HIDE DEF n, r, f
<1>6. n + 1 \in Sizes /\ r - 1 \in Sizes /\ n + 1 + (r - 1) = f /\ (r - 1 = 0 <=> r = 1)
      /\ n + 1 # f + 1 /\ 0 \in Sizes
  BY <1>4 DEF Sizes
<1>7. Running' /\ ~ Replied'
  BY <1>1, <1>5, <1>6 DEF Running, Replied, f
<1>8. numWrittenChunks' \in Sizes /\ numUsefulWriteChunks' \in Sizes
  <2>1. numWrittenChunks \in Sizes /\ numUsefulWriteChunks \in Sizes
    BY <1>0 DEF WriteTypes
  <2> QED BY <1>2, <1>6, <2>1 DEF n
<1>9. WriteTypes'
  <2>1. rawWriteChunksRemaining' \in Sizes
    BY <1>3, <1>6 DEF r
  <2> QED BY <1>0, <1>5, <1>8, <2>1 DEF WriteTypes
<1>10. /\ Len(reply') + rawWriteChunksRemaining' = cmd.f2h
       /\ writeState' = "LAST" <=> rawWriteChunksRemaining' = 0
  BY <1>3, <1>5, <1>6 DEF r, f
<1>11. ReplyInv'
  <2> DEFINE u == numUsefulWriteChunks'
  <2>1. /\ u <= n + 1
        /\ u > 0 => reply'[u] # Zero
        /\ \A i \in u + 1 .. n + 1 : reply'[i] = Zero
        /\ ~ cmd.permitted => u = 0
    <3>1. CASE w # Zero /\ u = numWrittenChunks + 1 /\ writeState # "DUMMY"
      <4>1. u = n + 1 /\ cmd.permitted
        BY <1>2, <3>1 DEF n
      <4> HIDE DEF u
      <4> QED BY <1>4, <1>5, <3>1, <4>1
    <3>2. CASE w = Zero /\ u = numUsefulWriteChunks /\ writeState = "CONT"
      <4>1. /\ u <= n /\ u \in Nat
            /\ u > 0 => reply[u] # Zero
            /\ \A i \in u + 1 .. n : reply[i] = Zero
        BY <1>0, <1>1, <3>2, SizeConstants DEF ReplyInv, WriteTypes, n, Sizes
      <4>2. cmd.permitted
        BY <1>2, <3>2
      <4> HIDE DEF u
      <4>3. ASSUME NEW i \in u + 1 .. n + 1 PROVE reply'[i] = Zero
        <5>1. CASE i = n + 1
          BY <1>5, <3>2, <5>1
        <5>2. CASE i # n + 1
          <6>1. i \in u + 1 .. n /\ i \in 1 .. n
            BY <1>4, <4>1, <5>2
          <6> QED BY <1>5, <4>1, <6>1
        <5> QED BY <5>1, <5>2
      <4>4. u > 0 => reply'[u] # Zero
        <5>1. u > 0 => u \in 1 .. n
          BY <1>4, <4>1
        <5> QED BY <1>5, <4>1, <5>1
      <4> QED BY <1>4, <4>1, <4>2, <4>3, <4>4
    <3>3. CASE w = Zero /\ u = 0 /\ writeState = "DUMMY"
      <4>1. \A i \in 1 .. n : reply[i] = Zero
        <5>1. CASE reply = << >>
          BY <5>1 DEF n
        <5>2. CASE reply # << >>
          <6>1. /\ numUsefulWriteChunks = 0
                /\ \A i \in numUsefulWriteChunks + 1 .. n : reply[i] = Zero
            BY <1>0, <1>1, <1>2, <3>3, <5>2 DEF ReplyInv, n
          <6> QED BY <6>1
        <5> QED BY <5>1, <5>2
      <4> HIDE DEF u
      <4>2. ASSUME NEW i \in 1 .. n + 1 PROVE reply'[i] = Zero
        <5>1. CASE i = n + 1
          BY <1>5, <3>3, <5>1
        <5>2. CASE i # n + 1
          <6>1. i \in 1 .. n
            BY <1>4, <5>2
          <6> QED BY <1>5, <4>1, <6>1
        <5> QED BY <5>1, <5>2
      <4> QED BY <1>4, <3>3, <4>2
    <3> QED BY <3>1, <3>2, <3>3
  <2>2. cmd' = cmd
    BY <1>1
  <2> QED BY <1>5, <1>7, <2>1, <2>2 DEF ReplyInv
<1>12. /\ writeState' # "READY" /\ writeState' # "TRY"
       /\ writeState' \in {"START", "CONT"} => cmd.permitted /\ numWrittenChunks' = Len(reply')
       /\ writeState' = "DUMMY" => ~ cmd.permitted
  BY <1>2, <1>5 DEF n
<1> QED BY <1>1, <1>7, <1>9, <1>10, <1>11, <1>12, WriteMove
(* A word leaves the client's queue. *)
LEMMA DequeuedData ==
  ASSUME EdgeInv, DeqWriteData, UNCHANGED <<f2h, f2hSent>>
  PROVE  /\ F2HTypes' /\ Head(writeDataQ) \in Words /\ Head(writeDataQ) # Zero
         /\ f2h[Head(writeDataQ)[1]] \in Nat
<1>1. writeDataQ \in Seq(Words) /\ Len(writeDataQ) <= 2 /\ writeDataQ # << >>
      /\ writeDataQ' = Tail(writeDataQ)
  BY DEF EdgeInv, TypeInv, F2HTypes, DeqWriteData
<1>2. writeDataQ' \in Seq(Words) /\ Len(writeDataQ') <= 2
  BY <1>1
<1>3. F2HTypes'
  BY <1>2 DEF EdgeInv, TypeInv, F2HTypes
<1>4. Head(writeDataQ) \in SentWords
  BY <1>1, Waiting
<1> QED BY <1>3, <1>4, SentWordsFacts

(* The reply begins. *)
LEMMA TryWriteStep == ASSUME EdgeInv, F2HTryWrite PROVE EdgeInv'
<1>0. WriteTypes /\ FlowInv
  BY DEF EdgeInv, TypeInv
<1>1. /\ writeState = "TRY" /\ numWrittenChunks' = 0 /\ numUsefulWriteChunks' = 0
      /\ writeState' \in {"TRY", "START", "CONT"} /\ spinCycles' = (spinCycles - 1) % 2 ^ 24
      /\ UNCHANGED <<rawWriteChunksRemaining, writeDataChunksRemaining, reply, writeDataQ>>
      /\ WriteRule
  BY DEF F2HTryWrite
<1>2. /\ readState # "READY" /\ Running /\ ~ Replied
      /\ Len(reply) + rawWriteChunksRemaining = cmd.f2h
      /\ rawWriteChunksRemaining # 0 /\ reply = << >> /\ cmd.permitted
      /\ InReply = UsefulWords(reply, Len(reply))
      /\ UNCHANGED <<hpc, cmd, readState, f2hGot, f2h, f2hSent>>
  BY <1>1, WriteFacts
<1>3. WriteTypes'
  <2>1. spinCycles' \in Nat
    <3>1. spinCycles \in Nat
      BY <1>0 DEF WriteTypes
    <3> QED BY <1>1, <3>1
  <2>2. 0 \in Sizes
    BY SizeConstants DEF Sizes
  <2> QED BY <1>0, <1>1, <2>1, <2>2 DEF WriteTypes, WriteStates
<1>4. F2HTypes'
  BY <1>1, <1>2 DEF EdgeInv, TypeInv, F2HTypes
<1>5. Running' /\ ~ Replied'
  BY <1>1, <1>2 DEF Running, Replied
<1>6. ReplyInv'
  <2>1. Len(reply') = 0 /\ reply' = << >>
    BY <1>1, <1>2
  <2>2. \A i \in 0 + 1 .. 0 : FALSE
    OBVIOUS
  <2> QED BY <1>1, <1>5, <2>1, <2>2 DEF ReplyInv
<1>7. FlowInv'
  <2>1. InReply' = InReply
    BY <1>1, <1>2, <1>5 DEF InReply, UsefulWords
  <2>2. UNCHANGED f2hVars
    BY <1>1, <1>2 DEF f2hVars
  <2> QED BY <1>0, <1>2, <2>1, <2>2, FlowStays
<1>8. Len(reply') = 0
  BY <1>1, <1>2
<1> QED BY <1>1, <1>2, <1>3, <1>4, <1>6, <1>7, <1>8, WriteMove

(* A word of a message goes into the reply. *)
LEMMA StartWriteStep == ASSUME EdgeInv, F2HStartWrite \/ F2HContWrite PROVE EdgeInv'
<1>1. /\ writeState \in {"START", "CONT"} /\ DeqWriteData /\ Emit(Head(writeDataQ)) /\ Room("CONT")
      /\ numUsefulWriteChunks' = numWrittenChunks + 1 /\ numWrittenChunks' = numWrittenChunks + 1
      /\ UNCHANGED spinCycles /\ WriteRule
      /\ \/ writeDataChunksRemaining' = f2h[Head(writeDataQ)[1]]
         \/ /\ writeDataChunksRemaining # 0
            /\ writeDataChunksRemaining' = writeDataChunksRemaining - 1
  BY DEF F2HStartWrite, F2HContWrite
<1>2. F2HTypes' /\ Head(writeDataQ) \in Words /\ Head(writeDataQ) # Zero
      /\ f2h[Head(writeDataQ)[1]] \in Nat
  BY <1>1, DequeuedData DEF WriteRule
<1>3. writeDataChunksRemaining' \in Nat
  <2>1. writeDataChunksRemaining \in Nat
    BY DEF EdgeInv, TypeInv, WriteTypes
  <2> QED BY <1>1, <1>2, <2>1
<1>4. writeState' = IF rawWriteChunksRemaining = 1 THEN "LAST" ELSE "CONT"
  BY <1>1 DEF Room
<1>5. Running' /\ ~ Replied' => FlowInv'
  BY <1>1, FlowOfWord DEF Emit
<1>6. writeState' \in WriteStates \ {"READY", "TRY"}
  BY <1>4 DEF WriteStates
<1> QED BY <1>1, <1>2, <1>3, <1>4, <1>5, <1>6, EmitStep

(* A fill word goes into it. *)
LEMMA FillStep == ASSUME EdgeInv, F2HContFill \/ H2FWriteDummy PROVE EdgeInv'
<1>1. /\ writeState \in {"CONT", "DUMMY"} /\ Emit(Zero) /\ Room(writeState)
      /\ UNCHANGED <<writeDataChunksRemaining, spinCycles, writeDataQ>> /\ WriteRule
      /\ \/ /\ writeState = "CONT" /\ UNCHANGED numUsefulWriteChunks
            /\ numWrittenChunks' = numWrittenChunks + 1
         \/ /\ writeState = "DUMMY" /\ numUsefulWriteChunks' = 0 /\ UNCHANGED numWrittenChunks
  BY DEF F2HContFill, H2FWriteDummy
<1>2. F2HTypes' /\ writeDataChunksRemaining' \in Nat /\ Zero \in Words
  BY <1>1 DEF EdgeInv, TypeInv, F2HTypes, WriteTypes, WriteRule, Zero, Words
<1>3. writeState' = IF rawWriteChunksRemaining = 1 THEN "LAST" ELSE writeState
  BY <1>1 DEF Room
<1>4. Running' /\ ~ Replied' => FlowInv'
  BY <1>1, FlowOfFill DEF Emit
<1>5. writeState' \in WriteStates \ {"READY", "TRY"}
  BY <1>1, <1>3 DEF WriteStates
<1> QED BY <1>1, <1>2, <1>3, <1>4, <1>5, EmitStep

(* A new message begins in a reply. *)
LEMMA ContStartStep == ASSUME EdgeInv, F2HContStart PROVE EdgeInv'
<1>0. WriteTypes /\ FlowInv /\ ReplyInv
  BY DEF EdgeInv, TypeInv
<1>1. /\ writeState = "CONT" /\ writeState' = "START"
      /\ UNCHANGED <<rawWriteChunksRemaining, writeDataChunksRemaining, numUsefulWriteChunks,
                     numWrittenChunks, spinCycles, reply, writeDataQ>>
      /\ WriteRule
  BY DEF F2HContStart
<1>2. /\ readState # "READY" /\ Running /\ ~ Replied
      /\ Len(reply) + rawWriteChunksRemaining = cmd.f2h
      /\ rawWriteChunksRemaining # 0 /\ cmd.permitted /\ numWrittenChunks = Len(reply)
      /\ InReply = UsefulWords(reply, Len(reply))
      /\ UNCHANGED <<hpc, cmd, readState, f2hGot, f2h, f2hSent>>
  BY <1>1, WriteFacts
<1>3. WriteTypes' /\ F2HTypes'
  BY <1>0, <1>1, <1>2 DEF EdgeInv, TypeInv, F2HTypes, WriteTypes, WriteStates
<1>4. Running' /\ ~ Replied'
  BY <1>1, <1>2 DEF Running, Replied
<1>5. ReplyInv'
  BY <1>0, <1>1, <1>2, <1>4 DEF ReplyInv
<1>6. FlowInv'
  <2>1. InReply' = InReply
    BY <1>1, <1>2, <1>4 DEF InReply, UsefulWords
  <2>2. UNCHANGED f2hVars
    BY <1>1, <1>2 DEF f2hVars
  <2> QED BY <1>0, <1>2, <2>1, <2>2, FlowStays
<1> QED BY <1>1, <1>2, <1>3, <1>5, <1>6, WriteMove

(* The last word completes the reply. *)
LEMMA CompleteWriteStep == ASSUME EdgeInv, F2HCompleteWrite PROVE EdgeInv'
<1>0. /\ HostTypes /\ LinkTypes /\ ReadTypes /\ ClientTypes /\ WriteTypes /\ F2HTypes
      /\ BufferInv /\ PhaseInv /\ PipeInv /\ RecoveryInv /\ ReplyInv /\ FlowInv
  BY DEF EdgeInv, TypeInv
<1> DEFINE last == <<numUsefulWriteChunks, IF h2fErrRecovery = NoRecovery THEN 0
                                           ELSE h2fErrRecovery.rawChunksRemaining>>
<1>1. /\ writeState = "LAST" /\ readState = "DONE" /\ writeState' = "READY" /\ readState' = "READY"
      /\ error' = FALSE /\ reply' = Append(reply, last)
      /\ UNCHANGED <<rawReadChunksRemaining, readDataChunksRemaining, noMoreReadData,
                     h2fErrRecovery, readBuffer, rawWriteChunksRemaining,
                     writeDataChunksRemaining, numUsefulWriteChunks, numWrittenChunks,
                     spinCycles, inQ, idx, outQ, hostVars, linkVars, clientVars, f2hVars>>
  BY DEF F2HCompleteWrite
<1>2. /\ Running /\ ~ Replied /\ Len(reply) + rawWriteChunksRemaining = cmd.f2h
      /\ rawWriteChunksRemaining = 0 /\ Len(reply) \in Nat /\ cmd.f2h \in Nat
      /\ InReply = IF cmd.permitted THEN UsefulWords(reply, Len(reply)) ELSE << >>
  BY <1>1, WriteFacts
<1>3. Len(reply) = cmd.f2h
  <2> DEFINE n == Len(reply)
             f == cmd.f2h
  <2>1. n \in Nat /\ n + 0 = f
    BY <1>2
  <2> HIDE DEF n, f
  <2>2. n = f
    BY <2>1
  <2> QED BY <2>2 DEF n, f
<1>4. /\ hpc' = hpc /\ cmd' = cmd /\ buf' = buf /\ sums' = sums /\ resend' = resend
      /\ f2hGot' = f2hGot /\ sentChunks' = sentChunks /\ hpc = "wait"
  BY <1>1, <1>2 DEF hostVars, linkVars, Running
<1>5. last \in Words
  <2>1. numUsefulWriteChunks \in Nat
    BY <1>0, SizeConstants DEF WriteTypes, Sizes
  <2> QED BY <2>1, RecoveryTypes DEF Words
<1> HIDE DEF last
<1>6. /\ reply' \in Seq(Words) /\ Len(reply') = Len(reply) + 1 /\ reply'[Len(reply) + 1] = last
      /\ \A i \in 1 .. Len(reply) : reply'[i] = reply[i]
  BY <1>0, <1>1, <1>5 DEF WriteTypes
<1>7. Replied' /\ ~ Running' /\ ~ Before'
  <2>1. Replied' /\ ~ Running'
    BY <1>1, <1>3, <1>4, <1>6 DEF Replied, Running
  <2>2. reply' # << >>
    BY <1>0, <1>1 DEF WriteTypes
  <2> QED BY <2>1, <2>2 DEF Before
<1>8. HostTypes' /\ ClientTypes' /\ F2HTypes'
  BY <1>0, <1>1, TypesStay
<1>9. LinkTypes'
  BY <1>0, <1>1 DEF LinkTypes, linkVars
<1>10. ReadTypes'
  BY <1>0, <1>1 DEF ReadTypes, ReadStates
<1>11. WriteTypes'
  BY <1>0, <1>1, <1>6 DEF WriteTypes, WriteStates
<1>12. BufferInv'
  BY <1>0, <1>4 DEF BufferInv
<1>13. PhaseInv'
  BY <1>1, <1>4, <1>7 DEF PhaseInv
<1>14. PipeInv'
  <2>1. rawReadChunksRemaining = 0
    BY <1>0, <1>1, <1>2 DEF PhaseInv
  <2>2. Untaken = 0 /\ Untaken' = 0
    BY <1>2, <1>7, <2>1, Phases DEF Untaken
  <2>3. Left' = Left
    BY <1>1 DEF Left
  <2> QED BY <1>0, <1>1, <1>4, <2>2, <2>3 DEF PipeInv
<1>15. RecoveryInv'
  BY <1>0, <1>1, <1>4 DEF RecoveryInv
<1>16. /\ numUsefulWriteChunks <= Len(reply) /\ numUsefulWriteChunks \in Nat
       /\ numUsefulWriteChunks > 0 => reply[numUsefulWriteChunks] # Zero
       /\ \A i \in numUsefulWriteChunks + 1 .. Len(reply) : reply[i] = Zero
       /\ ~ cmd.permitted => numUsefulWriteChunks = 0
  <2>1. reply # << >>
    <3>1. cmd.f2h > 0
      BY <1>4, BufferFacts
    <3> QED BY <1>3, <3>1, ReplyTypes
  <2>2. numUsefulWriteChunks \in Nat
    BY <1>0, SizeConstants DEF WriteTypes, Sizes
  <2> QED BY <1>0, <1>2, <2>1, <2>2 DEF ReplyInv
<1>17. ReplyInv'
  <2> DEFINE u == numUsefulWriteChunks
             n == Len(reply)
  <2>1. numUsefulWriteChunks' = u /\ h2fErrRecovery' = h2fErrRecovery
    BY <1>1
  <2>2. n \in Nat /\ u \in Nat /\ u <= n
    BY <1>2, <1>16
  <2>3. u > 0 => reply'[u] # Zero
    <3> HIDE DEF u, n
    <3>1. u > 0 => u \in 1 .. n
      BY <2>2
    <3> QED BY <1>6, <1>16, <3>1 DEF u, n
  <2>4. ASSUME NEW i \in u + 1 .. n PROVE reply'[i] = Zero
    <3>1. reply[i] = Zero
      BY <1>16
    <3>2. i \in 1 .. n
      <4> HIDE DEF u, n
      <4> QED BY <2>2
    <3> QED BY <1>6, <3>1, <3>2
  <2>5. reply'[Len(reply')] = last
    BY <1>6
  <2>6. last = <<numUsefulWriteChunks',
                 IF h2fErrRecovery' = NoRecovery THEN 0 ELSE h2fErrRecovery'.rawChunksRemaining>>
    BY <2>1 DEF last
  <2>7. cmd'.f2h = n
    BY <1>3, <1>4
  <2> QED BY <1>4, <1>7, <1>16, <2>1, <2>2, <2>3, <2>4, <2>5, <2>6, <2>7 DEF ReplyInv
<1>18. FlowInv'
  <2>1. InReply' = InReply
    <3>1. CASE cmd.permitted
      <4> DEFINE u == numUsefulWriteChunks
                 n == Len(reply)
                 final == reply'
      <4>1. InReply' = UsefulWords(reply', u)
        BY <1>1, <1>4, <1>7, <3>1 DEF InReply, UsefulWords
      <4>2. InReply = UsefulWords(reply, n)
        BY <1>2, <3>1
      <4>3. /\ u \in 0 .. Len(final) /\ n \in 0 .. Len(reply) /\ u <= n
            /\ final \in Seq(Words) /\ reply \in Seq(Words)
        BY <1>0, <1>2, <1>6, <1>16 DEF WriteTypes
      <4>4. \A i \in 1 .. u : final[i] = reply[i]
        <5>1. \A i \in 1 .. u : i \in 1 .. n
          BY <1>2, <1>16
        <5> QED BY <1>6, <5>1
      <4>5. \A i \in u + 1 .. n : reply[i] = Zero
        BY <1>16
      <4> HIDE DEF u, n, final
      <4>6. UsefulWords(final, u) = UsefulWords(reply, n)
        BY <4>3, <4>4, <4>5, UsefulPrefix
      <4> QED BY <4>1, <4>2, <4>6 DEF final
    <3>2. CASE ~ cmd.permitted
      BY <1>2, <1>4, <3>2 DEF InReply
    <3> QED BY <3>1, <3>2
  <2> QED BY <1>0, <1>1, <1>4, <2>1, FlowStays
<1> QED BY <1>8, <1>9, <1>10, <1>11, <1>12, <1>13, <1>14, <1>15, <1>17, <1>18 DEF EdgeInv, TypeInv
-----------------------------------------------------------------------------
(* Steps of the FPGA's client. *)

(* The client writes the next word of a message, or the header of a new    *)
(* one.                                                                    *)
LEMMA NextWord ==
  ASSUME EdgeInv, ClientWrite
  PROVE  \E word \in Words :
           /\ writeDataQ' = Append(writeDataQ, word) /\ f2hSent' = Append(f2hSent, word)
           /\ f2h' \in Seq(F2HPayloads) /\ Len(f2h') <= MaxF2H
           /\ Len(f2h') \in Nat /\ Len(f2h) \in Nat /\ Len(f2h) <= Len(f2h')
           /\ \A m \in 1 .. Len(f2h) : f2h'[m] = f2h[m]
           /\ word[1] = Len(f2h') /\ word[1] >= 1 /\ word[2] \in 0 .. f2h'[Len(f2h')]
           /\ f2h'[Len(f2h')] \in F2HPayloads
<1> DEFINE last == f2hSent[Len(f2hSent)]
           n == Len(f2h)
           word == IF f2hSent = << >> THEN <<1, 0>>
                   ELSE IF last[2] < f2h[last[1]] THEN <<last[1], last[2] + 1>>
                   ELSE <<last[1] + 1, 0>>
<1>0. /\ f2h \in Seq(F2HPayloads) /\ F2HPayloads \subseteq Nat /\ n \in Nat /\ n <= MaxF2H
      /\ DOMAIN f2h = 1 .. n /\ MaxF2H \in Nat
  BY SizeConstants DEF EdgeInv, TypeInv, F2HTypes, FlowInv
<1>1. /\ f2hSent = << >> => n = 0
      /\ f2hSent # << >> => /\ last \in SentWords /\ last[1] = n
  <2>1. f2hSent \in Seq(SentWords) /\ (f2hSent = << >> => f2h = << >>)
        /\ (f2hSent # << >> => f2hSent[Len(f2hSent)][1] = Len(f2h))
    BY DEF EdgeInv, FlowInv
  <2> QED BY <2>1
<1>2. f2hSent # << >> => n \in 1 .. n /\ last[2] \in 0 .. f2h[n] /\ f2h[n] \in F2HPayloads
  BY <1>0, <1>1 DEF SentWords
<1>3. /\ writeDataQ' = Append(writeDataQ, word) /\ f2hSent' = Append(f2hSent, word)
      /\ \/ word[2] # 0 /\ f2h' = f2h
         \/ word[2] = 0 /\ word[1] <= MaxF2H /\ \E chunks \in F2HPayloads : f2h' = Append(f2h, chunks)
  BY DEF ClientWrite
<1>4. \/ f2hSent # << >> /\ last[2] < f2h[n] /\ word = <<n, last[2] + 1>>
      \/ word = <<n + 1, 0>>
  <2>1. CASE f2hSent = << >>
    BY <1>1, <2>1
  <2>2. CASE f2hSent # << >>
    BY <1>1, <2>2
  <2> QED BY <2>1, <2>2
<1> HIDE DEF word, last, n
<1>5. CASE f2hSent # << >> /\ last[2] < f2h[n] /\ word = <<n, last[2] + 1>>
  <2> DEFINE p == f2h[n]
             l == last[2]
  <2>4. p \in Nat /\ l \in 0 .. p /\ l < p /\ n \in Nat /\ n \in 1 .. n /\ p \in F2HPayloads
    BY <1>0, <1>2, <1>5
  <2> HIDE DEF p, l
  <2>5. l + 1 \in 0 .. p /\ l + 1 \in Nat /\ l + 1 # 0 /\ n >= 1
    BY <2>4
  <2>1. p \in Nat /\ last[2] + 1 \in 0 .. p /\ last[2] + 1 \in Nat /\ last[2] + 1 # 0 /\ n >= 1
    BY <2>4, <2>5 DEF l
  <2>2. f2h' = f2h
    BY <1>3, <1>5, <2>1
  <2>3. word \in Words /\ word[1] = n /\ word[2] = last[2] + 1
    BY <1>0, <1>5, <2>1 DEF Words
  <2>6. Len(f2h') = n /\ f2h'[Len(f2h')] = p
    BY <2>2 DEF n, p
  <2>7. word[1] = Len(f2h') /\ word[1] >= 1 /\ word[2] \in 0 .. f2h'[Len(f2h')]
        /\ f2h'[Len(f2h')] \in F2HPayloads /\ Len(f2h') <= MaxF2H /\ Len(f2h') \in Nat
    BY <1>0, <2>1, <2>3, <2>4, <2>6
  <2>8. f2h' \in Seq(F2HPayloads) /\ Len(f2h) \in Nat /\ Len(f2h) <= Len(f2h')
        /\ \A m \in 1 .. Len(f2h) : f2h'[m] = f2h[m]
    BY <1>0, <2>2 DEF n
  <2> QED BY <1>3, <2>3, <2>7, <2>8
<1>6. CASE word = <<n + 1, 0>>
  <2>1. n + 1 <= MaxF2H
    BY <1>3, <1>6
  <2>2. PICK chunks \in F2HPayloads : f2h' = Append(f2h, chunks)
    BY <1>3, <1>6
  <2>3. /\ f2h' \in Seq(F2HPayloads) /\ Len(f2h') = n + 1 /\ f2h'[n + 1] = chunks
        /\ \A m \in 1 .. n : f2h'[m] = f2h[m]
    BY <1>0, <2>2 DEF n
  <2>4. 0 \in 0 .. chunks /\ n + 1 \in Nat /\ n <= n + 1 /\ n + 1 >= 1
    BY <1>0
  <2>5. word \in Words /\ word[1] = n + 1 /\ word[2] = 0
    BY <1>0, <1>6 DEF Words
  <2> QED BY <1>0, <1>3, <2>1, <2>3, <2>4, <2>5 DEF n
<1> QED BY <1>4, <1>5, <1>6

(* The client writes a word. *)
LEMMA ClientWriteStep == ASSUME EdgeInv, ClientWrite PROVE EdgeInv'
<1>0. /\ HostTypes /\ LinkTypes /\ ReadTypes /\ ClientTypes /\ WriteTypes /\ F2HTypes
      /\ BufferInv /\ PhaseInv /\ PipeInv /\ RecoveryInv /\ ReplyInv /\ FlowInv
  BY DEF EdgeInv, TypeInv
<1>1. UNCHANGED <<hostVars, linkVars, marshVars, readVars, clientVars, writeVars>>
      /\ Len(writeDataQ) < 2
  BY DEF ClientWrite
<1>2. PICK word \in Words :
        /\ writeDataQ' = Append(writeDataQ, word) /\ f2hSent' = Append(f2hSent, word)
        /\ f2h' \in Seq(F2HPayloads) /\ Len(f2h') <= MaxF2H
        /\ Len(f2h') \in Nat /\ Len(f2h) \in Nat /\ Len(f2h) <= Len(f2h')
        /\ \A m \in 1 .. Len(f2h) : f2h'[m] = f2h[m]
        /\ word[1] = Len(f2h') /\ word[1] >= 1 /\ word[2] \in 0 .. f2h'[Len(f2h')]
        /\ f2h'[Len(f2h')] \in F2HPayloads
  BY NextWord
<1>3. F2HTypes'
  <2>1. writeDataQ \in Seq(Words) /\ f2hSent \in Seq(Words)
    BY <1>0 DEF F2HTypes
  <2>2. writeDataQ' \in Seq(Words) /\ Len(writeDataQ') <= 2 /\ f2hSent' \in Seq(Words)
    BY <1>1, <1>2, <2>1
  <2> QED BY <1>2, <2>2 DEF F2HTypes
<1>4. HostTypes' /\ LinkTypes' /\ ReadTypes' /\ ClientTypes' /\ WriteTypes'
  BY <1>0, <1>1, TypesStay
<1>5. /\ Replied' = Replied /\ Running' = Running /\ Before' = Before
      /\ f2hGot' = f2hGot
  BY <1>1 DEF Replied, Running, Before, hostVars, readVars, writeVars
<1>6. BufferInv' /\ RecoveryInv'
  BY <1>0, <1>1 DEF BufferInv, RecoveryInv, hostVars, readVars
<1>7. PhaseInv'
  BY <1>0, <1>1, <1>5 DEF PhaseInv, hostVars, readVars, writeVars
<1>8. PipeInv'
  BY <1>0, <1>1, <1>5 DEF PipeInv, Untaken, Left, hostVars, linkVars, marshVars, readVars
<1>9. ReplyInv'
  BY <1>0, <1>1, <1>5 DEF ReplyInv, hostVars, readVars, writeVars
<1>10. InReply' = InReply
  BY <1>1, <1>5 DEF InReply, UsefulWords, hostVars, writeVars
<1>11. FlowInv'
  <2> DEFINE T == SentWords'
             n == Len(f2h')
  <2>1. SentWords \subseteq T
    <3>1. ASSUME NEW w \in SentWords PROVE w \in T
      <4>1. w \in Words /\ w[1] \in 1 .. Len(f2h) /\ w[2] \in 0 .. f2h[w[1]]
        BY <1>0 DEF F2HTypes, SentWords
      <4>2. w[1] \in DOMAIN f2h' /\ f2h'[w[1]] = f2h[w[1]]
        BY <1>2, <4>1
      <4> QED BY <4>1, <4>2 DEF SentWords
    <3> QED BY <3>1
  <2>2. word \in T
    <3>1. n \in DOMAIN f2h' /\ word[1] = n /\ word[2] \in 0 .. f2h'[n]
      BY <1>2
    <3> HIDE DEF n
    <3> QED BY <3>1 DEF SentWords
  <2> HIDE DEF T
  <2>3. /\ writeDataQ \in Seq(SentWords) /\ f2hGot \in Seq(SentWords) /\ InReply \in Seq(SentWords)
        /\ f2hSent \in Seq(SentWords) /\ f2hSent = f2hGot \o InReply \o writeDataQ
    BY Waiting
  <2>4. /\ writeDataQ \in Seq(T) /\ f2hGot \in Seq(T) /\ InReply \in Seq(T) /\ f2hSent \in Seq(T)
    BY <2>1, <2>3
  <2>5. f2hSent' \in Seq(T) /\ f2hSent' # << >> /\ f2hSent'[Len(f2hSent')] = word
    <3> DEFINE s == f2hSent
    <3>1. s \in Seq(T) /\ f2hSent' = Append(s, word)
      BY <1>2, <2>4
    <3> HIDE DEF s
    <3>2. Append(s, word) \in Seq(T) /\ Len(Append(s, word)) = Len(s) + 1 /\ Len(s) \in Nat
          /\ Append(s, word)[Len(s) + 1] = word
      BY <2>2, <3>1
    <3> QED BY <3>1, <3>2
  <2>6. f2hSent' = f2hGot \o InReply \o writeDataQ'
    <3> DEFINE front == f2hGot \o InReply
               one == <<word>>
    <3>1. front \in Seq(T) /\ one \in Seq(T)
      BY <2>2, <2>4, ConcatProperties
    <3>2. f2hSent' = f2hSent \o one /\ writeDataQ' = writeDataQ \o one
      BY <1>2, <2>2, <2>4
    <3>3. f2hSent = front \o writeDataQ
      BY <2>3
    <3> HIDE DEF front, one
    <3>4. (front \o writeDataQ) \o one = front \o (writeDataQ \o one)
      BY <2>4, <3>1, ConcatAssociative
    <3>5. f2hSent' = front \o writeDataQ'
      BY <3>2, <3>3, <3>4
    <3> QED BY <3>5 DEF front
  <2> QED BY <1>2, <1>5, <1>10, <2>5, <2>6 DEF FlowInv, T
<1> QED BY <1>3, <1>4, <1>6, <1>7, <1>8, <1>9, <1>11 DEF EdgeInv, TypeInv

-----------------------------------------------------------------------------
(* Types, replies and the words of the FPGA's client. *)

(* Every step keeps the invariant. *)
LEMMA EdgeStep == EdgeInv /\ [Next]_vars => EdgeInv'
<1> SUFFICES ASSUME EdgeInv, [Next]_vars PROVE EdgeInv'
  OBVIOUS
<1>1. CASE HostWrite
  BY <1>1, HostWriteStep
<1>2. CASE Host
  BY <1>2, HostPrepareStep, HostReceiveStep DEF Host
<1>3. CASE LinkChunk \/ LinkError
  BY <1>3, LinkStep
<1>4. CASE Rules
  BY <1>4, MarshallDataStep, AcceptRequestStep, CompleteWriteStep DEF Rules
<1>5. CASE ReadSide
  BY <1>5, SkipStep, StartErrorStep, StartMessageStep, ContReadStep, ResumeStep DEF ReadSide
<1>6. CASE WriteSide
  BY <1>6, TryWriteStep, StartWriteStep, ContStartStep, FillStep DEF WriteSide
<1>7. CASE ClientRead
  BY <1>7, ClientReadStep
<1>8. CASE ClientWrite
  BY <1>8, ClientWriteStep
<1>9. CASE UNCHANGED vars
  BY <1>9, StutterStep
<1> QED BY <1>1, <1>2, <1>3, <1>4, <1>5, <1>6, <1>7, <1>8, <1>9 DEF Next

(* The inductive invariant holds in every state, for every size of the     *)
(* windows, every set of payloads and every number of errors.              *)
THEOREM EdgeInvariant == Spec => []EdgeInv
BY InitEdge, EdgeStep, PTL DEF Spec

(* The variables keep their types and the queues their capacities: the     *)
(* counters fit in their registers, and no queue holds more than its two   *)
(* words.                                                                  *)
THEOREM TypeCorrect == Spec => []TypeOK
<1>1. EdgeInv => TypeOK
  <2> SUFFICES ASSUME EdgeInv PROVE TypeOK
    OBVIOUS
  <2>1. HostTypes /\ LinkTypes /\ ReadTypes /\ ClientTypes /\ WriteTypes /\ F2HTypes
    BY DEF EdgeInv, TypeInv
  <2>2. h2f \in Seq(Nat) /\ f2h \in Seq(Nat)
    <3>1. h2f \in Seq(H2FPayloads) /\ H2FPayloads \subseteq Nat
          /\ f2h \in Seq(F2HPayloads) /\ F2HPayloads \subseteq Nat
      BY <2>1, SizeConstants DEF HostTypes, F2HTypes, Sizes
    <3>2. h2f \in Seq(Nat)
      BY <3>1, SeqMonotonic
    <3>3. f2h \in Seq(Nat)
      BY <3>1, SeqMonotonic
    <3> QED BY <3>2, <3>3
  <2>3. /\ acked \in 0 .. Len(h2f) /\ buf \in Seq(Nat \X Nat) /\ sums \in Seq(BOOLEAN)
        /\ cmd \in [h2f : 0 .. MaxMsgWords, f2h : 0 .. MaxMsgWords,
                    permitted : BOOLEAN, spin : Nat]
        /\ resend \in BOOLEAN /\ hpc \in {"prepare", "wait"} /\ f2hGot \in Seq(Nat \X Nat)
    BY <2>1 DEF HostTypes, Words, Sizes
  <2>4. /\ sentChunks \in Nat /\ errors \in Nat /\ corrupt \subseteq 2 .. MaxMsgWords
        /\ Len(inQ) <= 1 /\ idx \in 0 .. DataPerChunk - 1
        /\ outQ \in Seq(Nat \X Nat) /\ Len(outQ) <= 2 /\ error \in BOOLEAN
    BY <2>1 DEF LinkTypes, Words
  <2>5. /\ readState \in ReadStates /\ rawReadChunksRemaining \in 0 .. MaxMsgWords
        /\ readDataChunksRemaining \in 0 .. MaxMsgWords /\ noMoreReadData \in BOOLEAN
        /\ readBuffer \in Seq(Nat \X Nat) /\ Len(readBuffer) <= 2
    BY <2>1 DEF ReadTypes, Words, Sizes
  <2>6. h2fErrRecovery = NoRecovery \/ h2fErrRecovery.readState \in {"START", "CONT"}
    BY <2>1 DEF ReadTypes, RecoveryType
  <2>7. partial \in Seq(Nat \X Nat) /\ h2fGot \in Seq(Seq(Nat \X Nat))
    BY <2>1 DEF ClientTypes, Words
  <2>8. /\ writeState \in WriteStates /\ rawWriteChunksRemaining \in 0 .. MaxMsgWords
        /\ writeDataChunksRemaining \in Nat /\ numUsefulWriteChunks \in 0 .. MaxMsgWords
        /\ numWrittenChunks \in 0 .. MaxMsgWords /\ spinCycles \in Nat /\ reply \in Seq(Nat \X Nat)
    BY <2>1 DEF WriteTypes, Words, Sizes
  <2>9. writeDataQ \in Seq(Nat \X Nat) /\ Len(writeDataQ) <= 2 /\ f2hSent \in Seq(Nat \X Nat)
    BY <2>1 DEF F2HTypes, Words
  <2> QED BY <2>2, <2>3, <2>4, <2>5, <2>6, <2>7, <2>8, <2>9 DEF TypeOK
<1> QED BY <1>1, EdgeInvariant, PTL

(* A reply never outgrows what the host asked for.  When it is complete,   *)
(* its count is in it, ends at a word of a message with nothing but fill   *)
(* words behind, is 0 unless the host permitted messages, and a NACK       *)
(* leaves ClearSentWords inside the buffer.                                *)
THEOREM ReplyCorrect == Spec => []ReplyIsWellFormed
<1>1. EdgeInv => ReplyIsWellFormed
  <2> SUFFICES ASSUME EdgeInv PROVE ReplyIsWellFormed
    OBVIOUS
  <2>1. ASSUME hpc = "wait" PROVE Len(reply) <= cmd.f2h + 1
    <3> DEFINE n == Len(reply)
               f == cmd.f2h
               r == rawWriteChunksRemaining
    <3>1. n \in Nat /\ r \in Nat /\ f \in Nat
      BY <2>1, BufferFacts, ReplyTypes
    <3>2. Before \/ Running \/ Replied
      BY <2>1 DEF EdgeInv, PhaseInv
    <3>3. CASE Before
      <4>1. n = 0
        BY <3>3, ReplyTypes DEF Before
      <4> HIDE DEF n, f, r
      <4>2. n <= f + 1
        BY <3>1, <4>1
      <4> QED BY <4>2 DEF n, f
    <3>4. CASE Running
      <4>1. n + r = f
        BY <3>4 DEF EdgeInv, PhaseInv
      <4> HIDE DEF n, f, r
      <4>2. n <= f + 1
        BY <3>1, <4>1
      <4> QED BY <4>2 DEF n, f
    <3>5. CASE Replied
      BY <3>1, <3>5 DEF Replied
    <3> QED BY <3>2, <3>3, <3>4, <3>5
  <2>2. ASSUME Replied
        PROVE  /\ reply[Len(reply)][1] = numUsefulWriteChunks
               /\ reply[Len(reply)][2] < Len(buf)
               /\ numUsefulWriteChunks <= cmd.f2h
               /\ numUsefulWriteChunks > 0 => reply[numUsefulWriteChunks] # Zero
               /\ \A i \in numUsefulWriteChunks + 1 .. cmd.f2h : reply[i] = Zero
               /\ ~ cmd.permitted => numUsefulWriteChunks = 0
    <3>1. hpc = "wait"
      BY <2>2 DEF Replied
    <3>2. reply[Len(reply)] = <<numUsefulWriteChunks,
                                IF h2fErrRecovery = NoRecovery THEN 0
                                ELSE h2fErrRecovery.rawChunksRemaining>>
      BY <2>2 DEF EdgeInv, ReplyInv
    <3>3. h2fErrRecovery # NoRecovery => h2fErrRecovery.rawChunksRemaining < Len(buf)
      BY DEF EdgeInv, RecoveryInv
    <3>4. Len(buf) > 1 /\ Len(buf) \in Nat
      BY <3>1, BufferFacts
    <3>5. reply[Len(reply)][2] < Len(buf)
      BY <3>2, <3>3, <3>4
    <3>6. reply[Len(reply)][1] = numUsefulWriteChunks
      BY <3>2
    <3> QED BY <2>2, <3>5, <3>6 DEF EdgeInv, ReplyInv
  <2> QED BY <2>1, <2>2 DEF ReplyIsWellFormed
<1> QED BY <1>1, EdgeInvariant, PTL

(* Every step of the channel is a step of the stream, or none of it.       *)
LEMMA F2HStreamStep ==
  ASSUME EdgeInv, [Next]_vars
  PROVE  [F2HStream!Next]_(F2HStream!vars)
<1>1. CASE ClientWrite
  <2>1. PICK word \in Words :
          /\ writeDataQ' = Append(writeDataQ, word) /\ f2hSent' = Append(f2hSent, word)
          /\ f2h' \in Seq(F2HPayloads) /\ Len(f2h') <= MaxF2H
          /\ Len(f2h') \in Nat /\ Len(f2h) \in Nat /\ Len(f2h) <= Len(f2h')
          /\ \A m \in 1 .. Len(f2h) : f2h'[m] = f2h[m]
          /\ word[1] = Len(f2h') /\ word[1] >= 1 /\ word[2] \in 0 .. f2h'[Len(f2h')]
          /\ f2h'[Len(f2h')] \in F2HPayloads
    BY <1>1, NextWord
  <2>2. word = <<word[1], word[2]>> /\ word[1] \in 1 .. MaxF2H
    BY <2>1, SizeConstants DEF Words
  <2>3. word[2] \in UNION {0 .. c : c \in F2HPayloads}
    BY <2>1
  <2>4. word \in {<<m, k>> : m \in 1 .. MaxF2H, k \in UNION {0 .. c : c \in F2HPayloads}}
    BY <2>2, <2>3
  <2>5. f2hGot' = f2hGot
    BY <1>1 DEF ClientWrite, hostVars
  <2> QED BY <2>1, <2>4, <2>5 DEF F2HStream!Next, F2HStream!Send
<1>2. CASE HostReceive
  <2> DEFINE n == Len(f2hGot)
             k == Len(InReply)
             c == Len(writeDataQ)
  <2>1. Replied /\ f2hSent' = f2hSent
    BY <1>2 DEF HostReceive, f2hVars
  <2>2. /\ writeDataQ \in Seq(SentWords) /\ f2hGot \in Seq(SentWords) /\ InReply \in Seq(SentWords)
        /\ f2hSent \in Seq(SentWords) /\ f2hSent = f2hGot \o InReply \o writeDataQ
    BY Waiting
  <2>3. f2hGot' = f2hGot \o InReply
    <3>1. f2hGot' = IF cmd.permitted THEN f2hGot \o UsefulWords(reply, reply[Len(reply)][1])
                    ELSE f2hGot
      BY <1>2 DEF HostReceive
    <3>2. CASE cmd.permitted
      BY <2>1, <3>1, <3>2, HandOver
    <3>3. CASE ~ cmd.permitted
      <4>1. InReply = << >>
        BY <2>1, <3>3, HandOver
      <4> QED BY <2>2, <3>1, <3>3, <4>1
    <3> QED BY <3>2, <3>3
  <2>4. CASE k = 0
    <3>1. InReply = << >>
      BY <2>2, <2>4
    <3>2. f2hGot' = f2hGot
      BY <2>2, <2>3, <3>1
    <3> QED BY <2>1, <3>2 DEF F2HStream!vars
  <2>5. CASE k # 0
    <3> DEFINE got == f2hGot'
    <3>1. /\ n \in Nat /\ k \in Nat /\ c \in Nat /\ got \in Seq(SentWords) /\ Len(got) = n + k
          /\ f2hSent = got \o writeDataQ
      BY <2>2, <2>3, ConcatProperties
    <3> HIDE DEF n, k, c, got
    <3> DEFINE q == writeDataQ
    <3>8. q \in Seq(SentWords) /\ Len(q) = c /\ f2hSent = got \o q
      BY <2>2, <3>1 DEF c
    <3> HIDE DEF q
    <3>9. /\ Len(got \o q) = Len(got) + Len(q)
          /\ \A i \in 1 .. Len(got) + Len(q) :
               (got \o q)[i] = IF i <= Len(got) THEN got[i] ELSE q[i - Len(got)]
      BY ONLY <3>1, <3>8, ConcatProperties
    <3>2. /\ Len(f2hSent) = n + k + c
          /\ \A i \in 1 .. n + k + c : f2hSent[i] = IF i <= n + k THEN got[i] ELSE q[i - (n + k)]
      BY ONLY <3>1, <3>8, <3>9
    <3>3. \A i \in 1 .. n + k : f2hSent[i] = got[i]
      BY <3>1, <3>2
    <3>4. SubSeq(f2hSent, 1, n + k) = [i \in 1 .. n + k |-> f2hSent[i]]
      BY <2>2, <3>1, <3>2
    <3>5. got = [i \in 1 .. n + k |-> got[i]]
      BY <3>1
    <3>6. got = SubSeq(f2hSent, 1, n + k)
      BY <3>3, <3>4, <3>5
    <3>7. n + k \in n + 1 .. Len(f2hSent)
      BY <2>5, <3>1, <3>2
    <3> QED BY <2>1, <3>6, <3>7 DEF F2HStream!Next, F2HStream!Deliver, n, got
  <2> QED BY <2>4, <2>5
<1>3. CASE UNCHANGED <<f2hSent, f2hGot>>
  BY <1>3 DEF F2HStream!vars
<1>4. CASE UNCHANGED vars
  BY <1>3, <1>4 DEF vars, hostVars, f2hVars
<1>5. CASE HostWrite \/ HostPrepare
  BY <1>3, <1>5 DEF HostWrite, HostPrepare, f2hVars
<1>6. CASE LinkChunk \/ LinkError \/ MarshallData
  BY <1>3, <1>6 DEF LinkChunk, LinkError, MarshallData, hostVars, f2hVars
<1>7. CASE AcceptRequest \/ F2HCompleteWrite
  BY <1>3, <1>7 DEF AcceptRequest, F2HCompleteWrite, hostVars, f2hVars
<1>8. CASE ReadSide
  <2>1. ReadRule
    BY <1>8 DEF ReadSide, H2FStartLast, H2FStartIgnore, H2FStartError, H2FStartMessage,
       H2FContRead, ConsumeErrantReadData, RecoverSkip, RecoverResume
  <2> QED BY <1>3, <2>1 DEF ReadRule, hostVars, f2hVars
<1>9. CASE WriteSide
  <2>1. WriteRule
    BY <1>9 DEF WriteSide, F2HTryWrite, F2HStartWrite, F2HContStart, F2HContWrite, F2HContFill,
       H2FWriteDummy
  <2> QED BY <1>3, <2>1 DEF WriteRule, hostVars
<1>10. CASE ClientRead
  BY <1>3, <1>10 DEF ClientRead, hostVars, f2hVars
<1> QED BY <1>1, <1>2, <1>4, <1>5, <1>6, <1>7, <1>8, <1>9, <1>10 DEF Next, Host, Rules

(* The host gets the words the FPGA's client wrote, each once and in       *)
(* order: what is split between replies, stopped by a full reply or held   *)
(* back by one that was not permitted is neither lost nor repeated.        *)
THEOREM F2HInOrderCorrect == Spec => F2HInOrder
<1>1. Init => F2HStream!Init
  BY DEF Init, F2HStream!Init
<1>2. EdgeInv /\ [Next]_vars => [F2HStream!Next]_(F2HStream!vars)
  BY F2HStreamStep
<1> QED BY <1>1, <1>2, EdgeInvariant, PTL DEF Spec, F2HInOrder, F2HStream!Spec

-----------------------------------------------------------------------------
(* Concatenation of words. *)
LEMMA Concat3 ==
  ASSUME NEW a \in Seq(Words), NEW b \in Seq(Words), NEW c \in Seq(Words)
  PROVE  /\ (a \o b) \o c = a \o (b \o c)
         /\ a \o b \in Seq(Words) /\ b \o c \in Seq(Words) /\ a \o << >> = a /\ << >> \o a = a
         /\ Len(a \o b) = Len(a) + Len(b)
<1>1. (a \o b) \o c = a \o (b \o c)
  BY ConcatAssociative
<1> QED BY <1>1, ConcatProperties, ConcatEmptySeq

(* It is associative. *)
LEMMA ConcatRight ==
  ASSUME NEW a \in Seq(Words), NEW b \in Seq(Words), NEW c \in Seq(Words)
  PROVE  (a \o b) \o c = a \o (b \o c)
BY Concat3

(* The length adds up. *)
LEMMA ConcatLength ==
  ASSUME NEW a \in Seq(Words), NEW b \in Seq(Words)
  PROVE  a \o b \in Seq(Words) /\ Len(a \o b) = Len(a) + Len(b) /\ Len(a) \in Nat
BY ConcatProperties

(* What is appended is concatenated. *)
LEMMA AppendedWord ==
  ASSUME NEW a \in Seq(Words), NEW w \in Words
  PROVE  Append(a, w) = a \o <<w>>
OBVIOUS

(* Nothing lies behind the last message. *)
LEMMA BehindLast == ASSUME NEW h \in Seq(Nat) PROVE BehindOf(h, Len(h)) = << >>
<1>1. Len(h) \in 0 .. Len(h) /\ Len(h) - Len(h) = 0
  OBVIOUS
<1> QED BY <1>1, BehindExists

(* A message that is added comes last. *)
LEMMA BehindAppend ==
  ASSUME NEW h \in Seq(Nat), NEW n \in 0 .. Len(h), NEW c \in Nat
  PROVE  BehindOf(Append(h, c), n) = BehindOf(h, n) \o MessageWords(Len(h) + 1, c)
<1> DEFINE k == Len(h) - n
           b == Append(h, c)
<1>1. /\ k \in Nat /\ b \in Seq(Nat) /\ Len(b) - n = k + 1 /\ n \in 0 .. Len(b) /\ n \in Nat
      /\ n + (k + 1) = Len(h) + 1 /\ b[Len(h) + 1] = c
      /\ \A i \in 1 .. k : n + i \in 1 .. Len(h) /\ b[n + i] = h[n + i]
  OBVIOUS
<1> HIDE DEF b
<1>2. PICK f \in [0 .. k -> Seq(Words)] :
        /\ f[0] = << >> /\ f[k] = BehindOf(h, n)
        /\ \A i \in 1 .. k : f[i] = f[i - 1] \o MessageWords(n + i, h[n + i])
  BY BehindExists
<1>3. PICK g \in [0 .. k + 1 -> Seq(Words)] :
        /\ g[0] = << >> /\ g[k + 1] = BehindOf(b, n)
        /\ \A i \in 1 .. k + 1 : g[i] = g[i - 1] \o MessageWords(n + i, b[n + i])
  <2>1. \E g \in [0 .. Len(b) - n -> Seq(Words)] :
           /\ g[0] = << >> /\ g[Len(b) - n] = BehindOf(b, n)
           /\ \A i \in 1 .. Len(b) - n : g[i] = g[i - 1] \o MessageWords(n + i, b[n + i])
    BY <1>1, BehindExists
  <2> HIDE DEF k
  <2> QED BY <2>1, <1>1
<1> HIDE DEF k
<1> DEFINE I == {i \in Nat : i <= k => g[i] = f[i]}
<1>4. 0 \in I
  BY <1>2, <1>3
<1>5. ASSUME NEW i \in Nat, i \in I PROVE i + 1 \in I
  <2> DEFINE j == i + 1
  <2>1. SUFFICES ASSUME j <= k PROVE g[j] = f[j]
    OBVIOUS
  <2>2. j \in 1 .. k /\ j \in 1 .. k + 1 /\ j - 1 = i /\ g[i] = f[i]
    BY <2>1, <1>1, <1>5
  <2> HIDE DEF j
  <2>3. b[n + j] = h[n + j]
    BY <2>2, <1>1
  <2>4. g[j] = g[j - 1] \o MessageWords(n + j, b[n + j])
    BY <2>2, <1>3
  <2>5. f[j] = f[j - 1] \o MessageWords(n + j, h[n + j])
    BY <2>2, <1>2
  <2> QED BY <2>2, <2>3, <2>4, <2>5
<1>6. Nat \subseteq I
  <2> HIDE DEF I
  <2> QED BY <1>4, <1>5, SetInduction
<1>7. g[k] = f[k]
  BY <1>1, <1>6
<1> HIDE DEF I
<1> DEFINE j == k + 1
<1>8. j \in 1 .. j /\ j - 1 = k /\ n + j = Len(h) + 1
  BY <1>1
<1>9. g[j] = g[j - 1] \o MessageWords(n + j, b[n + j])
  BY <1>3, <1>8
<1> HIDE DEF j
<1>10. g[j] = f[k] \o MessageWords(Len(h) + 1, c)
  BY <1>1, <1>7, <1>8, <1>9
<1>11. BehindOf(b, n) = f[k] \o MessageWords(Len(h) + 1, c)
  BY <1>3, <1>10 DEF j
<1> QED BY <1>2, <1>11 DEF b

(* The next message comes first. *)
LEMMA BehindFirst ==
  ASSUME NEW h \in Seq(Nat), NEW n \in 0 .. Len(h) - 1
  PROVE  BehindOf(h, n) = MessageWords(n + 1, h[n + 1]) \o BehindOf(h, n + 1)
<1> DEFINE k == Len(h) - (n + 1)
           p == n + 1
           first == MessageWords(n + 1, h[n + 1])
<1>1. /\ k \in Nat /\ n \in Nat /\ n \in 0 .. Len(h) /\ p \in 0 .. Len(h) /\ p \in 1 .. Len(h)
      /\ Len(h) - n = k + 1 /\ Len(h) - p = k /\ p \in Nat /\ p = n + 1
      /\ \A i \in 1 .. k : p + i \in 1 .. Len(h)
  OBVIOUS
<1>2. PICK f \in [0 .. k -> Seq(Words)] :
        /\ f[0] = << >> /\ f[k] = BehindOf(h, p)
        /\ \A i \in 1 .. k : f[i] = f[i - 1] \o MessageWords(p + i, h[p + i])
  <2>1. \E g \in [0 .. Len(h) - p -> Seq(Words)] :
           /\ g[0] = << >> /\ g[Len(h) - p] = BehindOf(h, p)
           /\ \A i \in 1 .. Len(h) - p : g[i] = g[i - 1] \o MessageWords(p + i, h[p + i])
    BY <1>1, BehindExists
  <2> HIDE DEF k, p
  <2> QED BY <2>1, <1>1
<1>3. PICK g \in [0 .. k + 1 -> Seq(Words)] :
        /\ g[0] = << >> /\ g[k + 1] = BehindOf(h, n)
        /\ \A i \in 1 .. k + 1 : g[i] = g[i - 1] \o MessageWords(n + i, h[n + i])
  <2>1. \E g \in [0 .. Len(h) - n -> Seq(Words)] :
           /\ g[0] = << >> /\ g[Len(h) - n] = BehindOf(h, n)
           /\ \A i \in 1 .. Len(h) - n : g[i] = g[i - 1] \o MessageWords(n + i, h[n + i])
    BY <1>1, BehindExists
  <2> HIDE DEF k
  <2> QED BY <2>1, <1>1
<1>4. first \in Seq(Words)
  <2>1. n + 1 \in Nat /\ h[n + 1] \in Nat
    BY <1>1
  <2> QED BY <2>1, MessageType
<1> HIDE DEF k, p, first
<1> DEFINE I == {i \in Nat : i <= k => g[i + 1] = first \o f[i]}
<1>5. 0 \in I
  <2>1. 1 \in 1 .. k + 1 /\ 1 - 1 = 0 /\ 0 + 1 = 1
    BY <1>1
  <2>2. g[1] = g[1 - 1] \o MessageWords(n + 1, h[n + 1])
    BY <1>3, <2>1
  <2>3. g[1] = << >> \o first /\ first \o << >> = first /\ << >> \o first = first
    BY <1>3, <1>4, <2>1, <2>2, ConcatEmptySeq DEF first
  <2>4. g[0 + 1] = first \o f[0]
    BY <1>2, <2>1, <2>3
  <2> QED BY <2>4
<1>6. ASSUME NEW i \in Nat, i \in I PROVE i + 1 \in I
  <2> DEFINE j == i + 1
             q == i + 2
  <2>1. SUFFICES ASSUME j <= k PROVE g[q] = first \o f[j]
    OBVIOUS
  <2>2. /\ j \in 1 .. k /\ q \in 1 .. k + 1 /\ q - 1 = j /\ j - 1 = i /\ n + q = p + j
        /\ i \in 0 .. k /\ j \in 0 .. k
    BY <2>1, <1>1, <1>6
  <2>3. g[j] = first \o f[i]
    BY <2>2, <1>6
  <2> HIDE DEF j, q
  <2>4. g[q] = g[q - 1] \o MessageWords(n + q, h[n + q])
    BY <2>2, <1>3
  <2>5. f[j] = f[j - 1] \o MessageWords(p + j, h[p + j])
    BY <2>2, <1>2
  <2> DEFINE next == MessageWords(p + j, h[p + j])
             done == f[i]
  <2>6. next \in Seq(Words) /\ done \in Seq(Words)
    <3>1. p + j \in 1 .. Len(h) /\ p + j \in Nat
      BY <2>2, <1>1
    <3>2. h[p + j] \in Nat
      BY <3>1
    <3> QED BY <3>1, <3>2, <2>2, <1>2, MessageType
  <2>7. g[q] = (first \o done) \o next /\ f[j] = done \o next
    BY <2>2, <2>3, <2>4, <2>5
  <2> HIDE DEF next, done
  <2>8. (first \o done) \o next = first \o (done \o next)
    BY ONLY <2>6, <1>4, ConcatRight
  <2> QED BY <2>7, <2>8
<1>7. Nat \subseteq I
  <2> HIDE DEF I
  <2> QED BY <1>5, <1>6, SetInduction
<1>8. g[k + 1] = first \o f[k]
  <2>1. \A i \in I : i <= k => g[i + 1] = first \o f[i]
    OBVIOUS
  <2> HIDE DEF I
  <2>2. k \in I /\ k <= k
    BY <1>1, <1>7
  <2> QED BY <2>1, <2>2
<1> QED BY <1>1, <1>2, <1>3, <1>8 DEF first
-----------------------------------------------------------------------------
(***************************************************************************)
(* The inductive invariant of the other direction, on top of EdgeInv.      *)
(***************************************************************************)

(* The window has room for the command, the messages and the end mark. *)
WindowInv == Len(BehindOf(h2f, acked)) + 1 < MaxWriteWords

(* The words in the pipe are those of the buffer, unless an error says so. *)
Taken == Len(buf) - Untaken

PipeWords ==
  /\ hpc = "wait" /\ ~ error => \A j \in 1 .. Len(outQ) : outQ[j] = buf[Taken + j]
  /\ inQ # << >> /\ inQ[1].good =>
       \A i \in 1 .. DataPerChunk : inQ[1].words[i] = buf[DataPerChunk * (sentChunks - 1) + i]

ResumeInv ==
  /\ noMoreReadData => readState = "START"
  /\ hpc = "prepare" /\ resend => h2fErrRecovery # NoRecovery

(* What the client has are the first messages, and a part of the next.     *)
ClientInv ==
  /\ Len(h2fGot) <= Len(h2f)
  /\ \A k \in 1 .. Len(h2fGot) : h2fGot[k] = MessageWords(k, h2f[k])
  /\ partial # << >> => Len(h2fGot) < Len(h2f) /\ Len(partial) <= h2f[Len(h2fGot) + 1]

(* Words of the message that was begun and is not complete.                *)
Owed == IF readState = "CONT" THEN readDataChunksRemaining
        ELSE IF h2fErrRecovery # NoRecovery /\ h2fErrRecovery.readState = "CONT"
        THEN h2fErrRecovery.dataChunksRemaining ELSE 0

(* The last d words of message m, and all behind it.                       *)
LastWords(m, d) == [i \in 1 .. d |-> <<m, h2f[m] - d + i>>]

ToCome(m) == LastWords(m, Owed) \o BehindOf(h2f, m)

(* How many words of the buffer were taken or need not be.                 *)
Position == IF h2fErrRecovery # NoRecovery THEN Len(buf) - h2fErrRecovery.rawChunksRemaining
            ELSE IF Before THEN 1 ELSE Len(buf) - rawReadChunksRemaining

(* These words come next in the buffer, and then the end mark.             *)
Holds(words) ==
  /\ Position >= 1 /\ Position + Len(words) < Len(buf)
  /\ \A i \in 1 .. Len(words) : buf[Position + i] = words[i]
  /\ buf[Position + Len(words) + 1] = Zero

Fresh == hpc = "prepare" /\ ~ resend

Finished == h2fErrRecovery = NoRecovery /\ (noMoreReadData \/ readState = "DONE" \/ Replied)

Due(words) ==
  IF Fresh THEN words = BehindOf(h2f, acked)
  ELSE IF Finished THEN words = << >> ELSE Holds(words)

(* The first m messages were begun.  What the client has of them, what it  *)
(* can read and what is still to come are the messages of the host.        *)
Begun(m) ==
  /\ Owed > 0 => m > 0 /\ Owed <= h2f[m]
  /\ partial \o (readBuffer \o ToCome(m)) = BehindOf(h2f, Len(h2fGot))
  /\ Due(ToCome(m))

DueInv == \E m \in 0 .. Len(h2f) : Begun(m)

H2FInv == WindowInv /\ PipeWords /\ ResumeInv /\ ClientInv /\ DueInv

-----------------------------------------------------------------------------
(* What the invariant is about, and what leaves it alone. *)

(* The types of this direction. *)
LEMMA H2FTypes ==
  ASSUME EdgeInv
  PROVE  /\ h2f \in Seq(Nat) /\ Len(h2f) \in Nat /\ acked \in 0 .. Len(h2f)
         /\ partial \in Seq(Words) /\ readBuffer \in Seq(Words) /\ h2fGot \in Seq(Seq(Words))
         /\ Len(h2fGot) \in Nat
         /\ buf \in Seq(Words) /\ Len(buf) \in Nat /\ rawReadChunksRemaining \in Nat
         /\ readDataChunksRemaining \in Nat
         /\ Owed \in Nat /\ Position \in Int
         /\ \A n \in 0 .. Len(h2f) : BehindOf(h2f, n) \in Seq(Words)
<1>1. /\ h2f \in Seq(Nat) /\ acked \in 0 .. Len(h2f) /\ buf \in Seq(Words)
      /\ partial \in Seq(Words) /\ readBuffer \in Seq(Words) /\ h2fGot \in Seq(Seq(Words))
  BY HostMessages DEF EdgeInv, TypeInv, HostTypes, ReadTypes, ClientTypes
<1>2. rawReadChunksRemaining \in Nat /\ readDataChunksRemaining \in Nat
  BY SizeConstants DEF EdgeInv, TypeInv, ReadTypes, Sizes
<1>3. h2fErrRecovery # NoRecovery => /\ h2fErrRecovery.rawChunksRemaining \in Nat
                                     /\ h2fErrRecovery.dataChunksRemaining \in Nat
  BY RecoveryTypes, SizeConstants DEF Sizes
<1>4. Len(h2f) \in Nat /\ Len(h2fGot) \in Nat /\ Len(buf) \in Nat
  BY <1>1
<1>5. Owed \in Nat
  BY <1>2, <1>3 DEF Owed
<1>6. Position \in Int
  BY <1>2, <1>3, <1>4 DEF Position
<1>7. \A n \in 0 .. Len(h2f) : BehindOf(h2f, n) \in Seq(Words)
  BY <1>1, BehindType
<1> QED BY <1>1, <1>2, <1>4, <1>5, <1>6, <1>7

(* The words that come. *)
LEMMA ToComeType ==
  ASSUME EdgeInv, NEW m \in 0 .. Len(h2f), Owed > 0 => m > 0 /\ Owed <= h2f[m]
  PROVE  /\ LastWords(m, Owed) \in Seq(Words) /\ Len(LastWords(m, Owed)) = Owed
         /\ ToCome(m) \in Seq(Words) /\ BehindOf(h2f, m) \in Seq(Words)
         /\ Len(ToCome(m)) = Owed + Len(BehindOf(h2f, m))
         /\ Owed = 0 => ToCome(m) = BehindOf(h2f, m)
         /\ Owed > 0 => ToCome(m)[1] = <<m, h2f[m] - Owed + 1>> /\ h2f[m] \in Nat
<1> DEFINE d == Owed
           last == LastWords(m, Owed)
           behind == BehindOf(h2f, m)
<1>1. d \in Nat /\ behind \in Seq(Words) /\ h2f \in Seq(Nat) /\ m \in Nat
  BY H2FTypes
<1>2. d > 0 => h2f[m] \in Nat /\ d <= h2f[m]
  BY <1>1
<1>3. last \in Seq(Words) /\ Len(last) = d /\ \A i \in 1 .. d : last[i] = <<m, h2f[m] - d + i>>
  <2>1. last = [i \in 1 .. d |-> <<m, h2f[m] - d + i>>]
    BY DEF LastWords
  <2>2. \A i \in 1 .. d : <<m, h2f[m] - d + i>> \in Words
    <3>1. ASSUME NEW i \in 1 .. d PROVE <<m, h2f[m] - d + i>> \in Words
      <4> DEFINE c == h2f[m]
      <4>1. c \in Nat /\ d <= c
        BY <1>1, <1>2
      <4> HIDE DEF c, d
      <4>2. c - d + i \in Nat
        BY <4>1, <1>1
      <4> QED BY <4>2, <1>1 DEF Words, c
    <3> QED BY <3>1
  <2> HIDE DEF d, last
  <2> QED BY <1>1, <2>1, <2>2
<1> HIDE DEF d, last, behind
<1>4. /\ last \o behind \in Seq(Words) /\ Len(last \o behind) = d + Len(behind)
      /\ d > 0 => (last \o behind)[1] = last[1]
  <2>1. /\ last \o behind \in Seq(Words) /\ Len(last \o behind) = Len(last) + Len(behind)
        /\ \A i \in 1 .. Len(last) + Len(behind) :
             (last \o behind)[i] = IF i <= Len(last) THEN last[i] ELSE behind[i - Len(last)]
    BY <1>1, <1>3, ConcatProperties
  <2> QED BY <1>1, <1>3, <2>1
<1>5. d = 0 => last \o behind = behind
  <2>1. d = 0 => last = << >>
    BY <1>3
  <2> QED BY <2>1, <1>1, Concat3
<1>6. ToCome(m) = last \o behind
  BY DEF ToCome, last, behind
<1>7. d > 0 => last[1] = <<m, h2f[m] - d + 1>>
  BY <1>1, <1>3
<1> QED BY <1>1, <1>2, <1>3, <1>4, <1>5, <1>6, <1>7 DEF d, last, behind

(* The stream stays when nothing of it moves. *)
LEMMA DueStays ==
  ASSUME DueInv, UNCHANGED <<h2f, acked, buf, partial, h2fGot, readBuffer>>,
         Owed' = Owed, Fresh' = Fresh, Finished' = Finished,
         Fresh \/ Finished \/ Position' = Position
  PROVE  DueInv'
<1>1. PICK m \in 0 .. Len(h2f) : Begun(m)
  BY DEF DueInv
<1>2. ToCome(m)' = ToCome(m)
  BY DEF ToCome, LastWords, BehindOf, MessageWords
<1>3. \A n : BehindOf(h2f, n)' = BehindOf(h2f, n)
  BY DEF BehindOf, MessageWords
<1>4. Due(ToCome(m))'
  <2>1. Due(ToCome(m))
    BY <1>1 DEF Begun
  <2>2. CASE Fresh
    BY <2>1, <2>2, <1>2, <1>3 DEF Due
  <2>3. CASE ~ Fresh /\ Finished
    BY <2>1, <2>3, <1>2 DEF Due
  <2>4. CASE ~ Fresh /\ ~ Finished
    BY <2>1, <2>4, <1>2 DEF Due, Holds
  <2> QED BY <2>2, <2>3, <2>4
<1>5. Begun(m)'
  BY <1>1, <1>2, <1>3, <1>4 DEF Begun
<1> QED BY <1>1, <1>5 DEF DueInv

(* The parts of the invariant that only the host and the client disturb. *)
LEMMA ClientStays ==
  ASSUME H2FInv, UNCHANGED <<h2f, acked, partial, h2fGot>>
  PROVE  WindowInv' /\ ClientInv'
<1>1. WindowInv'
  <2>1. BehindOf(h2f, acked)' = BehindOf(h2f, acked)
    BY DEF BehindOf, MessageWords
  <2> QED BY <2>1 DEF H2FInv, WindowInv
<1>2. ClientInv'
  BY DEF H2FInv, ClientInv, MessageWords
<1> QED BY <1>1, <1>2

(* So do the words in the pipe, when the pipe does not move. *)
LEMMA PipeStays ==
  ASSUME H2FInv, UNCHANGED <<hpc, buf, sentChunks, marshVars>>, Untaken' = Untaken
  PROVE  PipeWords'
BY DEF H2FInv, PipeWords, Taken, marshVars

(* At the start there is nothing. *)
LEMMA InitH2F == Init => H2FInv
<1> SUFFICES ASSUME Init PROVE H2FInv
  OBVIOUS
<1>1. /\ h2f = << >> /\ acked = 0 /\ hpc = "prepare" /\ ~ resend /\ outQ = << >> /\ inQ = << >>
      /\ readState = "READY" /\ ~ noMoreReadData /\ h2fErrRecovery = NoRecovery
      /\ readBuffer = << >> /\ partial = << >> /\ h2fGot = << >>
  BY DEF Init
<1>2. EdgeInv /\ Len(h2f) = 0
  BY <1>1, InitEdge
<1>3. BehindOf(h2f, 0) = << >> /\ << >> \in Seq(Words)
  <2>1. << >> \in Seq(Nat) /\ Len(<< >>) = 0 /\ << >> \in Seq(Words)
    OBVIOUS
  <2> QED BY <1>1, <2>1, BehindLast
<1>4. WindowInv
  BY <1>1, <1>3, SizeConstants DEF WindowInv
<1>5. PipeWords /\ ResumeInv /\ ClientInv
  BY <1>1 DEF PipeWords, ResumeInv, ClientInv
<1>6. Owed = 0 /\ Fresh
  BY <1>1 DEF Owed, Fresh
<1>7. ToCome(0) = << >>
  <2>1. 0 \in 0 .. Len(h2f)
    BY <1>2
  <2> QED BY <1>2, <1>3, <1>6, <2>1, ToComeType
<1>8. Begun(0)
  <2>1. << >> \o (<< >> \o << >>) = << >>
    BY <1>3, Concat3
  <2> QED BY <1>1, <1>3, <1>6, <1>7, <2>1 DEF Begun, Due
<1>9. DueInv
  BY <1>2, <1>8 DEF DueInv
<1> QED BY <1>4, <1>5, <1>9 DEF H2FInv

-----------------------------------------------------------------------------
(* Steps of the host. *)

(* A host that writes messages owes none: the FPGA took all it sent. *)
LEMMA FreshFacts ==
  ASSUME EdgeInv, Fresh
  PROVE  h2fErrRecovery = NoRecovery /\ readState = "READY" /\ Owed = 0 /\ outQ = << >> /\ inQ = << >>
BY Phases DEF EdgeInv, RecoveryInv, PipeInv, Fresh, Owed

(* A message goes to the end of what is to come. *)
LEMMA HostWriteH2F == ASSUME EdgeInv, H2FInv, EdgeInv', HostWrite PROVE H2FInv'
<1>0. WindowInv /\ PipeWords /\ ResumeInv /\ ClientInv /\ DueInv
  BY DEF H2FInv
<1>1. PICK chunks \in H2FPayloads :
        NWords + chunks + 1 < MaxWriteWords /\ h2f' = Append(h2f, chunks)
  BY DEF HostWrite
<1>2. /\ hpc = "prepare" /\ ~ resend
      /\ UNCHANGED <<acked, buf, sums, cmd, resend, hpc, f2hGot, linkVars,
                     marshVars, readVars, clientVars, writeVars, f2hVars>>
  BY DEF HostWrite
<1>3. Fresh /\ Fresh'
  BY <1>2 DEF Fresh
<1>4. chunks \in Nat
  BY SizeConstants DEF Sizes
<1>5. /\ h2f \in Seq(Nat) /\ Len(h2f) \in Nat /\ acked \in 0 .. Len(h2f)
      /\ partial \in Seq(Words) /\ readBuffer \in Seq(Words) /\ Len(h2fGot) \in Nat
      /\ \A n \in 0 .. Len(h2f) : BehindOf(h2f, n) \in Seq(Words)
  BY H2FTypes
<1>6. Len(h2f') = Len(h2f) + 1 /\ \A i \in 1 .. Len(h2f) : h2f'[i] = h2f[i]
  BY <1>1, <1>4, <1>5
<1> DEFINE message == MessageWords(Len(h2f) + 1, chunks)
<1>7. message \in Seq(Words) /\ Len(message) = chunks + 1
  <2>1. Len(h2f) + 1 \in Nat
    BY <1>5
  <2> QED BY <1>4, <2>1, MessageType
<1> HIDE DEF message
<1>8. \A n \in 0 .. Len(h2f) : BehindOf(h2f, n)' = BehindOf(h2f', n)
  BY DEF BehindOf, MessageWords
<1>9. \A n \in 0 .. Len(h2f) : BehindOf(h2f', n) = BehindOf(h2f, n) \o message
  <2>1. ASSUME NEW n \in 0 .. Len(h2f) PROVE BehindOf(h2f', n) = BehindOf(h2f, n) \o message
    <3>1. BehindOf(Append(h2f, chunks), n) = BehindOf(h2f, n) \o MessageWords(Len(h2f) + 1, chunks)
      BY <1>4, <1>5, BehindAppend
    <3> QED BY <3>1, <1>1 DEF message
  <2> QED BY <2>1
<1>10. BehindOf(h2f, acked)' = BehindOf(h2f, acked) \o message
  <2>1. BehindOf(h2f, acked)' = BehindOf(h2f', acked)
    BY <1>2 DEF BehindOf, MessageWords
  <2> QED BY <1>5, <1>9, <2>1
<1>11. WindowInv'
  <2> DEFINE window == BehindOf(h2f, acked)
  <2>1. NWords = 1 + Len(window)
    BY HostMessages DEF EdgeInv, TypeInv, NWords
  <2>2. window \in Seq(Words)
    BY <1>5
  <2> HIDE DEF window
  <2>3. Len(window \o message) = Len(window) + Len(message) /\ Len(window) \in Nat
    BY ONLY <1>7, <2>2, ConcatLength
  <2>4. Len(window \o message) + 1 < MaxWriteWords
    BY <1>1, <1>4, <1>7, <2>1, <2>3, SizeConstants
  <2> QED BY <1>10, <2>4, SizeConstants DEF WindowInv, window
<1>12. PipeWords'
  BY <1>2, <1>3, FreshFacts DEF PipeWords, marshVars
<1>13. ResumeInv'
  BY <1>0, <1>2 DEF ResumeInv, readVars
<1>14. ClientInv'
  <2>1. h2fGot' = h2fGot /\ partial' = partial
    BY <1>2 DEF clientVars
  <2>2. Len(h2fGot) <= Len(h2f)
    BY <1>0 DEF ClientInv
  <2>3. ASSUME NEW k \in 1 .. Len(h2fGot) PROVE h2fGot[k] = MessageWords(k, h2f[k])'
    <3>1. k \in 1 .. Len(h2f)
      BY <1>5, <2>2
    <3>2. h2f'[k] = h2f[k] /\ h2fGot[k] = MessageWords(k, h2f[k])
      BY <1>0, <1>6, <3>1 DEF ClientInv
    <3> QED BY <3>2 DEF MessageWords
  <2>4. ASSUME partial # << >>
        PROVE  Len(h2fGot) < Len(h2f') /\ Len(partial) <= h2f'[Len(h2fGot) + 1]
    <3> DEFINE g == Len(h2fGot)
    <3>1. g < Len(h2f) /\ Len(partial) <= h2f[g + 1]
      BY <1>0, <2>4 DEF ClientInv
    <3>2. g + 1 \in 1 .. Len(h2f) /\ g < Len(h2f')
      BY <1>5, <1>6, <3>1
    <3>3. h2f'[g + 1] = h2f[g + 1]
      BY <1>6, <3>2
    <3> QED BY <3>1, <3>2, <3>3
  <2>5. Len(h2fGot) <= Len(h2f')
    BY <1>5, <1>6, <2>2
  <2> QED BY <2>1, <2>3, <2>4, <2>5 DEF ClientInv
<1>15. DueInv'
  <2>1. PICK m \in 0 .. Len(h2f) : Begun(m)
    BY <1>0 DEF DueInv
  <2>2. Owed = 0 /\ Owed' = 0
    <3>1. Owed' = Owed
      BY <1>2 DEF Owed, readVars
    <3> QED BY <1>3, <3>1, FreshFacts
  <2>3. m \in 0 .. Len(h2f')
    BY <1>5, <1>6
  <2> DEFINE come == BehindOf(h2f, m)
  <2>4. ToCome(m) = come /\ come \in Seq(Words)
    BY <2>2, ToComeType
  <2>5. ToCome(m)' = come \o message
    <3>1. BehindOf(h2f', m) = come \o message
      BY <1>9
    <3>2. come \o message \in Seq(Words)
      BY <2>4, <1>7, Concat3
    <3>3. ToCome(m)' = << >> \o BehindOf(h2f', m)
      <4>1. LastWords(m, Owed)' = << >>
        BY <2>2 DEF LastWords
      <4>2. BehindOf(h2f, m)' = BehindOf(h2f', m)
        BY <1>8
      <4> QED BY <4>1, <4>2 DEF ToCome
    <3> HIDE DEF come
    <3> QED BY <3>1, <3>2, <3>3, Concat3
  <2> HIDE DEF come
  <2>6. come = BehindOf(h2f, acked)
    BY <1>3, <2>1, <2>4 DEF Begun, Due
  <2>7. partial \o (readBuffer \o come) = BehindOf(h2f, Len(h2fGot))
    BY <2>1, <2>4 DEF Begun
  <2>8. partial \o (readBuffer \o (come \o message)) = BehindOf(h2f, Len(h2fGot)) \o message
    <3> DEFINE r == readBuffer
               p == partial
    <3>1. p \in Seq(Words) /\ r \in Seq(Words)
      BY <1>5
    <3> HIDE DEF r, p
    <3>2. r \o (come \o message) = (r \o come) \o message /\ r \o come \in Seq(Words)
      <4>1. r \in Seq(Words) /\ come \in Seq(Words) /\ message \in Seq(Words)
        BY <3>1, <2>4, <1>7
      <4>2. r \o (come \o message) = (r \o come) \o message
        BY ONLY <4>1, ConcatRight
      <4>3. r \o come \in Seq(Words)
        BY ONLY <4>1, ConcatLength
      <4> QED BY <4>2, <4>3
    <3> DEFINE s == r \o come
    <3>3. s \in Seq(Words) /\ r \o (come \o message) = s \o message
      BY <3>2
    <3> HIDE DEF s
    <3>4. p \o (s \o message) = (p \o s) \o message
      <4>1. p \in Seq(Words) /\ s \in Seq(Words) /\ message \in Seq(Words)
        BY <3>1, <3>3, <1>7
      <4> QED BY ONLY <4>1, Concat3
    <3> QED BY <3>3, <3>4, <2>7 DEF r, p, s
  <2>9. BehindOf(h2f, Len(h2fGot))' = BehindOf(h2f, Len(h2fGot)) \o message
    <3>1. Len(h2fGot) \in 0 .. Len(h2f)
      BY <1>0, <1>5 DEF ClientInv
    <3>2. BehindOf(h2f, Len(h2fGot))' = BehindOf(h2f', Len(h2fGot))
      BY <1>2 DEF BehindOf, MessageWords, clientVars
    <3> QED BY <1>9, <3>1, <3>2
  <2>10. Begun(m)'
    <3>1. partial' = partial /\ readBuffer' = readBuffer
      BY <1>2 DEF clientVars, readVars
    <3>2. Due(ToCome(m))'
      BY <1>3, <1>10, <2>5, <2>6 DEF Due
    <3>3. (partial \o (readBuffer \o ToCome(m)) = BehindOf(h2f, Len(h2fGot)))'
      BY <2>5, <2>8, <2>9, <3>1
    <3> QED BY <2>2, <3>2, <3>3 DEF Begun
  <2> QED BY <2>3, <2>10 DEF DueInv
<1> QED BY <1>11, <1>12, <1>13, <1>14, <1>15 DEF H2FInv

(* What is to come is the same when the buffer still holds it. *)
LEMMA DueMoves ==
  ASSUME EdgeInv, DueInv, UNCHANGED <<h2f, partial, h2fGot, readBuffer>>, Owed' = Owed,
         \A words \in Seq(Words) : Due(words) => Due(words)'
  PROVE  DueInv'
<1>1. PICK m \in 0 .. Len(h2f) : Begun(m)
  BY DEF DueInv
<1>2. PICK words : words = ToCome(m)
  OBVIOUS
<1>3. words \in Seq(Words) /\ ToCome(m)' = words
  <2>1. ToCome(m) \in Seq(Words)
    BY <1>1, ToComeType DEF Begun
  <2>2. ToCome(m)' = ToCome(m)
    BY DEF ToCome, LastWords, BehindOf, MessageWords
  <2> QED BY <1>2, <2>1, <2>2
<1>4. BehindOf(h2f, Len(h2fGot))' = BehindOf(h2f, Len(h2fGot))
  BY DEF BehindOf, MessageWords
<1>5. Due(words)'
  BY <1>1, <1>2, <1>3 DEF Begun
<1>6. Due(ToCome(m))'
  BY <1>3, <1>5 DEF Due, Holds
<1>7. Begun(m)'
  BY <1>1, <1>2, <1>3, <1>4, <1>6 DEF Begun
<1> QED BY <1>1, <1>7 DEF DueInv

(* A fresh buffer holds the window behind the command word. *)
LEMMA FilledHolds ==
  ASSUME EdgeInv, NEW raw, NEW k \in Nat, DataWords(raw) = k, NWords + 1 <= k
  PROVE  LET w == BehindOf(h2f, acked)
         IN  /\ \A i \in 1 .. Len(w) : Filled(raw)[1 + i] = w[i]
             /\ Filled(raw)[1 + Len(w) + 1] = Zero
             /\ 1 + Len(w) < k
<1> DEFINE used == DataWords(PreparedSize(NWords + 1))
           w == WindowWords
           n == Len(w)
           words == <<Command>> \o w \o <<Zero>>
<1>1. w = BehindOf(h2f, acked) /\ w \in Seq(Words)
  BY HostMessages DEF EdgeInv, TypeInv
<1>2. n \in Nat /\ n + 2 <= k
  <2>1. NWords = 1 + n /\ n \in Nat
    BY <1>1 DEF NWords
  <2> QED BY <2>1
<1>3. Command \in Words /\ Zero \in Words
  BY DEF Command, Zero, Words
<1> HIDE DEF used
<1>4. Filled(raw) = [i \in 1 .. k |->
                       IF i <= Len(words) THEN words[i] ELSE IF i <= used THEN Zero ELSE Stale]
  BY DEF Filled, used
<1> HIDE DEF w
<1>5. Len(words) = n + 2 /\ words[n + 2] = Zero /\ \A i \in 1 .. n : words[1 + i] = w[i]
  <2> DEFINE c == <<Command>> \o w
  <2>1. Len(c) = n + 1 /\ \A i \in 1 .. n : c[1 + i] = w[i]
    BY <1>1, <1>2, <1>3
  <2>2. c \in Seq(Words)
    BY <1>1, <1>3
  <2>3. words = c \o <<Zero>>
    OBVIOUS
  <2> HIDE DEF c, words, n
  <2>4. Len(words) = n + 2 /\ words[n + 2] = Zero /\ \A i \in 1 .. n + 1 : words[i] = c[i]
    BY <2>1, <2>2, <2>3, <1>2
  <2>5. \A i \in 1 .. n : 1 + i \in 1 .. n + 1
    BY <1>2
  <2> QED BY <2>1, <2>4, <2>5
<1> HIDE DEF words, n
<1>6. \A i \in 1 .. n : Filled(raw)[1 + i] = w[i]
  <2>1. \A i \in 1 .. n : 1 + i \in 1 .. k /\ 1 + i <= Len(words)
    BY <1>2, <1>5
  <2> QED BY <2>1, <1>4, <1>5
<1>7. Filled(raw)[1 + n + 1] = Zero
  <2>1. 1 + n + 1 = n + 2 /\ n + 2 \in 1 .. k /\ n + 2 <= Len(words)
    BY <1>2, <1>5
  <2> QED BY <2>1, <1>4, <1>5
<1>8. 1 + n < k
  BY <1>2
<1> QED BY <1>1, <1>6, <1>7, <1>8 DEF n

(* A transaction starts with a buffer that holds what is to come. *)
LEMMA HostPrepareH2F == ASSUME EdgeInv, H2FInv, EdgeInv', HostPrepare PROVE H2FInv'
<1>0. WindowInv /\ PipeWords /\ ResumeInv /\ ClientInv /\ DueInv
  BY DEF H2FInv
<1>1. /\ hpc = "prepare" /\ hpc' = "wait" /\ reply' = << >> /\ sentChunks' = 0
      /\ UNCHANGED <<h2f, acked, resend, f2hGot, errors, marshVars, readVars, clientVars>>
  BY DEF HostPrepare
<1>2. readState = "READY" /\ inQ = << >> /\ outQ = << >> /\ noMoreReadData = FALSE
  <2>1. readState = "READY" /\ inQ = << >> /\ outQ = << >> /\ noMoreReadData \in BOOLEAN
    BY <1>1, Phases DEF EdgeInv, TypeInv, ReadTypes, PipeInv
  <2> QED BY <1>0, <2>1 DEF ResumeInv
<1>3. Before' /\ ~ Replied' /\ ~ Fresh' /\ Owed' = Owed
  <2>1. Before' /\ ~ Fresh' /\ Owed' = Owed
    BY <1>1, <1>2 DEF Before, Fresh, Owed, readVars
  <2>2. Len(reply') = 0 /\ cmd'.f2h \in Nat
    BY <1>1, SizeConstants DEF EdgeInv, TypeInv, HostTypes, Sizes
  <2> QED BY <2>1, <2>2 DEF Replied
<1>4. WindowInv' /\ ClientInv'
  BY <1>1, ClientStays DEF clientVars
<1>5. PipeWords'
  BY <1>1, <1>2 DEF PipeWords, marshVars
<1>6. ResumeInv'
  BY <1>0, <1>1 DEF ResumeInv, readVars
<1>7. ASSUME NEW w \in Seq(Words), Due(w) PROVE Due(w)'
  <2>1. CASE resend
    <3>1. h2fErrRecovery # NoRecovery /\ h2fErrRecovery' = h2fErrRecovery
      BY <1>0, <1>1, <2>1 DEF ResumeInv, readVars
    <3>2. Holds(w) /\ ~ Finished'
      BY <1>7, <2>1, <3>1 DEF Due, Fresh, Finished
    <3>3. buf' = [buf EXCEPT ![1] = Command] /\ buf \in Seq(Words)
      BY <2>1, H2FTypes DEF HostPrepare
    <3>4. Len(buf') = Len(buf) /\ \A i \in 2 .. Len(buf) : buf'[i] = buf[i]
      BY <3>3
    <3>5. Position' = Position
      BY <3>1, <3>4 DEF Position
    <3>6. Holds(w)'
      <4> DEFINE p == Position
                 b == Len(buf)
                 n == Len(w)
      <4>1. p \in Int /\ b \in Nat /\ n \in Nat /\ p >= 1 /\ p + n < b
        BY <3>2, H2FTypes DEF Holds
      <4>2. p + n + 1 \in 2 .. b /\ \A i \in 1 .. n : p + i \in 2 .. b
        <5> HIDE DEF p, b, n
        <5> QED BY <4>1
      <4>3. buf'[p + n + 1] = Zero /\ \A i \in 1 .. n : buf'[p + i] = w[i]
        BY <3>2, <3>4, <4>2 DEF Holds
      <4> QED BY <3>4, <3>5, <4>1, <4>3 DEF Holds
    <3> QED BY <1>3, <3>2, <3>6 DEF Due
  <2>2. CASE ~ resend
    <3>1. w = BehindOf(h2f, acked) /\ h2fErrRecovery' = NoRecovery
      <4>1. Fresh
        BY <1>1, <2>2 DEF Fresh
      <4> QED BY <1>1, <1>7, <4>1, FreshFacts DEF Due, readVars
    <3> DEFINE raw == LegalBufSize(PreparedSize(NWords + 1))
    <3>2. buf' = Filled(raw)
      BY <2>2 DEF HostPrepare
    <3>3. PICK n : LegalChunks(n) /\ raw = RawChunkWords * n
      BY PreparedType, LegalSize
    <3> DEFINE k == DataPerChunk * n
    <3>4. DataWords(raw) = k /\ k \in Nat
      BY <3>3, LegalFacts
    <3>5. Len(buf') = k
      BY <3>2, <3>4, FilledType
    <3>6. NWords = 1 + Len(w) /\ Len(w) \in Nat
      BY <1>7, <3>1, HostMessages DEF NWords, EdgeInv, TypeInv
    <3>7. NWords + 1 <= k
      <4> DEFINE words == NWords + 1
      <4>1. words \in Nat /\ words <= MaxWriteWords
        BY <1>0, <3>1, <3>6, SizeConstants DEF WindowInv
      <4>2. LegalBufSize(PreparedSize(words)) = RawChunkWords * n
        BY <3>3
      <4> HIDE DEF words
      <4>3. words <= DataPerChunk * n \/ DataPerChunk * n = MaxWriteWords
        BY <3>3, <4>1, <4>2, PreparedFits
      <4> QED BY <4>1, <4>3 DEF words
    <3> HIDE DEF raw, k
    <3>8. /\ \A i \in 1 .. Len(w) : buf'[1 + i] = w[i]
          /\ buf'[1 + Len(w) + 1] = Zero /\ 1 + Len(w) < Len(buf')
      BY <3>1, <3>2, <3>4, <3>5, <3>7, FilledHolds
    <3>9. Position' = 1 /\ ~ Finished'
      BY <1>1, <1>2, <1>3, <3>1 DEF Position, Finished, readVars
    <3>10. Holds(w)'
      BY <3>8, <3>9 DEF Holds
    <3> QED BY <1>3, <3>9, <3>10 DEF Due
  <2> QED BY <2>1, <2>2
<1>8. DueInv'
  BY <1>0, <1>1, <1>3, <1>7, DueMoves DEF clientVars, readVars
<1> QED BY <1>4, <1>5, <1>6, <1>8 DEF H2FInv

(* An ACK empties the window, since nothing is to come; a NACK leaves what *)
(* is to come where it is.                                                 *)
LEMMA HostReceiveH2F == ASSUME EdgeInv, H2FInv, EdgeInv', HostReceive PROVE H2FInv'
<1>0. WindowInv /\ PipeWords /\ ResumeInv /\ ClientInv /\ DueInv
  BY DEF H2FInv
<1> DEFINE last == reply[Len(reply)]
<1>1. /\ Replied /\ hpc = "wait" /\ hpc' = "prepare" /\ readState = "READY"
      /\ UNCHANGED <<h2f, cmd, linkVars, marshVars, readVars, clientVars, writeVars, f2hVars>>
  BY Phases DEF HostReceive
<1>2. \/ acked' = Len(h2f) /\ buf' = << >> /\ sums' = << >> /\ resend' = FALSE /\ last[2] = 0
      \/ acked' = acked /\ ClearSentWords(last[2]) /\ resend' = TRUE /\ last[2] # 0
  BY DEF HostReceive
<1>3. last[2] = IF h2fErrRecovery = NoRecovery THEN 0 ELSE h2fErrRecovery.rawChunksRemaining
  BY <1>1 DEF EdgeInv, ReplyInv
<1> HIDE DEF last
<1>4. inQ = << >> /\ outQ = << >>
  <2>1. Untaken = 0
    BY <1>1 DEF Untaken
  <2> QED BY <1>1, <2>1, PipeFacts
<1>5. PipeWords'
  BY <1>1, <1>4 DEF PipeWords, marshVars
<1>6. ResumeInv'
  BY <1>0, <1>1, <1>2, <1>3 DEF ResumeInv, readVars
<1>7. ClientInv'
  BY <1>0, <1>1 DEF ClientInv, MessageWords, clientVars
<1>8. BehindOf(h2f, Len(h2f)) = << >>
  BY H2FTypes, BehindLast
<1>9. WindowInv'
  <2>1. CASE acked' = Len(h2f)
    <3>1. BehindOf(h2f, acked)' = << >>
      <4>1. BehindOf(h2f, acked)' = BehindOf(h2f, Len(h2f))
        BY <1>1, <2>1 DEF BehindOf, MessageWords
      <4> QED BY <1>8, <4>1
    <3> QED BY <3>1, SizeConstants DEF WindowInv
  <2>2. CASE acked' = acked
    <3>1. BehindOf(h2f, acked)' = BehindOf(h2f, acked)
      BY <1>1, <2>2 DEF BehindOf, MessageWords
    <3> QED BY <1>0, <3>1 DEF WindowInv
  <2> QED BY <1>2, <2>1, <2>2
<1>10. Owed' = Owed
  BY <1>1 DEF Owed, readVars
<1>11. ASSUME NEW w \in Seq(Words), Due(w) PROVE Due(w)'
  <2>1. CASE h2fErrRecovery = NoRecovery
    <3>1. w = << >>
      BY <1>1, <1>11, <2>1 DEF Due, Fresh, Finished
    <3>2. acked' = Len(h2f) /\ resend' = FALSE
      <4>1. last[2] = 0
        BY <1>3, <2>1
      <4> QED BY <1>2, <4>1
    <3>3. Fresh'
      BY <1>1, <3>2 DEF Fresh
    <3>4. BehindOf(h2f, acked)' = << >>
      <4>1. BehindOf(h2f, acked)' = BehindOf(h2f, Len(h2f))
        BY <1>1, <3>2 DEF BehindOf, MessageWords
      <4> QED BY <1>8, <4>1
    <3> QED BY <3>1, <3>3, <3>4 DEF Due
  <2>2. CASE h2fErrRecovery # NoRecovery
    <3>1. Holds(w)
      BY <1>1, <1>11, <2>2 DEF Due, Fresh, Finished
    <3>2. last[2] = h2fErrRecovery.rawChunksRemaining /\ last[2] # 0 /\ last[2] \in Nat
      BY <1>3, <2>2, RecoveryTypes
    <3>3. ClearSentWords(last[2]) /\ resend' = TRUE
      BY <1>2, <3>2
    <3> DEFINE p == Position
               b == Len(buf)
               n == Len(w)
    <3>4. p = b - last[2] /\ buf \in Seq(Words)
      BY <2>2, <3>2, H2FTypes DEF Position
    <3>5. buf' = [i \in DOMAIN buf |-> IF i <= p THEN Zero ELSE buf[i]]
      BY <3>3, <3>4 DEF ClearSentWords
    <3>6. Len(buf') = b /\ \A i \in 1 .. b : i > p => buf'[i] = buf[i]
      <4> HIDE DEF p
      <4> QED BY <3>4, <3>5
    <3>7. Position' = p /\ ~ Finished' /\ ~ Fresh'
      BY <1>1, <2>2, <3>3, <3>6 DEF Position, Finished, Fresh, readVars
    <3>8. p \in Int /\ b \in Nat /\ n \in Nat /\ p >= 1 /\ p + n < b
      BY <3>1, H2FTypes DEF Holds
    <3>9. /\ p + n + 1 \in 1 .. b /\ p + n + 1 > p
          /\ \A i \in 1 .. n : p + i \in 1 .. b /\ p + i > p
      <4> HIDE DEF p, b, n
      <4> QED BY <3>8
    <3>10. buf'[p + n + 1] = Zero /\ \A i \in 1 .. n : buf'[p + i] = w[i]
      BY <3>1, <3>6, <3>9 DEF Holds
    <3>11. Holds(w)'
      BY <3>6, <3>7, <3>8, <3>10 DEF Holds
    <3> QED BY <3>7, <3>11 DEF Due
  <2> QED BY <2>1, <2>2
<1>12. DueInv'
  BY <1>0, <1>1, <1>10, <1>11, DueMoves DEF clientVars, readVars
<1> QED BY <1>5, <1>6, <1>7, <1>9, <1>12 DEF H2FInv

-----------------------------------------------------------------------------
(* Steps of the link, the marshaller and the write side. *)

(* Steps that do not touch this direction. *)
LEMMA Elsewhere ==
  ASSUME EdgeInv, H2FInv, UNCHANGED <<h2f, acked, buf, resend, hpc, readVars, clientVars>>,
         Replied' = Replied, Before' = Before, PipeWords'
  PROVE  H2FInv'
<1>1. DueInv /\ ResumeInv
  BY DEF H2FInv
<1>2. WindowInv' /\ ClientInv'
  BY ClientStays DEF clientVars
<1>3. ResumeInv'
  BY <1>1 DEF ResumeInv, readVars
<1>4. Owed' = Owed /\ Fresh' = Fresh /\ Finished' = Finished /\ Position' = Position
  BY DEF Owed, Fresh, Finished, Position, readVars
<1>5. DueInv'
  BY <1>1, <1>4, DueStays DEF clientVars, readVars
<1> QED BY <1>2, <1>3, <1>5 DEF H2FInv

(* A chunk that is intact holds words of the buffer. *)
LEMMA LinkH2F == ASSUME EdgeInv, H2FInv, LinkChunk \/ LinkError PROVE H2FInv'
<1>1. /\ hpc = "wait" /\ sentChunks < Len(sums) /\ inQ = << >> /\ sentChunks' = sentChunks + 1
      /\ UNCHANGED <<idx, outQ, error>>
      /\ UNCHANGED <<hostVars, readVars, clientVars, writeVars, f2hVars>>
  BY DEF LinkChunk, LinkError
<1>2. Replied' = Replied /\ Before' = Before
  BY <1>1 DEF Replied, Before, hostVars, readVars, writeVars
<1>3. UNCHANGED <<h2f, acked, buf, resend, hpc>>
  BY <1>1 DEF hostVars
<1>4. PipeWords'
  <2>1. ASSUME ~ error
        PROVE  \A j \in 1 .. Len(outQ') : outQ'[j] = buf'[Taken' + j]
    <3>1. Taken' = Taken
      BY <1>1, <1>3, UntakenStays DEF Taken
    <3> QED BY <1>1, <1>3, <2>1, <3>1 DEF H2FInv, PipeWords
  <2>2. ASSUME inQ'[1].good, NEW i \in 1 .. DataPerChunk
        PROVE  inQ'[1].words[i] = buf[DataPerChunk * sentChunks + i]
    <3>1. CASE LinkError
      <4>1. inQ'[1].good = FALSE
        BY <3>1 DEF LinkError
      <4> QED BY <2>2, <4>1
    <3>2. CASE LinkChunk
      <4> DEFINE d == DataPerChunk
                 s == sentChunks
                 c == s + 1
                 first == (c - 1) * d + 1
                 last == c * d
      <4>1. inQ'[1].words = SubSeq(buf, first, last)
        BY <3>2 DEF LinkChunk, ChunkWords
      <4>2. s \in Nat /\ d \in Nat \ {0} /\ Len(sums) \in Nat /\ s < Len(sums)
            /\ Len(buf) = d * Len(sums) /\ buf \in Seq(Words)
        BY <1>1, SizeConstants, ReplyTypes, H2FTypes DEF EdgeInv, TypeInv, LinkTypes, BufferInv
      <4>3. first = d * s + 1 /\ last = d * s + d /\ d * s \in Nat
        BY <4>2
      <4>4. last <= Len(buf)
        <5>1. d * (s + 1) <= d * Len(sums)
          BY <4>2
        <5> QED BY <4>2, <4>3, <5>1
      <4> DEFINE q == d * s
      <4> HIDE DEF q, first, last, d
      <4>5. first \in Nat /\ last \in Nat /\ i \in 1 .. last - first + 1 /\ first + i - 1 = q + i
            /\ first <= last /\ first >= 1
        BY <4>2, <4>3 DEF q, d
      <4>6. \A j \in first .. last : buf[j] \in Words
        BY <4>2, <4>4, <4>5
      <4>7. SubSeq(buf, first, last)[i] = buf[first + i - 1]
        BY <4>5, <4>6, SubSeqProperties
      <4> QED BY <4>1, <4>5, <4>7 DEF q, d
    <3> QED BY <3>1, <3>2
  <2>3. sentChunks' - 1 = sentChunks
    BY <1>1 DEF EdgeInv, TypeInv, LinkTypes
  <2> QED BY <1>1, <1>3, <2>1, <2>2, <2>3 DEF PipeWords
<1> QED BY <1>1, <1>2, <1>3, <1>4, Elsewhere

(* The marshaller's word is that of the buffer, unless its error register  *)
(* is set.                                                                 *)
LEMMA MarshallH2F == ASSUME EdgeInv, H2FInv, MarshallData PROVE H2FInv'
<1>0. LinkTypes /\ PipeInv /\ HostTypes /\ PipeWords
  BY DEF EdgeInv, TypeInv, H2FInv
<1>1. /\ inQ # << >> /\ inQ \in Seq(ChunkType) /\ outQ \in Seq(Words)
      /\ Len(inQ) <= 1 /\ idx \in 0 .. DataPerChunk - 1
      /\ UNCHANGED <<hostVars, linkVars, readVars, clientVars, writeVars, f2hVars>>
  BY <1>0 DEF MarshallData, LinkTypes
<1>2. /\ error' = (error \/ ~ inQ[1].good) /\ outQ' = Append(outQ, inQ[1].words[idx + 1])
      /\ inQ' \in {inQ, << >>}
  BY DEF MarshallData
<1>3. hpc = "wait" /\ hpc' = hpc /\ buf' = buf /\ sentChunks' = sentChunks
  BY <1>0, <1>1 DEF PipeInv, HostTypes, hostVars, linkVars
<1>4. Replied' = Replied /\ Before' = Before /\ Untaken' = Untaken
  BY <1>1, UntakenStays DEF Replied, Before, hostVars, readVars, writeVars
<1>5. Taken' = Taken
  BY <1>3, <1>4 DEF Taken
<1>6. ASSUME ~ error', NEW j \in 1 .. Len(outQ') PROVE outQ'[j] = buf[Taken + j]
  <2>1. ~ error /\ inQ[1].good
    BY <1>2, <1>6
  <2> DEFINE n == Len(outQ)
             d == DataPerChunk
             s == sentChunks
             w == inQ[1].words[idx + 1]
  <2>2. n \in Nat /\ j \in 1 .. n + 1 /\ outQ' = Append(outQ, w)
    BY <1>1, <1>2
  <2>3. CASE j <= n
    <3>1. outQ'[j] = outQ[j] /\ j \in 1 .. n
      BY <1>1, <2>2, <2>3
    <3> QED BY <1>0, <1>3, <2>1, <3>1 DEF PipeWords
  <2>4. CASE j = n + 1
    <3>1. outQ'[j] = w
      BY <1>1, <2>2, <2>4
    <3>2. idx + 1 \in 1 .. d /\ d \in Nat /\ idx \in Nat
      BY <1>1, SizeConstants
    <3>3. w = buf[d * (s - 1) + (idx + 1)]
      BY <1>0, <1>1, <2>1, <3>2 DEF PipeWords
    <3>4. Taken + j = d * (s - 1) + (idx + 1)
      <4> DEFINE l == Len(sums)
                 a == l - s
                 u == Untaken
      <4>1. l \in Nat /\ s \in Nat /\ s <= l /\ n + Left + d * a = u /\ Len(buf) = d * l
        BY <1>3, PipeFacts, BufferFacts
      <4>2. Left = d - idx
        BY <1>1 DEF Left
      <4>3. d * l = d * a + d * s /\ d * (s - 1) = d * s - d /\ d * a \in Nat /\ d * s \in Nat
        BY <3>2, <4>1
      <4>4. Taken = d * l - u
        BY <4>1 DEF Taken
      <4> DEFINE x == d * a
                 y == d * s
                 z == d * l
                 v == d * (s - 1)
      <4>5. /\ n + (d - idx) + x = u /\ z = x + y /\ v = y - d /\ Taken = z - u /\ j = n + 1
            /\ x \in Nat /\ y \in Nat
        BY <4>1, <4>2, <4>3, <4>4, <2>4
      <4> HIDE DEF x, y, z, v, n, d, u
      <4>6. Taken + j = v + (idx + 1)
        BY <4>5, <3>2, <2>2
      <4> QED BY <4>6 DEF v
    <3> QED BY <3>1, <3>3, <3>4
  <2> QED BY <2>2, <2>3, <2>4
<1>7. PipeWords'
  BY <1>0, <1>2, <1>3, <1>5, <1>6 DEF PipeWords
<1>8. UNCHANGED <<h2f, acked, buf, resend, hpc>>
  BY <1>1 DEF hostVars
<1> QED BY <1>1, <1>4, <1>7, <1>8, Elsewhere

(* The write side and the client's method write. *)
LEMMA WriteSideH2F ==
  ASSUME EdgeInv, H2FInv, EdgeInv', WriteSide \/ ClientWrite
  PROVE  H2FInv'
<1>1. UNCHANGED <<hostVars, linkVars, marshVars, readVars, clientVars>>
  BY DEF WriteSide, ClientWrite, F2HTryWrite, F2HStartWrite, F2HContStart, F2HContWrite,
     F2HContFill, H2FWriteDummy, WriteRule
<1>2. Replied' = Replied /\ Before' = Before
  <2>1. CASE ClientWrite
    BY <2>1 DEF ClientWrite, Replied, Before, hostVars, readVars, writeVars
  <2>2. CASE WriteSide
    <3>1. writeState # "READY"
      BY <2>2 DEF WriteSide, F2HTryWrite, F2HStartWrite, F2HContStart, F2HContWrite,
         F2HContFill, H2FWriteDummy
    <3>2. readState # "READY" /\ Running
      BY <3>1, WriteFacts
    <3>3. ~ Replied /\ ~ Before
      BY <3>2, Phases
    <3>4. ~ Before'
      BY <1>1, <3>2 DEF Before, readVars
    <3>5. ~ Replied'
      <4> DEFINE n == Len(reply')
                 r == rawWriteChunksRemaining'
                 f == cmd'.f2h
      <4>1. Running'
        BY <1>1, <3>2 DEF Running, hostVars, readVars
      <4>2. n + r = f /\ n \in Nat /\ r \in Nat /\ f \in Nat
        BY <4>1, SizeConstants DEF EdgeInv, TypeInv, HostTypes, WriteTypes, PhaseInv, Sizes
      <4> HIDE DEF n, r, f
      <4>3. n # f + 1
        BY <4>2
      <4> QED BY <4>3 DEF Replied, n, f
    <3> QED BY <3>3, <3>4, <3>5 DEF Replied, Before
  <2> QED BY <2>1, <2>2
<1>3. UNCHANGED <<h2f, acked, buf, resend, hpc, sentChunks>> /\ Untaken' = Untaken
  BY <1>1, <1>2 DEF Untaken, hostVars, linkVars, readVars
<1>4. PipeWords'
  BY <1>1, <1>3, PipeStays
<1> QED BY <1>1, <1>2, <1>3, <1>4, Elsewhere
-----------------------------------------------------------------------------
(* Words that are taken from the pipe. *)

(* The words behind the first come one place nearer.                       *)
LEMMA DeqWords ==
  ASSUME EdgeInv, H2FInv, Deq, UNCHANGED hostVars, UNCHANGED linkVars, Untaken' = Untaken - 1
  PROVE  PipeWords' /\ (~ error => Word = buf[Taken + 1])
<1>0. PipeWords /\ LinkTypes
  BY DEF H2FInv, EdgeInv, TypeInv
<1>1. outQ \in Seq(Words) /\ outQ # << >> /\ outQ' = Tail(outQ) /\ UNCHANGED <<inQ, idx, error>>
  BY <1>0 DEF LinkTypes, Deq
<1>2. hpc = "wait" /\ Untaken \in Nat
  BY Dequeued
<1>3. hpc' = hpc /\ buf' = buf /\ sentChunks' = sentChunks
  BY DEF hostVars, linkVars
<1>4. Taken' = Taken + 1 /\ Taken \in Int
  <2>1. Len(buf) \in Nat
    BY H2FTypes
  <2> QED BY <1>2, <1>3, <2>1 DEF Taken
<1>5. Len(outQ) \in Nat /\ Len(outQ) >= 1 /\ Len(outQ') = Len(outQ) - 1
      /\ \A j \in 1 .. Len(outQ) - 1 : outQ'[j] = outQ[j + 1]
  BY <1>1
<1>6. ASSUME ~ error, NEW j \in 1 .. Len(outQ') PROVE outQ'[j] = buf[Taken' + j]
  <2> DEFINE q == j + 1
  <2>1. q \in 1 .. Len(outQ) /\ outQ'[j] = outQ[q] /\ Taken' + j = Taken + q
    BY <1>4, <1>5
  <2> HIDE DEF q
  <2>2. outQ[q] = buf[Taken + q]
    BY <1>0, <1>2, <1>6, <2>1 DEF PipeWords
  <2> QED BY <2>1, <2>2
<1>7. PipeWords'
  BY <1>0, <1>1, <1>3, <1>6 DEF PipeWords
<1>8. ~ error => Word = buf[Taken + 1]
  <2>1. 1 \in 1 .. Len(outQ) /\ Word = outQ[1]
    BY <1>1, <1>5 DEF Word
  <2> QED BY <1>0, <1>2, <2>1 DEF PipeWords
<1> QED BY <1>7, <1>8

(* The request's word. *)
LEMMA AcceptRequestH2F == ASSUME EdgeInv, H2FInv, EdgeInv', AcceptRequest PROVE H2FInv'
<1>0. DueInv /\ ResumeInv
  BY DEF H2FInv
<1>1. /\ readState = "READY" /\ writeState = "READY" /\ Deq
      /\ rawReadChunksRemaining' = cmd.h2f
      /\ readState' = IF h2fErrRecovery = NoRecovery THEN "START" ELSE "RECOVER"
      /\ UNCHANGED <<readDataChunksRemaining, noMoreReadData, h2fErrRecovery, readBuffer,
                     reply, hostVars, linkVars, clientVars, f2hVars>>
  BY DEF AcceptRequest
<1>2. hpc = "wait" /\ Untaken \in Nat /\ Untaken > 0
  BY <1>1, Dequeued
<1>3. Before /\ ~ Running /\ ~ Replied
  <2>1. ~ Replied
    BY <1>2 DEF Untaken
  <2>2. Before
    BY <1>1, <1>2, <2>1 DEF EdgeInv, PhaseInv, Running
  <2> QED BY <2>1, <2>2, Phases
<1>4. UNCHANGED <<h2f, acked, buf, cmd, resend, hpc>>
  BY <1>1 DEF hostVars
<1>5. ~ Before' /\ ~ Replied'
  BY <1>1, <1>3, <1>4 DEF Before, Replied
<1>6. cmd.h2f = Len(buf) - 1 /\ Len(buf) \in Nat
  BY <1>2, BufferFacts
<1>7. Untaken' = Untaken - 1
  BY <1>1, <1>3, <1>5, <1>6 DEF Untaken
<1>8. PipeWords'
  BY <1>1, <1>7, DeqWords
<1>9. noMoreReadData = FALSE
  BY <1>0, <1>1 DEF ResumeInv, EdgeInv, TypeInv, ReadTypes
<1>10. ResumeInv'
  BY <1>1, <1>2, <1>4, <1>9 DEF ResumeInv
<1>11. WindowInv' /\ ClientInv'
  BY <1>1, <1>4, ClientStays DEF clientVars
<1>12. /\ Owed' = Owed /\ Fresh' = Fresh /\ Finished' = Finished /\ Position' = Position
  <2>1. Owed' = Owed /\ Fresh' = Fresh
    BY <1>1, <1>4 DEF Owed, Fresh
  <2>2. Finished' = Finished
    BY <1>1, <1>3, <1>5, <1>9 DEF Finished
  <2>3. Position' = Position
    <3>1. h2fErrRecovery = NoRecovery => Position = 1 /\ Position' = Len(buf) - cmd.h2f
      BY <1>1, <1>3, <1>4, <1>5 DEF Position
    <3>2. h2fErrRecovery # NoRecovery => Position' = Position
      BY <1>1, <1>4 DEF Position
    <3> QED BY <1>6, <3>1, <3>2
  <2> QED BY <2>1, <2>2, <2>3
<1>13. DueInv'
  BY <1>0, <1>1, <1>4, <1>12, DueStays DEF clientVars
<1> QED BY <1>8, <1>10, <1>11, <1>13 DEF H2FInv

(* Where a rule of the read side is in the buffer. *)
LEMMA Reading ==
  ASSUME EdgeInv, ReadRule, readState \notin {"READY", "DONE"}, readState' # "READY"
  PROVE  /\ ~ Before /\ ~ Replied /\ ~ Fresh /\ ~ Before' /\ ~ Replied' /\ ~ Fresh'
         /\ UNCHANGED <<h2f, acked, buf, hpc, resend, partial, h2fGot, sentChunks>>
         /\ Untaken = rawReadChunksRemaining /\ Untaken' = rawReadChunksRemaining'
         /\ rawReadChunksRemaining \in Nat \ {0} /\ rawReadChunksRemaining < Len(buf)
         /\ h2fErrRecovery = NoRecovery =>
              Position = Len(buf) - rawReadChunksRemaining /\ Position = Taken
         /\ h2fErrRecovery' = NoRecovery => Position' = Len(buf) - rawReadChunksRemaining'
<1>1. UNCHANGED <<hostVars, linkVars, clientVars, writeVars>>
  BY DEF ReadRule
<1>2. Running /\ ~ Before /\ ~ Replied /\ hpc = "wait"
  BY Phases
<1>3. UNCHANGED <<h2f, acked, buf, cmd, hpc, resend, partial, h2fGot, sentChunks, reply>>
  BY <1>1 DEF hostVars, linkVars, clientVars, writeVars
<1>4. ~ Before' /\ ~ Replied' /\ ~ Fresh /\ ~ Fresh'
  BY <1>2, <1>3 DEF Before, Replied, Fresh
<1>5. Untaken = rawReadChunksRemaining /\ Untaken' = rawReadChunksRemaining'
  BY <1>2, <1>4 DEF Untaken
<1>6. rawReadChunksRemaining \in Nat \ {0} /\ rawReadChunksRemaining < Len(buf)
  BY Taking
<1>7. h2fErrRecovery = NoRecovery =>
        Position = Len(buf) - rawReadChunksRemaining /\ Position = Taken
  BY <1>2, <1>5 DEF Position, Taken
<1>8. h2fErrRecovery' = NoRecovery => Position' = Len(buf) - rawReadChunksRemaining'
  BY <1>3, <1>4 DEF Position
<1> QED BY <1>2, <1>3, <1>4, <1>5, <1>6, <1>7, <1>8

(* What a rule of the read side has to show. *)
LEMMA ReadH2F ==
  ASSUME EdgeInv, H2FInv, ReadRule, readState \notin {"READY", "DONE"}, readState' # "READY",
         TakeWord \/ UNCHANGED <<rawReadChunksRemaining, marshVars>>,
         noMoreReadData' => readState' = "START", DueInv'
  PROVE  H2FInv'
<1>1. UNCHANGED <<hostVars, linkVars, clientVars>>
  BY DEF ReadRule
<1>2. /\ UNCHANGED <<h2f, acked, buf, hpc, resend, partial, h2fGot, sentChunks>>
      /\ Untaken = rawReadChunksRemaining /\ Untaken' = rawReadChunksRemaining'
      /\ ~ Fresh /\ hpc = "wait"
  BY Reading, Phases
<1>3. WindowInv' /\ ClientInv'
  BY <1>2, ClientStays
<1>4. ResumeInv'
  BY <1>2 DEF ResumeInv
<1>5. PipeWords'
  <2>1. CASE TakeWord
    <3>1. Deq /\ Untaken' = Untaken - 1
      BY <1>2, <2>1 DEF TakeWord
    <3> QED BY <1>1, <3>1, DeqWords
  <2>2. CASE UNCHANGED <<rawReadChunksRemaining, marshVars>>
    BY <1>2, <2>2, PipeStays
  <2> QED BY <2>1, <2>2
<1> QED BY <1>3, <1>4, <1>5 DEF H2FInv

-----------------------------------------------------------------------------
(* Steps of the read side. *)

(* Words behind the end mark, after an error and before the errant one are *)
(* none of what is to come; neither is the last word.                      *)
LEMMA SkipH2F ==
  ASSUME EdgeInv, H2FInv, H2FStartLast \/ H2FStartIgnore \/ ConsumeErrantReadData \/ RecoverSkip
  PROVE  H2FInv'
<1>0. DueInv /\ ResumeInv /\ RecoveryInv
  BY DEF H2FInv, EdgeInv
<1>1. /\ ReadRule /\ TakeWord /\ readState \notin {"READY", "DONE"} /\ readState' # "READY"
      /\ UNCHANGED <<readDataChunksRemaining, h2fErrRecovery, readBuffer>>
      /\ noMoreReadData' => readState' = "START"
  BY <1>0 DEF H2FStartLast, H2FStartIgnore, ConsumeErrantReadData, RecoverSkip, ResumeInv
<1>2. /\ ~ Replied /\ ~ Fresh /\ ~ Replied' /\ ~ Fresh'
      /\ UNCHANGED <<h2f, acked, buf, partial, h2fGot>>
      /\ h2fErrRecovery = NoRecovery => Position = Len(buf) - rawReadChunksRemaining
      /\ rawReadChunksRemaining \in Nat
  BY <1>1, Reading
<1>3. CASE H2FStartIgnore
  <2>1. /\ readState = "START" /\ readState' = "START" /\ noMoreReadData /\ noMoreReadData'
        /\ h2fErrRecovery = NoRecovery
    BY <1>0, <1>3 DEF H2FStartIgnore, RecoveryInv
  <2>2. Finished /\ Finished' /\ Finished' = Finished /\ Owed' = Owed /\ Fresh' = Fresh
    BY <1>1, <1>2, <2>1 DEF Finished, Owed, Fresh
  <2>3. DueInv'
    BY <1>0, <1>1, <1>2, <2>2, DueStays
  <2> QED BY <1>1, <2>3, ReadH2F
<1>4. CASE H2FStartLast
  <2>1. /\ readState = "START" /\ readState' = "DONE" /\ rawReadChunksRemaining = 1
        /\ h2fErrRecovery = NoRecovery
    BY <1>0, <1>4 DEF H2FStartLast, RecoveryInv
  <2>2. Finished' /\ Owed' = Owed
    BY <1>1, <2>1 DEF Finished, Owed
  <2>3. ASSUME NEW w \in Seq(Words), Due(w) PROVE Due(w)'
    <3>1. w = << >>
      <4>1. CASE Finished
        BY <1>2, <2>3, <4>1 DEF Due
      <4>2. CASE ~ Finished
        <5> DEFINE b == Len(buf)
                   n == Len(w)
        <5>1. Position + n < b /\ Position = b - 1 /\ b \in Nat /\ n \in Nat
          BY <1>2, <2>1, <2>3, <4>2, H2FTypes DEF Due, Holds
        <5> HIDE DEF b, n
        <5>2. n = 0
          BY <5>1
        <5> QED BY <5>2 DEF n
      <4> QED BY <4>1, <4>2
    <3> QED BY <1>2, <2>2, <3>1 DEF Due
  <2>4. DueInv'
    BY <1>0, <1>1, <1>2, <2>2, <2>3, DueMoves
  <2> QED BY <1>1, <2>4, ReadH2F
<1>5. CASE ConsumeErrantReadData \/ RecoverSkip
  <2>1. /\ h2fErrRecovery # NoRecovery /\ readState # "CONT" /\ readState' # "CONT"
    BY <1>0, <1>5 DEF ConsumeErrantReadData, RecoverSkip, RecoveryInv
  <2>2. /\ Finished' = Finished /\ Owed' = Owed /\ Fresh' = Fresh /\ Position' = Position
    BY <1>1, <1>2, <2>1 DEF Finished, Owed, Fresh, Position
  <2>3. DueInv'
    BY <1>0, <1>1, <1>2, <2>2, DueStays
  <2> QED BY <1>1, <2>3, ReadH2F
<1> QED BY <1>3, <1>4, <1>5

(* An error keeps the place of the errant word, and recovery finds it.     *)
LEMMA ErrorH2F ==
  ASSUME EdgeInv, H2FInv, H2FStartError \/ (H2FContRead /\ error) \/ RecoverResume
  PROVE  H2FInv'
<1>0. DueInv /\ ResumeInv /\ RecoveryInv
  BY DEF H2FInv, EdgeInv
<1>1. /\ ReadRule /\ readState \notin {"READY", "DONE"}
      /\ TakeWord \/ UNCHANGED <<rawReadChunksRemaining, marshVars>>
      /\ UNCHANGED <<noMoreReadData, readBuffer>>
  BY DEF H2FStartError, H2FContRead, RecoverResume
<1>2. ~ noMoreReadData
  BY <1>0 DEF H2FStartError, H2FContRead, RecoverResume, ResumeInv
<1>3. /\ readState' # "READY"
      /\ h2fErrRecovery = NoRecovery =>
           /\ h2fErrRecovery' = Recovery(readState) /\ readState' \in {"DONE", "ERROR"}
           /\ readState \in {"START", "CONT"}
      /\ h2fErrRecovery # NoRecovery =>
           /\ h2fErrRecovery' = NoRecovery /\ readState' = h2fErrRecovery.readState
           /\ readDataChunksRemaining' = h2fErrRecovery.dataChunksRemaining
           /\ h2fErrRecovery.rawChunksRemaining = rawReadChunksRemaining
           /\ rawReadChunksRemaining' = rawReadChunksRemaining
           /\ readState = "RECOVER" /\ h2fErrRecovery.readState \in {"START", "CONT"}
  <2>1. CASE H2FStartError
    BY <1>0, <2>1 DEF H2FStartError, RecoveryInv
  <2>2. CASE H2FContRead /\ error
    BY <1>0, <2>2 DEF H2FContRead, RecoveryInv
  <2>3. CASE RecoverResume
    <3>1. h2fErrRecovery # NoRecovery
      BY <1>0, <2>3 DEF RecoverResume, RecoveryInv
    <3>2. h2fErrRecovery.readState \in {"START", "CONT"}
      BY <3>1, RecoveryTypes
    <3>3. /\ h2fErrRecovery' = NoRecovery /\ readState' = h2fErrRecovery.readState
          /\ readDataChunksRemaining' = h2fErrRecovery.dataChunksRemaining
          /\ h2fErrRecovery.rawChunksRemaining = rawReadChunksRemaining
          /\ rawReadChunksRemaining' = rawReadChunksRemaining /\ readState = "RECOVER"
      BY <2>3 DEF RecoverResume
    <3> QED BY <3>1, <3>2, <3>3
  <2> QED BY <2>1, <2>2, <2>3
<1>4. /\ ~ Replied /\ ~ Fresh /\ ~ Replied' /\ ~ Fresh'
      /\ UNCHANGED <<h2f, acked, buf, partial, h2fGot>>
      /\ h2fErrRecovery = NoRecovery => Position = Len(buf) - rawReadChunksRemaining
      /\ h2fErrRecovery' = NoRecovery => Position' = Len(buf) - rawReadChunksRemaining'
  BY <1>1, <1>3, Reading
<1>5. /\ Recovery(readState).rawChunksRemaining = rawReadChunksRemaining
      /\ Recovery(readState).dataChunksRemaining = readDataChunksRemaining
      /\ Recovery(readState).readState = readState
      /\ Recovery(readState) # NoRecovery
  <2>1. /\ Recovery(readState).rawChunksRemaining = rawReadChunksRemaining
        /\ Recovery(readState).dataChunksRemaining = readDataChunksRemaining
        /\ Recovery(readState).readState = readState
    BY DEF Recovery
  <2>2. readState # "NONE"
    BY DEF EdgeInv, TypeInv, ReadTypes, ReadStates
  <2> QED BY <2>1, <2>2 DEF NoRecovery
<1>6. Finished' = Finished /\ Owed' = Owed /\ Fresh' = Fresh /\ Position' = Position
  <2>1. CASE h2fErrRecovery = NoRecovery
    BY <1>1, <1>2, <1>3, <1>4, <1>5, <2>1 DEF Finished, Owed, Fresh, Position
  <2>2. CASE h2fErrRecovery # NoRecovery
    BY <1>1, <1>2, <1>3, <1>4, <2>2 DEF Finished, Owed, Fresh, Position
  <2> QED BY <2>1, <2>2
<1>7. DueInv'
  BY <1>0, <1>1, <1>4, <1>6, DueStays
<1> QED BY <1>1, <1>2, <1>3, <1>7, ReadH2F

(* A word that is taken is the next one, and the others are still to come. *)
LEMMA TakesOne ==
  ASSUME EdgeInv, H2FInv, ReadRule, TakeWord, readState \in {"START", "CONT"},
         readState' \in {"START", "CONT"}, ~ noMoreReadData', UNCHANGED h2fErrRecovery,
         readBuffer' = Append(readBuffer, Word),
         NEW m \in 0 .. Len(h2f), Owed' > 0 => m > 0 /\ Owed' <= h2f[m],
         NEW rest \in Seq(Words), ToCome(m)' = rest,
         Holds(<<Word>> \o rest),
         partial \o (readBuffer \o (<<Word>> \o rest)) = BehindOf(h2f, Len(h2fGot))
  PROVE  H2FInv'
<1>1. readState \notin {"READY", "DONE"} /\ readState' \notin {"READY", "DONE"}
  OBVIOUS
<1>2. /\ ~ Replied /\ ~ Fresh /\ ~ Replied' /\ ~ Fresh'
      /\ UNCHANGED <<h2f, acked, buf, partial, h2fGot>>
      /\ h2fErrRecovery = NoRecovery => Position = Len(buf) - rawReadChunksRemaining
      /\ h2fErrRecovery' = NoRecovery => Position' = Len(buf) - rawReadChunksRemaining'
      /\ rawReadChunksRemaining \in Nat
  BY <1>1, Reading
<1>3. h2fErrRecovery = NoRecovery /\ h2fErrRecovery' = NoRecovery /\ ~ Finished'
  <2>1. h2fErrRecovery = NoRecovery
    BY DEF EdgeInv, RecoveryInv
  <2> QED BY <1>1, <1>2, <2>1 DEF Finished
<1>4. Position' = Position + 1 /\ Position \in Int /\ Len(buf) \in Nat
  <2>1. rawReadChunksRemaining' = rawReadChunksRemaining - 1 /\ Len(buf) \in Nat
    BY H2FTypes DEF TakeWord
  <2> QED BY <1>2, <1>3, <2>1
<1>5. Word \in Words
  BY <1>1, Taking
<1> DEFINE all == <<Word>> \o rest
           n == Len(rest)
           p == Position
           b == Len(buf)
<1>6. all \in Seq(Words) /\ Len(all) = n + 1 /\ n \in Nat /\ \A i \in 1 .. n : all[i + 1] = rest[i]
  BY <1>5
<1>7. Holds(rest)'
  <2> HIDE DEF all
  <2>1. /\ p >= 1 /\ p + (n + 1) < b /\ buf[p + (n + 1) + 1] = Zero
        /\ \A i \in 1 .. n + 1 : buf[p + i] = all[i]
    BY <1>6 DEF Holds, all
  <2> DEFINE r == p + 1
  <2>2. p \in Int /\ b \in Nat /\ r = p + 1 /\ buf' = buf /\ Position' = r /\ Len(buf') = b
    BY <1>2, <1>4
  <2> HIDE DEF n, p, b, r
  <2>3. r >= 1 /\ r + n < b /\ r + n + 1 = p + (n + 1) + 1
    BY <1>6, <2>1, <2>2
  <2>4. ASSUME NEW i \in 1 .. n PROVE buf[r + i] = rest[i]
    <3>1. i + 1 \in 1 .. n + 1 /\ p + (i + 1) = r + i
      BY <1>6, <2>2
    <3> QED BY <1>6, <2>1, <3>1
  <2> QED BY <2>1, <2>2, <2>3, <2>4 DEF Holds, n
<1>8. partial \o ((readBuffer \o <<Word>>) \o rest) = BehindOf(h2f, Len(h2fGot))
  <2>1. readBuffer \in Seq(Words) /\ <<Word>> \in Seq(Words)
    BY <1>5, H2FTypes
  <2>2. (readBuffer \o <<Word>>) \o rest = readBuffer \o (<<Word>> \o rest)
    BY <2>1, Concat3
  <2> QED BY <2>2
<1>9. Append(readBuffer, Word) = readBuffer \o <<Word>>
  <2>1. readBuffer \in Seq(Words)
    BY H2FTypes
  <2> QED BY <1>5, <2>1, AppendedWord
<1>10. Begun(m)'
  <2>1. Due(ToCome(m))'
    BY <1>2, <1>3, <1>7 DEF Due, Holds
  <2>2. BehindOf(h2f, Len(h2fGot))' = BehindOf(h2f, Len(h2fGot))
    <3>1. h2f' = h2f /\ h2fGot' = h2fGot
      BY <1>2
    <3> QED BY ONLY <3>1 DEF BehindOf, MessageWords
  <2> QED BY <1>2, <1>8, <1>9, <2>1, <2>2 DEF Begun
<1>11. DueInv'
  BY <1>2, <1>10 DEF DueInv
<1> QED BY <1>1, <1>11, ReadH2F

(* A header begins the next message; the end mark comes after the last.    *)
LEMMA StartMessageH2F == ASSUME EdgeInv, H2FInv, H2FStartMessage PROVE H2FInv'
<1>0. DueInv /\ ResumeInv /\ RecoveryInv
  BY DEF H2FInv, EdgeInv
<1>1. /\ ReadRule /\ TakeWord /\ readState = "START" /\ ~ noMoreReadData /\ ~ error
      /\ UNCHANGED h2fErrRecovery /\ h2fErrRecovery = NoRecovery
  BY <1>0 DEF H2FStartMessage, RecoveryInv
<1>2. /\ Word # Zero => /\ EnqReadBuffer(Word) /\ readDataChunksRemaining' = NumChunks(Word)
                        /\ readState' = IF NumChunks(Word) # 0 THEN "CONT" ELSE "START"
                        /\ UNCHANGED noMoreReadData
      /\ Word = Zero => /\ noMoreReadData' = TRUE
                        /\ UNCHANGED <<readState, readDataChunksRemaining, readBuffer>>
  BY DEF H2FStartMessage
<1>3. readState' \in {"START", "CONT"}
  BY <1>1, <1>2
<1>4. /\ ~ Replied /\ ~ Fresh /\ ~ Replied' /\ ~ Fresh'
      /\ UNCHANGED <<h2f, acked, buf, partial, h2fGot>>
      /\ Position = Taken /\ Untaken' = Untaken - 1
      /\ UNCHANGED <<hostVars, linkVars>>
  <2>1. readState \notin {"READY", "DONE"} /\ readState' # "READY"
    BY <1>1, <1>3
  <2> QED BY <1>1, <2>1, Reading DEF TakeWord, ReadRule
<1>5. Word = buf[Position + 1]
  BY <1>1, <1>4, DeqWords DEF TakeWord
<1>6. ~ Finished /\ Owed = 0
  BY <1>1, <1>4 DEF Finished, Owed
<1>7. PICK m \in 0 .. Len(h2f) : Begun(m)
  BY <1>0 DEF DueInv
<1>8. PICK words : words = BehindOf(h2f, m)
  OBVIOUS
<1>9. /\ words \in Seq(Words) /\ ToCome(m) = words /\ h2f \in Seq(Nat) /\ Len(h2f) \in Nat
      /\ Position \in Int
  <2>1. Owed > 0 => m > 0 /\ Owed <= h2f[m]
    BY <1>6
  <2>2. ToCome(m) = BehindOf(h2f, m) /\ BehindOf(h2f, m) \in Seq(Words)
    BY <1>6, <2>1, ToComeType
  <2>3. h2f \in Seq(Nat) /\ Len(h2f) \in Nat /\ Position \in Int
    BY H2FTypes
  <2> QED BY <1>8, <2>2, <2>3
<1>10. Holds(words) /\ partial \o (readBuffer \o words) = BehindOf(h2f, Len(h2fGot))
  BY <1>4, <1>6, <1>7, <1>9 DEF Begun, Due
<1>11. CASE words = << >>
  <2>1. Word = Zero
    BY <1>5, <1>9, <1>10, <1>11 DEF Holds
  <2>2. /\ noMoreReadData' = TRUE
        /\ UNCHANGED <<readState, readDataChunksRemaining, readBuffer>>
    BY <1>2, <2>1
  <2>3. Finished' /\ Owed' = Owed
    BY <1>1, <2>2 DEF Finished, Owed
  <2>4. ToCome(m)' = << >>
    <3>1. LastWords(m, Owed)' = << >>
      BY <1>6, <2>3 DEF LastWords
    <3>2. BehindOf(h2f, m)' = BehindOf(h2f, m)
      BY <1>4 DEF BehindOf, MessageWords
    <3>3. << >> \o << >> = << >>
      OBVIOUS
    <3>4. BehindOf(h2f, m)' = << >>
      BY <1>8, <1>11, <3>2
    <3>5. ToCome(m)' = LastWords(m, Owed)' \o BehindOf(h2f, m)'
      BY DEF ToCome
    <3> QED BY <3>1, <3>3, <3>4, <3>5
  <2>5. DueInv'
    <3>1. BehindOf(h2f, Len(h2fGot))' = BehindOf(h2f, Len(h2fGot))
      BY <1>4 DEF BehindOf, MessageWords
    <3>2. Due(ToCome(m))'
      BY <1>4, <2>3, <2>4 DEF Due
    <3>3. (partial \o (readBuffer \o ToCome(m)) = BehindOf(h2f, Len(h2fGot)))'
      BY <1>4, <1>10, <1>11, <2>2, <2>4, <3>1
    <3>4. Begun(m)'
      BY <1>6, <2>3, <3>2, <3>3 DEF Begun
    <3> QED BY <1>4, <3>4 DEF DueInv
  <2>6. noMoreReadData' => readState' = "START"
    BY <1>1, <2>2
  <2> QED BY <1>1, <1>3, <2>5, <2>6, ReadH2F
<1>12. CASE words # << >>
  <2> DEFINE q == m + 1
             k == h2f[q]
  <2>1. m # Len(h2f)
    BY <1>8, <1>9, <1>12, BehindLast
  <2>2. m \in 0 .. Len(h2f) - 1 /\ q \in 1 .. Len(h2f) /\ q \in 0 .. Len(h2f) /\ q \in Nat \ {0}
        /\ k \in Nat
    BY <1>9, <2>1
  <2>3. words = MessageWords(q, k) \o BehindOf(h2f, q)
    BY <1>8, <1>9, <2>2, BehindFirst
  <2>4. PICK behind : behind = BehindOf(h2f, q)
    OBVIOUS
  <2>5. behind \in Seq(Words)
    BY <2>2, <2>4, H2FTypes
  <2> DEFINE tail == [i \in 1 .. k |-> <<q, i>>]
             w == <<q, 0>>
  <2>6. w \in Words /\ tail \in Seq(Words) /\ Len(tail) = k
    <3>1. \A i \in 1 .. k : <<q, i>> \in Words
      BY <2>2 DEF Words
    <3> QED BY <2>2, <3>1 DEF Words
  <2>7. MessageWords(q, k) = <<w>> \o tail
    <3> HIDE DEF k, q
    <3>1. MessageWords(q, k) = [i \in 1 .. k + 1 |-> <<q, i - 1>>]
      BY DEF MessageWords
    <3> DEFINE both == <<w>> \o tail
    <3>2. both = [i \in 1 .. k + 1 |-> both[i]]
      BY <2>2, <2>6
    <3>3. \A i \in 1 .. k + 1 : both[i] = <<q, i - 1>>
      BY <2>2, <2>6
    <3> HIDE DEF both
    <3> QED BY <3>1, <3>2, <3>3 DEF both
  <2> HIDE DEF tail, w, k, q
  <2> DEFINE rest == tail \o behind
  <2>8. rest \in Seq(Words) /\ words = <<w>> \o rest
    <3>1. <<w>> \in Seq(Words)
      BY <2>6
    <3>2. (<<w>> \o tail) \o behind = <<w>> \o (tail \o behind) /\ tail \o behind \in Seq(Words)
      BY <2>5, <2>6, <3>1, Concat3
    <3> QED BY <2>3, <2>4, <2>7, <3>2
  <2>9. Word = w
    <3>1. words[1] = w /\ 1 \in 1 .. Len(words)
      <4> HIDE DEF rest
      <4> QED BY <2>6, <2>8
    <3> QED BY <1>5, <1>10, <3>1 DEF Holds
  <2>10. Word # Zero /\ NumChunks(Word) = k
    <3>1. Word # Zero
      BY <2>2, <2>9 DEF w, Zero
    <3>2. Word[1] = q /\ q \in DOMAIN h2f
      BY <1>9, <2>2, <2>9 DEF w
    <3> QED BY <3>1, <3>2 DEF NumChunks, k
  <2>11. /\ readBuffer' = Append(readBuffer, Word) /\ readDataChunksRemaining' = k
         /\ readState' = IF k # 0 THEN "CONT" ELSE "START"
         /\ UNCHANGED noMoreReadData
    BY <1>2, <2>10 DEF EnqReadBuffer
  <2>12. Owed' = k
    BY <1>1, <2>11 DEF Owed
  <2>13. ToCome(q)' = rest
    <3>1. LastWords(q, Owed)' = tail
      <4>1. LastWords(q, Owed)' = [i \in 1 .. k |-> <<q, k - k + i>>]
        BY <1>4, <2>12 DEF LastWords, k
      <4>2. \A i \in 1 .. k : <<q, k - k + i>> = <<q, i>>
        BY <2>2
      <4> QED BY <4>1, <4>2 DEF tail
    <3>2. BehindOf(h2f, q)' = BehindOf(h2f, q)
      BY <1>4 DEF BehindOf, MessageWords
    <3> QED BY <2>4, <3>1, <3>2 DEF ToCome
  <2>14. Owed' > 0 => q > 0 /\ Owed' <= h2f[q]
    BY <2>2, <2>12 DEF k
  <2>15. Holds(<<Word>> \o rest) /\ partial \o (readBuffer \o (<<Word>> \o rest)) = BehindOf(h2f, Len(h2fGot))
    BY <1>10, <2>8, <2>9
  <2> QED BY <1>1, <1>3, <2>2, <2>8, <2>11, <2>13, <2>14, <2>15, TakesOne
<1> QED BY <1>11, <1>12

(* A payload word is that of the message, and one fewer is owed.           *)
LEMMA ContReadH2F == ASSUME EdgeInv, H2FInv, H2FContRead, ~ error PROVE H2FInv'
<1> DEFINE d == readDataChunksRemaining
           raw == rawReadChunksRemaining
<1>0. DueInv /\ ResumeInv /\ RecoveryInv
  BY DEF H2FInv, EdgeInv
<1>1. /\ ReadRule /\ TakeWord /\ readState = "CONT" /\ ~ noMoreReadData /\ ~ noMoreReadData'
      /\ UNCHANGED h2fErrRecovery /\ h2fErrRecovery = NoRecovery
      /\ readDataChunksRemaining' = d - 1 /\ readBuffer' = Append(readBuffer, Word)
      /\ readState' = IF raw = 1 THEN "DONE" ELSE IF d = 1 THEN "START" ELSE "CONT"
  BY <1>0 DEF H2FContRead, EnqReadBuffer, RecoveryInv, ResumeInv
<1>2. d \in Nat /\ d > 0 /\ Owed = d
  <2>1. d \in Nat
    BY H2FTypes
  <2> QED BY <1>0, <1>1, <2>1 DEF RecoveryInv, Owed
<1>3. /\ ~ Replied /\ ~ Fresh /\ ~ Replied' /\ ~ Fresh'
      /\ UNCHANGED <<h2f, acked, buf, partial, h2fGot>>
      /\ Position = Taken /\ Untaken' = Untaken - 1 /\ Position = Len(buf) - raw
      /\ raw \in Nat /\ UNCHANGED <<hostVars, linkVars>>
  <2>1. readState \notin {"READY", "DONE"} /\ readState' # "READY"
    BY <1>1
  <2> QED BY <1>1, <2>1, Reading DEF TakeWord, ReadRule
<1>4. Word = buf[Position + 1]
  BY <1>1, <1>3, DeqWords DEF TakeWord
<1>5. ~ Finished
  BY <1>1, <1>3 DEF Finished
<1>6. PICK m \in 0 .. Len(h2f) : Begun(m)
  BY <1>0 DEF DueInv
<1> DEFINE k == h2f[m]
           w == <<m, k - d + 1>>
           last == LastWords(m, d - 1)
<1>7. m > 0 /\ d <= k
  BY <1>2, <1>6 DEF Begun
<1>8. PICK words : words = ToCome(m)
  OBVIOUS
<1>9. PICK behind : behind = BehindOf(h2f, m)
  OBVIOUS
<1>10. /\ words \in Seq(Words) /\ behind \in Seq(Words) /\ Len(words) = d + Len(behind)
       /\ words[1] = w /\ k \in Nat /\ words = LastWords(m, d) \o behind
  <2>1. Owed > 0 => m > 0 /\ Owed <= h2f[m]
    BY <1>2, <1>7
  <2> QED BY <1>2, <1>8, <1>9, <2>1, ToComeType DEF ToCome
<1>11. Holds(words) /\ partial \o (readBuffer \o words) = BehindOf(h2f, Len(h2fGot))
  BY <1>3, <1>5, <1>6, <1>8 DEF Begun, Due
<1> HIDE DEF d, k
<1>12. w \in Words /\ last \in Seq(Words) /\ Len(last) = d - 1
       /\ \A i \in 1 .. d - 1 : last[i] = <<m, k - (d - 1) + i>>
  <2>1. m \in Nat
    OBVIOUS
  <2>2. \A i \in 1 .. d : k - d + i \in Nat
    BY <1>2, <1>7, <1>10
  <2>3. 1 \in 1 .. d /\ \A i \in 1 .. d - 1 : k - (d - 1) + i = k - d + (i + 1) /\ i + 1 \in 1 .. d
    BY <1>2, <1>10
  <2>4. last = [i \in 1 .. d - 1 |-> <<m, k - (d - 1) + i>>]
    BY DEF LastWords, k
  <2>5. \A i \in 1 .. d - 1 : <<m, k - (d - 1) + i>> \in Words
    BY <2>1, <2>2, <2>3 DEF Words
  <2>6. w \in Words
    BY <2>1, <2>2, <2>3 DEF Words
  <2>7. d - 1 \in Nat
    BY <1>2
  <2> HIDE DEF last, w
  <2> QED BY <2>4, <2>5, <2>6, <2>7
<1>13. LastWords(m, d) = <<w>> \o last
  <2> HIDE DEF last, w
  <2> DEFINE both == <<w>> \o last
  <2>1. LastWords(m, d) = [i \in 1 .. d |-> <<m, k - d + i>>]
    BY DEF LastWords, k
  <2>2. both \in Seq(Words) /\ Len(both) = d /\ both[1] = w
        /\ \A i \in 1 .. d - 1 : both[i + 1] = last[i]
    BY <1>2, <1>12
  <2> HIDE DEF both
  <2>3. ASSUME NEW i \in 1 .. d PROVE both[i] = <<m, k - d + i>>
    <3>1. CASE i = 1
      BY <2>2, <3>1 DEF w
    <3>2. CASE i # 1
      <4> DEFINE j == i - 1
      <4>1. j \in 1 .. d - 1 /\ i = j + 1 /\ k - (d - 1) + j = k - d + i
        BY <1>2, <1>10, <3>2
      <4> HIDE DEF j
      <4> QED BY <1>12, <2>2, <4>1
    <3> QED BY <3>1, <3>2
  <2>4. both = [i \in 1 .. d |-> both[i]]
    BY <2>2
  <2> QED BY <2>1, <2>3, <2>4 DEF both
<1> HIDE DEF last, w
<1> DEFINE rest == last \o behind
<1>14. rest \in Seq(Words) /\ words = <<w>> \o rest
  <2>1. <<w>> \in Seq(Words)
    BY <1>12
  <2>2. (<<w>> \o last) \o behind = <<w>> \o (last \o behind) /\ last \o behind \in Seq(Words)
    <3>1. (<<w>> \o last) \o behind = <<w>> \o (last \o behind)
      <4>1. behind \in Seq(Words) /\ last \in Seq(Words)
        BY <1>10, <1>12
      <4> DEFINE one == <<w>>
      <4>2. one \in Seq(Words)
        BY <2>1
      <4> HIDE DEF one
      <4>3. (one \o last) \o behind = one \o (last \o behind)
        BY ONLY <4>1, <4>2, ConcatRight
      <4> QED BY <4>3 DEF one
    <3>2. last \o behind \in Seq(Words)
      BY ONLY <1>10, <1>12, ConcatLength
    <3> QED BY <3>1, <3>2
  <2> QED BY <1>10, <1>13, <2>2
<1> HIDE DEF rest
<1>15. Word = w /\ raw # 1
  <2> DEFINE n == Len(words)
             b == Len(buf)
             p == Position
  <2>1. n \in Nat /\ n >= 1 /\ b \in Nat /\ p + n < b /\ p = b - raw
    <3>1. Len(behind) \in Nat /\ b \in Nat
      BY <1>10, H2FTypes
    <3>2. p + n < b
      BY <1>11 DEF Holds
    <3> HIDE DEF p, b
    <3> QED BY <1>2, <1>3, <1>10, <3>1, <3>2 DEF p, b
  <2>2. raw # 1
    <3> HIDE DEF n, p, b, raw
    <3> QED BY <2>1, <1>3
  <2>3. 1 \in 1 .. n
    BY <2>1
  <2>4. buf[p + 1] = words[1]
    BY <1>11, <2>3 DEF Holds
  <2> QED BY <1>4, <1>10, <2>2, <2>4
<1>16. readState' \in {"START", "CONT"} /\ Owed' = d - 1
  BY <1>1, <1>2, <1>15 DEF Owed, d
<1>17. ToCome(m)' = rest
  <2>1. LastWords(m, Owed)' = last
    BY <1>3, <1>16 DEF LastWords, last
  <2>2. BehindOf(h2f, m)' = BehindOf(h2f, m)
    BY <1>3 DEF BehindOf, MessageWords
  <2> QED BY <1>9, <2>1, <2>2 DEF ToCome, rest
<1>18. Owed' > 0 => m > 0 /\ Owed' <= h2f[m]
  BY <1>2, <1>7, <1>10, <1>16 DEF k
<1>19. Holds(<<Word>> \o rest) /\ partial \o (readBuffer \o (<<Word>> \o rest)) = BehindOf(h2f, Len(h2fGot))
  BY <1>11, <1>14, <1>15
<1> QED BY <1>1, <1>14, <1>16, <1>17, <1>18, <1>19, TakesOne
-----------------------------------------------------------------------------
(* The end of a transaction, and the client's method read. *)

(* The pipe is empty; an error is still known.                             *)
LEMMA CompleteWriteH2F == ASSUME EdgeInv, H2FInv, EdgeInv', F2HCompleteWrite PROVE H2FInv'
<1>0. DueInv /\ ResumeInv
  BY DEF H2FInv
<1>1. /\ writeState = "LAST" /\ readState = "DONE" /\ readState' = "READY"
      /\ \E w : reply' = Append(reply, w)
      /\ UNCHANGED <<rawReadChunksRemaining, readDataChunksRemaining, noMoreReadData,
                     h2fErrRecovery, readBuffer, inQ, idx, outQ, hostVars, linkVars, clientVars>>
  BY DEF F2HCompleteWrite
<1>2. /\ Running /\ ~ Replied /\ ~ Before /\ hpc = "wait"
      /\ Len(reply) + rawWriteChunksRemaining = cmd.f2h /\ rawWriteChunksRemaining = 0
      /\ Len(reply) \in Nat /\ cmd.f2h \in Nat /\ reply \in Seq(Words)
  <2>1. reply \in Seq(Words)
    BY DEF EdgeInv, TypeInv, WriteTypes
  <2> QED BY <1>1, <2>1, WriteFacts, Phases
<1>3. UNCHANGED <<h2f, acked, buf, cmd, resend, hpc, partial, h2fGot, sentChunks>>
  BY <1>1 DEF hostVars, linkVars, clientVars
<1>4. Replied'
  <2> DEFINE f == cmd.f2h
             n == Len(reply)
  <2>1. n \in Nat /\ n + 0 = f
    BY <1>2
  <2>2. Len(reply') = n + 1
    BY <1>1, <1>2
  <2> HIDE DEF n, f
  <2>3. n + 1 = f + 1
    BY <2>1
  <2> QED BY <1>2, <1>3, <2>2, <2>3 DEF Replied, f
<1>5. inQ = << >> /\ outQ = << >>
  <2>1. Untaken = 0
    BY <1>1, <1>2 DEF EdgeInv, PhaseInv, Untaken
  <2> QED BY <1>2, <2>1, PipeFacts
<1>6. PipeWords'
  BY <1>1, <1>5 DEF PipeWords
<1>7. ~ noMoreReadData
  BY <1>0, <1>1 DEF ResumeInv
<1>8. ResumeInv'
  BY <1>1, <1>2, <1>3, <1>7 DEF ResumeInv
<1>9. WindowInv' /\ ClientInv'
  BY <1>3, ClientStays
<1>10. /\ Owed' = Owed /\ Fresh' = Fresh /\ Finished' = Finished
       /\ Finished \/ Position' = Position
  <2>1. Owed' = Owed /\ Fresh' = Fresh
    BY <1>1, <1>3 DEF Owed, Fresh
  <2>2. Finished' = Finished /\ (h2fErrRecovery = NoRecovery => Finished)
    BY <1>1, <1>4 DEF Finished
  <2>3. h2fErrRecovery # NoRecovery => Position' = Position
    BY <1>1, <1>3 DEF Position
  <2> QED BY <2>1, <2>2, <2>3
<1>11. DueInv'
  BY <1>0, <1>1, <1>3, <1>10, DueStays
<1> QED BY <1>6, <1>8, <1>9, <1>11 DEF H2FInv

(* Concatenation, when it is not to be taken apart.                        *)
Joined(a, b) == a \o b

(* Equal sequences agree at the front, and behind equal fronts.            *)
LEMMA Fronts ==
  ASSUME NEW a \in Seq(Words), NEW b \in Seq(Words), NEW x \in Seq(Words), NEW y \in Seq(Words),
         Joined(a, x) = Joined(b, y), Len(a) <= Len(b)
  PROVE  /\ \A i \in 1 .. Len(a) : a[i] = b[i]
         /\ Len(a) = Len(b) => a = b /\ x = y
<1> DEFINE k == Len(a)
           n == Len(b)
           u == Len(x)
           v == Len(y)
           ax == a \o x
           by == b \o y
<1>1. k \in Nat /\ n \in Nat /\ u \in Nat /\ v \in Nat /\ k <= n
  OBVIOUS
<1>2. /\ Len(ax) = k + u
      /\ \A i \in 1 .. k + u : ax[i] = IF i <= k THEN a[i] ELSE x[i - k]
  BY ConcatProperties
<1>3. /\ Len(by) = n + v
      /\ \A i \in 1 .. n + v : by[i] = IF i <= n THEN b[i] ELSE y[i - n]
  BY ConcatProperties
<1>4. ax = by
  BY DEF Joined
<1>5. a = [i \in 1 .. k |-> a[i]] /\ b = [i \in 1 .. n |-> b[i]]
      /\ x = [i \in 1 .. u |-> x[i]] /\ y = [i \in 1 .. v |-> y[i]]
  OBVIOUS
<1> HIDE DEF k, n, u, v, ax, by
<1>6. k + u = n + v
  BY <1>2, <1>3, <1>4
<1>7. ASSUME NEW i \in 1 .. k PROVE a[i] = b[i]
  <2>1. i \in 1 .. k + u /\ i \in 1 .. n + v /\ i <= k /\ i <= n
    BY <1>1, <1>6
  <2> QED BY <1>2, <1>3, <1>4, <2>1
<1>8. ASSUME k = n PROVE a = b /\ x = y
  <2>1. a = b
    BY <1>5, <1>7, <1>8
  <2>2. u = v
    BY <1>1, <1>6, <1>8
  <2>3. ASSUME NEW j \in 1 .. u PROVE x[j] = y[j]
    <3> DEFINE i == k + j
    <3>1. i \in 1 .. k + u /\ i \in 1 .. n + v /\ ~ (i <= k) /\ ~ (i <= n) /\ i - k = j /\ i - n = j
      BY <1>1, <1>6, <1>8
    <3> HIDE DEF i
    <3> QED BY <1>2, <1>3, <1>4, <3>1
  <2> QED BY <1>5, <2>1, <2>2, <2>3
<1> QED BY <1>7, <1>8 DEF k, n

(* A queue is its first word and the others. *)
LEMMA HeadIsFirst ==
  ASSUME NEW s \in Seq(Words), s # << >>
  PROVE  Head(s) \in Words /\ Tail(s) \in Seq(Words) /\ s = <<Head(s)>> \o Tail(s)
<1>1. Head(s) \in Words /\ Tail(s) \in Seq(Words) /\ Len(s) = Len(Tail(s)) + 1
  OBVIOUS
<1>2. s[1] = Head(s) /\ \A i \in 1 .. Len(s) - 1 : s[i + 1] = Tail(s)[i]
  OBVIOUS
<1> DEFINE h == Head(s)
           t == Tail(s)
<1> HIDE DEF h, t
<1> DEFINE both == <<h>> \o t
<1>3. both \in Seq(Words) /\ Len(both) = Len(s) /\ both[1] = s[1]
      /\ \A i \in 1 .. Len(s) - 1 : both[i + 1] = s[i + 1]
  BY <1>1, <1>2 DEF h, t
<1> HIDE DEF both
<1>4. \A i \in 1 .. Len(s) : both[i] = s[i]
  <2>1. ASSUME NEW i \in 1 .. Len(s) PROVE both[i] = s[i]
    <3>1. CASE i = 1
      BY <1>3, <3>1
    <3>2. CASE i # 1
      <4> DEFINE j == i - 1
      <4>1. j \in 1 .. Len(s) - 1 /\ i = j + 1
        BY <3>2
      <4> HIDE DEF j
      <4> QED BY <1>3, <4>1
    <3> QED BY <3>1, <3>2
  <2> QED BY <2>1
<1>5. both = [i \in 1 .. Len(s) |-> both[i]] /\ s = [i \in 1 .. Len(s) |-> s[i]]
  BY <1>3
<1>6. both = s
  BY <1>4, <1>5
<1> QED BY <1>1, <1>6 DEF both, h, t

(* What the client reads is the next word of the message it is in.         *)
LEMMA ClientReadH2F == ASSUME EdgeInv, H2FInv, ClientRead PROVE H2FInv'
<1> DEFINE g == Len(h2fGot)
           w == Head(readBuffer)
           others == Tail(readBuffer)
           words == Append(partial, w)
           c == h2f[g + 1]
           message == MessageWords(g + 1, c)
<1>0. WindowInv /\ PipeWords /\ ResumeInv /\ ClientInv /\ DueInv
  BY DEF H2FInv
<1>1. /\ readBuffer # << >> /\ readBuffer' = others
      /\ IF Len(words) > NumChunks(words[1])
         THEN h2fGot' = Append(h2fGot, words) /\ partial' = << >>
         ELSE partial' = words /\ UNCHANGED h2fGot
      /\ UNCHANGED <<readState, rawReadChunksRemaining, readDataChunksRemaining, noMoreReadData,
                     h2fErrRecovery, hostVars, linkVars, marshVars, writeVars>>
  BY DEF ClientRead
<1>2. /\ h2f \in Seq(Nat) /\ Len(h2f) \in Nat /\ g \in Nat /\ partial \in Seq(Words)
      /\ readBuffer \in Seq(Words) /\ h2fGot \in Seq(Seq(Words))
      /\ \A n \in 0 .. Len(h2f) : BehindOf(h2f, n) \in Seq(Words)
  BY H2FTypes
<1>3. UNCHANGED <<h2f, acked, buf, cmd, resend, hpc, reply, sentChunks, inQ, outQ, error, idx>>
  BY <1>1 DEF hostVars, linkVars, marshVars, writeVars
<1>4. PICK m \in 0 .. Len(h2f) : Begun(m)
  BY <1>0 DEF DueInv
<1>5. PICK come : come = ToCome(m)
  OBVIOUS
<1>6. come \in Seq(Words)
  <2>1. Owed > 0 => m > 0 /\ Owed <= h2f[m]
    BY <1>4 DEF Begun
  <2> QED BY <1>5, <2>1, ToComeType
<1>7. w \in Words /\ others \in Seq(Words) /\ readBuffer = <<w>> \o others
  BY <1>1, <1>2, HeadIsFirst
<1>8. words \in Seq(Words) /\ words = partial \o <<w>> /\ Len(words) = Len(partial) + 1
      /\ Len(partial) \in Nat
  <2> HIDE DEF w
  <2>1. words \in Seq(Words) /\ Len(words) = Len(partial) + 1 /\ Len(partial) \in Nat
    BY <1>2, <1>7
  <2>2. words = partial \o <<w>>
    BY <1>2, <1>7, AppendedWord
  <2> QED BY <2>1, <2>2
<1> DEFINE behind == others \o come
<1>9. behind \in Seq(Words) /\ partial \o (readBuffer \o come) = words \o behind
  <2> HIDE DEF w, others, words, behind
  <2> DEFINE p == partial
             r == readBuffer
             one == <<w>>
  <2>1. p \in Seq(Words) /\ one \in Seq(Words)
    BY <1>2, <1>7
  <2>2. r = one \o others /\ words = p \o one
    BY <1>7, <1>8
  <2> HIDE DEF p, r, one
  <2>3. r \o come = one \o behind /\ behind \in Seq(Words)
    <3>1. come \in Seq(Words) /\ others \in Seq(Words)
      BY <1>6, <1>7
    <3>2. (one \o others) \o come = one \o (others \o come)
      BY ONLY <2>1, <3>1, ConcatRight
    <3>3. others \o come \in Seq(Words)
      BY ONLY <3>1, ConcatLength
    <3> QED BY <2>2, <3>2, <3>3 DEF behind
  <2>4. (p \o one) \o behind = p \o (one \o behind)
    BY <2>1, <2>3, Concat3
  <2>5. p \o (r \o come) = words \o behind
    BY <2>2, <2>3, <2>4
  <2> QED BY <2>3, <2>5 DEF p, r
<1>10. words \o behind = BehindOf(h2f, g)
  BY <1>4, <1>5, <1>9 DEF Begun
<1> HIDE DEF w, others, words, behind
<1>11. g < Len(h2f) /\ g \in 0 .. Len(h2f) - 1 /\ g + 1 \in 1 .. Len(h2f) /\ c \in Nat
  <2>1. g # Len(h2f)
    <3>1. Len(words \o behind) = Len(words) + Len(behind) /\ Len(behind) \in Nat
      BY <1>8, <1>9, Concat3
    <3>2. words \o behind # << >>
      BY <1>8, <3>1
    <3> QED BY <1>2, <1>10, <3>2, BehindLast
  <2>2. g <= Len(h2f)
    BY <1>0 DEF ClientInv
  <2>3. g < Len(h2f) /\ g \in 0 .. Len(h2f) - 1 /\ g + 1 \in 1 .. Len(h2f)
    <3> HIDE DEF g
    <3> QED BY <1>2, <2>1, <2>2
  <2> HIDE DEF g
  <2> QED BY <1>2, <2>3
<1> DEFINE rest == BehindOf(h2f, g + 1)
<1>12. /\ message \in Seq(Words) /\ Len(message) = c + 1 /\ rest \in Seq(Words)
       /\ message[1] = <<g + 1, 0>> /\ words \o behind = message \o rest
  <2>1. g + 1 \in Nat /\ g + 1 \in 0 .. Len(h2f)
    BY <1>11
  <2>2. /\ message \in Seq(Words) /\ Len(message) = c + 1
        /\ \A i \in 1 .. c + 1 : message[i] = <<g + 1, i - 1>>
    <3> HIDE DEF g, c
    <3> QED BY <1>11, <2>1, MessageType
  <2>3. message[1] = <<g + 1, 0>>
    <3>1. 1 \in 1 .. c + 1 /\ 1 - 1 = 0
      BY <1>11
    <3> QED BY <2>2, <3>1
  <2>4. BehindOf(h2f, g) = message \o rest
    <3> HIDE DEF g
    <3> QED BY <1>2, <1>11, BehindFirst
  <2>5. rest \in Seq(Words)
    BY <1>2, <2>1
  <2> QED BY <1>10, <2>2, <2>3, <2>4, <2>5
<1>13. Len(words) <= c + 1
  <2>1. Len(partial) <= c
    <3>1. CASE partial = << >>
      BY <1>11, <3>1
    <3>2. CASE partial # << >>
      BY <1>0, <3>2 DEF ClientInv
    <3> QED BY <3>1, <3>2
  <2> HIDE DEF c
  <2> QED BY <1>8, <1>11, <2>1
<1>14. /\ \A i \in 1 .. Len(words) : words[i] = message[i]
       /\ Len(words) = c + 1 => words = message /\ behind = rest
  <2>1. Len(words) <= Len(message)
    BY <1>12, <1>13
  <2> HIDE DEF message, rest
  <2>2. /\ \A i \in 1 .. Len(words) : words[i] = message[i]
        /\ Len(words) = Len(message) => words = message /\ behind = rest
    <3>1. /\ words \in Seq(Words) /\ message \in Seq(Words) /\ behind \in Seq(Words)
          /\ rest \in Seq(Words) /\ Joined(words, behind) = Joined(message, rest)
      BY <1>8, <1>9, <1>12 DEF Joined
    <3> QED BY ONLY <2>1, <3>1, Fronts
  <2> QED BY <1>12, <2>2
<1>15. NumChunks(words[1]) = c
  <2>1. words[1] = <<g + 1, 0>>
    <3>1. 1 \in 1 .. Len(words)
      BY <1>8
    <3> QED BY <1>12, <1>14, <3>1
  <2> HIDE DEF g
  <2>2. words[1][1] = g + 1 /\ g + 1 \in DOMAIN h2f
    BY <1>2, <1>11, <2>1
  <2> QED BY <2>2 DEF NumChunks, g
<1>16. ToCome(m)' = come /\ Owed' = Owed
  <2>1. Owed' = Owed
    BY <1>1 DEF Owed
  <2> QED BY <1>3, <1>5, <2>1 DEF ToCome, LastWords, BehindOf, MessageWords
<1>17. Due(ToCome(m))'
  <2>1. Fresh' = Fresh /\ Finished' = Finished /\ Position' = Position
    BY <1>1, <1>3 DEF Fresh, Finished, Position, Replied, Before
  <2>2. BehindOf(h2f, acked)' = BehindOf(h2f, acked)
    BY <1>3 DEF BehindOf, MessageWords
  <2>3. Due(come)
    BY <1>4, <1>5 DEF Begun
  <2> QED BY <1>3, <1>16, <2>1, <2>2, <2>3 DEF Due, Holds
<1>18. WindowInv' /\ PipeWords' /\ ResumeInv'
  <2>1. WindowInv'
    <3>1. BehindOf(h2f, acked)' = BehindOf(h2f, acked)
      BY <1>3 DEF BehindOf, MessageWords
    <3> QED BY <1>0, <3>1 DEF WindowInv
  <2>2. Untaken' = Untaken
    BY <1>1, <1>3 DEF Untaken, Replied, Before
  <2>3. PipeWords'
    BY <1>3, <2>2, PipeStays DEF marshVars
  <2>4. ResumeInv'
    BY <1>0, <1>1, <1>3 DEF ResumeInv
  <2> QED BY <2>1, <2>3, <2>4
<1>19. CASE Len(words) > c
  <2>1. h2fGot' = Append(h2fGot, words) /\ partial' = << >> /\ Len(words) = c + 1
    <3> HIDE DEF c
    <3> QED BY <1>1, <1>8, <1>11, <1>13, <1>15, <1>19
  <2>2. words = message /\ behind = rest
    BY <1>14, <2>1
  <2>3. Len(h2fGot') = g + 1 /\ h2fGot'[g + 1] = message
        /\ \A k \in 1 .. g : h2fGot'[k] = h2fGot[k]
    <3>1. words \in Seq(Words) /\ h2fGot \in Seq(Seq(Words)) /\ h2fGot' = Append(h2fGot, words)
      BY <1>2, <1>8, <2>1
    <3> HIDE DEF message
    <3> QED BY <2>2, <3>1
  <2>4. ClientInv'
    <3>1. ASSUME NEW k \in 1 .. g + 1 PROVE h2fGot'[k] = MessageWords(k, h2f[k])
      <4>1. CASE k = g + 1
        BY <2>3, <4>1
      <4>2. CASE k # g + 1
        <5>1. k \in 1 .. g
          BY <1>11, <4>2
        <5> QED BY <1>0, <2>3, <5>1 DEF ClientInv
      <4> QED BY <4>1, <4>2
    <3>2. g + 1 <= Len(h2f)
      BY <1>11
    <3> QED BY <1>3, <2>1, <2>3, <3>1, <3>2 DEF ClientInv, MessageWords
  <2>5. DueInv'
    <3>1. << >> \o (others \o come) = rest
      BY <1>9, <2>2, Concat3 DEF behind
    <3>2. BehindOf(h2f, Len(h2fGot))' = rest
      BY <1>3, <2>3 DEF BehindOf, MessageWords
    <3>3. Begun(m)'
      <4>1. (partial \o (readBuffer \o ToCome(m)) = BehindOf(h2f, Len(h2fGot)))'
        BY <1>1, <1>16, <2>1, <3>1, <3>2
      <4>2. Owed' > 0 => m > 0 /\ Owed' <= h2f'[m]
        BY <1>3, <1>4, <1>16 DEF Begun
      <4> QED BY <1>17, <4>1, <4>2 DEF Begun
    <3> QED BY <1>3, <3>3 DEF DueInv
  <2> QED BY <1>18, <2>4, <2>5 DEF H2FInv
<1>20. CASE ~ (Len(words) > c)
  <2>1. h2fGot' = h2fGot /\ partial' = words /\ Len(words) <= c
    <3>1. ~ (Len(words) > NumChunks(words[1]))
      BY <1>15, <1>20
    <3>2. h2fGot' = h2fGot /\ partial' = words
      BY <1>1, <3>1
    <3>3. Len(words) <= c
      <4> HIDE DEF c
      <4> QED BY <1>8, <1>11, <1>20
    <3> QED BY <3>2, <3>3
  <2>2. ClientInv'
    BY <1>0, <1>3, <1>11, <2>1 DEF ClientInv, MessageWords
  <2>3. DueInv'
    <3>1. BehindOf(h2f, Len(h2fGot))' = BehindOf(h2f, g)
      BY <1>3, <2>1 DEF BehindOf, MessageWords
    <3>2. Begun(m)'
      <4>1. (partial \o (readBuffer \o ToCome(m)) = BehindOf(h2f, Len(h2fGot)))'
        BY <1>1, <1>10, <1>16, <2>1, <3>1 DEF behind
      <4>2. Owed' > 0 => m > 0 /\ Owed' <= h2f'[m]
        BY <1>3, <1>4, <1>16 DEF Begun
      <4> QED BY <1>17, <4>1, <4>2 DEF Begun
    <3> QED BY <1>3, <3>2 DEF DueInv
  <2> QED BY <1>18, <2>2, <2>3 DEF H2FInv
<1> QED BY <1>19, <1>20
-----------------------------------------------------------------------------
(* The theorems about the messages of the host. *)

(* Every step keeps the second invariant, given the first. *)
LEMMA H2FStep == EdgeInv /\ H2FInv /\ [Next]_vars => H2FInv'
<1> SUFFICES ASSUME EdgeInv, H2FInv, [Next]_vars PROVE H2FInv'
  OBVIOUS
<1>0. EdgeInv'
  BY EdgeStep
<1>1. CASE HostWrite
  BY <1>0, <1>1, HostWriteH2F
<1>2. CASE Host
  BY <1>0, <1>2, HostPrepareH2F, HostReceiveH2F DEF Host
<1>3. CASE LinkChunk \/ LinkError
  BY <1>3, LinkH2F
<1>4. CASE Rules
  BY <1>0, <1>4, MarshallH2F, AcceptRequestH2F, CompleteWriteH2F DEF Rules
<1>5. CASE ReadSide
  BY <1>5, SkipH2F, ErrorH2F, StartMessageH2F, ContReadH2F DEF ReadSide
<1>6. CASE WriteSide \/ ClientWrite
  BY <1>0, <1>6, WriteSideH2F
<1>7. CASE ClientRead
  BY <1>7, ClientReadH2F
<1>8. CASE UNCHANGED vars
  <2>1. /\ UNCHANGED <<h2f, acked, buf, resend, hpc, sentChunks, readVars, clientVars, marshVars>>
        /\ Replied' = Replied /\ Before' = Before /\ Untaken' = Untaken
    BY <1>8 DEF vars, hostVars, linkVars, readVars, writeVars, Replied, Before, Untaken
  <2>2. PipeWords'
    BY <2>1, PipeStays
  <2> QED BY <2>1, <2>2, Elsewhere
<1> QED BY <1>1, <1>2, <1>3, <1>4, <1>5, <1>6, <1>7, <1>8 DEF Next

(* Both invariants hold in every state.                                    *)
THEOREM H2FInvariant == Spec => [](EdgeInv /\ H2FInv)
<1>1. Init => EdgeInv /\ H2FInv
  BY InitEdge, InitH2F
<1>2. (EdgeInv /\ H2FInv) /\ [Next]_vars => (EdgeInv /\ H2FInv)'
  BY EdgeStep, H2FStep
<1> QED BY <1>1, <1>2, PTL DEF Spec

(* When a complete reply is an ACK, the client has every message the host  *)
(* wrote, but for words that wait in its queue: HostReceive may empty the  *)
(* window.                                                                 *)
THEOREM AckCorrect == Spec => []AckMeansTaken
<1>1. EdgeInv /\ H2FInv => AckMeansTaken
  <2> SUFFICES ASSUME EdgeInv, H2FInv, Replied, reply[Len(reply)][2] = 0
               PROVE  LET words == partial \o readBuffer
                          whole == [m \in 1 .. Len(h2fGot) |-> MessageWords(m, h2f[m])]
                      IN  h2fGot = whole /\ words = WordsBehind(Len(h2fGot))
    BY DEF AckMeansTaken
  <2>1. ClientInv /\ DueInv
    BY DEF H2FInv
  <2>2. h2fErrRecovery = NoRecovery
    <3>1. reply[Len(reply)] = <<numUsefulWriteChunks,
                                IF h2fErrRecovery = NoRecovery THEN 0
                                ELSE h2fErrRecovery.rawChunksRemaining>>
      BY DEF EdgeInv, ReplyInv
    <3>2. h2fErrRecovery # NoRecovery => h2fErrRecovery.rawChunksRemaining = 0
      BY <3>1
    <3> QED BY <3>2, RecoveryTypes
  <2>3. Finished /\ ~ Fresh
    BY <2>2 DEF Finished, Fresh, Replied
  <2>4. PICK m \in 0 .. Len(h2f) : Begun(m)
    BY <2>1 DEF DueInv
  <2>5. ToCome(m) = << >>
    BY <2>3, <2>4 DEF Begun, Due
  <2>6. /\ partial \in Seq(Words) /\ readBuffer \in Seq(Words)
        /\ h2fGot \in Seq(Seq(Words)) /\ Len(h2fGot) \in Nat
    BY H2FTypes
  <2>7. partial \o readBuffer = BehindOf(h2f, Len(h2fGot))
    <3>1. readBuffer \o << >> = readBuffer
      BY <2>6, Concat3
    <3> QED BY <2>4, <2>5, <3>1 DEF Begun
  <2>8. WordsBehind(Len(h2fGot)) = BehindOf(h2f, Len(h2fGot))
    BY DEF WordsBehind, BehindOf
  <2>9. h2fGot = [k \in 1 .. Len(h2fGot) |-> MessageWords(k, h2f[k])]
    <3>1. h2fGot = [k \in 1 .. Len(h2fGot) |-> h2fGot[k]]
      BY <2>6
    <3>2. \A k \in 1 .. Len(h2fGot) : h2fGot[k] = MessageWords(k, h2f[k])
      BY <2>1 DEF ClientInv
    <3> QED BY <3>1, <3>2
  <2> QED BY <2>7, <2>8, <2>9
<1> QED BY <1>1, H2FInvariant, PTL

(* A message whose payload is being read ends before the buffer does, so   *)
(* that its last word and an end mark are still to come; recovery starts   *)
(* at or before the errant word, which it has to reach.                    *)
THEOREM CountersCorrect == Spec => []CountersMeet
<1>1. EdgeInv /\ H2FInv => CountersMeet
  <2> SUFFICES ASSUME EdgeInv, H2FInv PROVE CountersMeet
    OBVIOUS
  <2>1. DueInv /\ ResumeInv /\ RecoveryInv
    BY DEF H2FInv, EdgeInv
  <2>2. rawReadChunksRemaining \in Nat /\ readDataChunksRemaining \in Nat /\ Len(buf) \in Nat
    BY H2FTypes
  <2>3. ASSUME readState = "CONT"
        PROVE  readDataChunksRemaining \in 1 .. rawReadChunksRemaining - 1
    <3> DEFINE d == readDataChunksRemaining
               raw == rawReadChunksRemaining
               b == Len(buf)
    <3>1. /\ h2fErrRecovery = NoRecovery /\ d > 0 /\ ~ noMoreReadData /\ Owed = d
          /\ ~ Replied /\ ~ Before /\ ~ Fresh
      <4>1. ~ Replied /\ ~ Before /\ hpc = "wait"
        BY <2>3, Phases
      <4> QED BY <2>1, <2>3, <4>1 DEF RecoveryInv, ResumeInv, Owed, Fresh
    <3>2. ~ Finished /\ Position = b - raw
      BY <2>3, <3>1 DEF Finished, Position
    <3>3. PICK m \in 0 .. Len(h2f) : Begun(m)
      BY <2>1 DEF DueInv
    <3>4. Holds(ToCome(m))
      BY <3>1, <3>2, <3>3 DEF Begun, Due
    <3>5. PICK words : words = ToCome(m)
      OBVIOUS
    <3>6. Len(words) = d + Len(BehindOf(h2f, m)) /\ Len(BehindOf(h2f, m)) \in Nat
      <4>1. Owed > 0 => m > 0 /\ Owed <= h2f[m]
        BY <3>3 DEF Begun
      <4>2. Len(ToCome(m)) = Owed + Len(BehindOf(h2f, m)) /\ BehindOf(h2f, m) \in Seq(Words)
        BY <4>1, ToComeType
      <4> QED BY <3>1, <3>5, <4>2
    <3>7. Position + Len(words) < b
      BY <3>4, <3>5 DEF Holds
    <3> DEFINE n == Len(BehindOf(h2f, m))
    <3>8. (b - raw) + (d + n) < b /\ n \in Nat
      BY <3>2, <3>6, <3>7
    <3> HIDE DEF n, d, raw, b
    <3>9. d \in 1 .. raw - 1
      BY <2>2, <3>1, <3>8 DEF d, raw, b
    <3> QED BY <3>9 DEF d, raw
  <2>4. ASSUME readState = "RECOVER"
        PROVE  h2fErrRecovery.rawChunksRemaining \in 1 .. rawReadChunksRemaining
    <3>1. /\ h2fErrRecovery # NoRecovery
          /\ h2fErrRecovery.rawChunksRemaining <= rawReadChunksRemaining
      BY <2>1, <2>4 DEF RecoveryInv
    <3>2. h2fErrRecovery.rawChunksRemaining \in Nat \ {0}
      BY <3>1, RecoveryTypes
    <3> QED BY <2>2, <3>1, <3>2
  <2> QED BY <2>3, <2>4 DEF CountersMeet
<1> QED BY <1>1, H2FInvariant, PTL

(* Every step of the channel is a step of the stream of messages, or none  *)
(* of it.                                                                  *)
LEMMA H2FStreamStep ==
  ASSUME EdgeInv, H2FInv, [Next]_vars
  PROVE  [H2FStream!Next]_(H2FStream!vars)
<1> DEFINE g == Len(h2fGot)
<1>0. h2f \in Seq(Nat) /\ Len(h2f) \in Nat /\ h2fGot \in Seq(Seq(Words)) /\ g \in Nat
  BY H2FTypes
<1>1. ASSUME UNCHANGED h2f PROVE Written' = Written
  BY <1>1 DEF Written, MessageWords
<1>2. CASE HostWrite
  <2>1. PICK chunks \in H2FPayloads : h2f' = Append(h2f, chunks)
    BY <1>2 DEF HostWrite
  <2>2. Len(h2f) < MaxH2F /\ UNCHANGED h2fGot
    BY <1>2 DEF HostWrite, clientVars
  <2> DEFINE n == Len(h2f) + 1
             message == MessageWords(n, chunks)
  <2>3. n \in 1 .. MaxH2F /\ chunks \in Nat /\ n \in Nat
    BY <1>0, <2>2, SizeConstants DEF Sizes
  <2>4. message \in Messages
    BY <2>3 DEF Messages
  <2>5. Len(h2f') = n /\ h2f'[n] = chunks /\ \A m \in 1 .. n - 1 : h2f'[m] = h2f[m]
    BY <1>0, <2>1, <2>3
  <2> HIDE DEF message
  <2>6. Written' = Append(Written, message)
    <3>1. Written' = [m \in 1 .. n |-> MessageWords(m, h2f'[m])]
      <4>1. Written' = [m \in 1 .. Len(h2f') |-> MessageWords(m, h2f'[m])]
        BY DEF Written, MessageWords
      <4> QED BY <2>5, <4>1
    <3>2. Append(Written, message) = [m \in 1 .. n |-> IF m = n THEN message ELSE Written[m]]
      <4>1. Len(Written) = n - 1
        BY <1>0 DEF Written
      <4> QED BY <1>0, <4>1 DEF Written
    <3>3. ASSUME NEW m \in 1 .. n
          PROVE  MessageWords(m, h2f'[m]) = IF m = n THEN message ELSE Written[m]
      <4>1. CASE m = n
        BY <2>5, <4>1 DEF message
      <4>2. CASE m # n
        <5>1. m \in 1 .. n - 1 /\ m \in 1 .. Len(h2f)
          BY <1>0, <4>2
        <5> QED BY <2>5, <4>2, <5>1 DEF Written
      <4> QED BY <4>1, <4>2
    <3> QED BY <3>1, <3>2, <3>3
  <2> QED BY <2>2, <2>4, <2>6 DEF H2FStream!Next, H2FStream!Send
<1>3. CASE ClientRead
  <2>1. UNCHANGED h2f
    BY <1>3 DEF ClientRead, hostVars
  <2>2. ClientInv' /\ EdgeInv'
    BY EdgeStep, H2FStep DEF H2FInv
  <2>3. h2fGot' = h2fGot \/ \E words : h2fGot' = Append(h2fGot, words)
    BY <1>3 DEF ClientRead
  <2>4. CASE h2fGot' = h2fGot
    BY <1>1, <2>1, <2>4 DEF H2FStream!vars
  <2>5. CASE \E words : h2fGot' = Append(h2fGot, words)
    <3> DEFINE got == h2fGot'
    <3>1. Len(got) = g + 1 /\ g + 1 <= Len(h2f)
          /\ \A k \in 1 .. g + 1 : got[k] = MessageWords(k, h2f[k])
      <4>1. Len(got) = g + 1
        BY <1>0, <2>5
      <4> QED BY <2>1, <2>2, <4>1 DEF ClientInv, MessageWords
    <3>2. got \in Seq(Seq(Words))
      BY <2>2 DEF EdgeInv, TypeInv, ClientTypes, Words
    <3> HIDE DEF got
    <3>3. got = [k \in 1 .. g + 1 |-> MessageWords(k, h2f[k])]
      <4>1. got = [k \in 1 .. g + 1 |-> got[k]]
        BY <3>1, <3>2
      <4> QED BY <3>1, <4>1
    <3>4. g + 1 \in g + 1 .. Len(Written)
      BY <1>0, <3>1 DEF Written
    <3>5. SubSeq(Written, 1, g + 1) = [k \in 1 .. g + 1 |-> MessageWords(k, h2f[k])]
      <4>1. SubSeq(Written, 1, g + 1) = [k \in 1 .. g + 1 |-> Written[k]]
        BY <1>0, <3>1 DEF Written
      <4>2. \A k \in 1 .. g + 1 : Written[k] = MessageWords(k, h2f[k])
        BY <1>0, <3>1 DEF Written
      <4> QED BY <4>1, <4>2
    <3>6. h2fGot' = SubSeq(Written, 1, g + 1)
      BY <3>3, <3>5 DEF got
    <3> QED BY <1>1, <2>1, <3>4, <3>6 DEF H2FStream!Next, H2FStream!Deliver
  <2> QED BY <2>3, <2>4, <2>5
<1>4. CASE UNCHANGED <<h2f, h2fGot>>
  BY <1>1, <1>4 DEF H2FStream!vars
<1>5. CASE UNCHANGED vars
  BY <1>4, <1>5 DEF vars, hostVars, clientVars
<1>6. CASE Host
  BY <1>4, <1>6 DEF Host, HostPrepare, HostReceive, clientVars
<1>7. CASE LinkChunk \/ LinkError
  BY <1>4, <1>7 DEF LinkChunk, LinkError, hostVars, clientVars
<1>8. CASE Rules
  BY <1>4, <1>8 DEF Rules, MarshallData, AcceptRequest, F2HCompleteWrite, hostVars, clientVars
<1>9. CASE ReadSide
  <2>1. ReadRule
    BY <1>9 DEF ReadSide, H2FStartLast, H2FStartIgnore, H2FStartError, H2FStartMessage,
       H2FContRead, ConsumeErrantReadData, RecoverSkip, RecoverResume
  <2> QED BY <1>4, <2>1 DEF ReadRule, hostVars, clientVars
<1>10. CASE WriteSide \/ ClientWrite
  <2>1. UNCHANGED <<hostVars, clientVars>>
    BY <1>10 DEF WriteSide, ClientWrite, F2HTryWrite, F2HStartWrite, F2HContStart, F2HContWrite,
       F2HContFill, H2FWriteDummy, WriteRule
  <2> QED BY <1>4, <2>1 DEF hostVars, clientVars
<1> QED BY <1>2, <1>3, <1>5, <1>6, <1>7, <1>8, <1>9, <1>10 DEF Next

(* The FPGA's client gets the messages the host wrote, each once, whole    *)
(* and in order: what it took before an error is not given to it again     *)
(* with the resend, and nothing between is skipped.                        *)
THEOREM H2FInOrderCorrect == Spec => H2FInOrder
<1>1. Init => H2FStream!Init
  BY DEF Init, Written, H2FStream!Init
<1>2. EdgeInv /\ H2FInv /\ [Next]_vars => [H2FStream!Next]_(H2FStream!vars)
  BY H2FStreamStep
<1> QED BY <1>1, <1>2, H2FInvariant, PTL DEF Spec, H2FInOrder, H2FStream!Spec
=============================================================================
