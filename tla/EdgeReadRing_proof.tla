------------------------- MODULE EdgeReadRing_proof -------------------------
(***************************************************************************)
(* Proofs about EdgeReadRing: the I/O thread and the reader never use a    *)
(* window at the same time, and the client gets the FPGA's messages once   *)
(* each, whole and in order, for any number of windows, any sizes of       *)
(* messages and packets and any words of no data between them.             *)
(*                                                                         *)
(* Ownership of the windows rests on the order of the words: a word that   *)
(* is not a header would be taken for a message without payload, and a     *)
(* pseudo-DMA message without payload is the one case in which the reader  *)
(* gives a window back and goes on to use it (run empty_pseudo_dma).  So   *)
(* everything is one invariant.                                            *)
(***************************************************************************)
EXTENDS EdgeReadRing, FiniteSetTheorems, SequenceTheorems, WellFoundedInduction, TLAPS

Words == Nat \X Nat

MessageType == [chunks : Nat, dma : BOOLEAN]

-----------------------------------------------------------------------------
(* Induction over the numbers, for sets. *)

LEMMA LeastNumber ==
  ASSUME NEW T, T \subseteq Nat, T # {}
  PROVE  \E x \in T : \A y \in T : ~ (y < x)
<1> DEFINE I == {0 .. n - 1 : n \in T}
<1>1. IsWellFoundedOn(StrictSubsetOrdering(Nat), FiniteSubsetsOf(Nat))
  BY FS_StrictSubsetOrderingWellFounded
<1>2. I \subseteq FiniteSubsetsOf(Nat) /\ I # {}
  <2>1. ASSUME NEW n \in T PROVE 0 .. n - 1 \subseteq Nat /\ IsFiniteSet(0 .. n - 1)
    BY FS_Interval
  <2> QED BY <2>1 DEF FiniteSubsetsOf
<1> HIDE DEF I
<1>3. PICK i \in I : \A j \in I : ~ (<<j, i>> \in StrictSubsetOrdering(Nat))
  BY <1>1, <1>2, WFMin
<1>4. PICK x \in T : i = 0 .. x - 1
  BY <1>3 DEF I
<1>5. ASSUME NEW y \in T, y < x PROVE FALSE
  <2> DEFINE j == 0 .. y - 1
  <2>1. j \in I
    BY DEF I
  <2>2. j \subseteq i /\ j # i /\ j \subseteq Nat /\ i \subseteq Nat
    <3>1. y \in i /\ y \notin j
      BY <1>4, <1>5
    <3> QED BY <3>1, <1>4, <1>5
  <2> HIDE DEF j
  <2>3. <<j, i>> \in StrictSubsetOrdering(Nat)
    BY <2>2 DEF StrictSubsetOrdering
  <2> QED BY <2>1, <2>3, <1>3
<1> QED BY <1>5

LEMMA SetInduction ==
  ASSUME NEW S, 0 \in S, \A n \in Nat : n \in S => n + 1 \in S
  PROVE  Nat \subseteq S
<1> DEFINE T == {n \in Nat : n \notin S}
<1>1. SUFFICES ASSUME T # {} PROVE FALSE
  OBVIOUS
<1>2. PICK x \in T : \A y \in T : ~ (y < x)
  BY <1>1, LeastNumber
<1>3. x \in Nat /\ x \notin S /\ x # 0
  OBVIOUS
<1>4. x - 1 \in Nat /\ x - 1 \in S
  BY <1>3, <1>2
<1> QED BY <1>3, <1>4

-----------------------------------------------------------------------------
(* The words of messages M one after another. *)

After(M, w) == IF w[2] < M[w[1]].chunks THEN <<w[1], w[2] + 1>> ELSE <<w[1] + 1, 0>>

(* Word w where e is expected; f is expected behind it. *)
Passes(M, w, e, f) ==
  \/ w = NoData /\ e[2] = 0 /\ f = e
  \/ /\ w = e
     /\ w[1] \in 1 .. Len(M) /\ w[2] \in 0 .. M[w[1]].chunks
     /\ f = After(M, w)

(* The words of s are those from e on and up to f, with NODATA in between. *)
Carries(M, s, e, f) ==
  \E exp \in [0 .. Len(s) -> Words] :
    /\ exp[0] = e /\ exp[Len(s)] = f
    /\ \A i \in 1 .. Len(s) : Passes(M, s[i], exp[i - 1], exp[i])

LEMMA CarriesNothing ==
  ASSUME NEW M, NEW e \in Words, NEW f \in Words
  PROVE  Carries(M, << >>, e, f) <=> e = f
<1>1. ASSUME e = f PROVE Carries(M, << >>, e, f)
  <2> DEFINE exp == [i \in 0 .. 0 |-> e]
  <2>1. exp \in [0 .. Len(<< >>) -> Words] /\ exp[0] = e /\ exp[Len(<< >>)] = f
    BY <1>1
  <2> HIDE DEF exp
  <2>2. 1 .. Len(<< >>) = {}
    OBVIOUS
  <2> QED BY <2>1, <2>2 DEF Carries
<1> QED BY <1>1 DEF Carries

LEMMA CarriesConcat ==
  ASSUME NEW M, NEW s \in Seq(Words), NEW t \in Seq(Words),
         NEW e \in Words, NEW f \in Words, NEW g \in Words,
         Carries(M, s, e, f), Carries(M, t, f, g)
  PROVE  Carries(M, s \o t, e, g)
<1>1. PICK a \in [0 .. Len(s) -> Words] :
        /\ a[0] = e /\ a[Len(s)] = f
        /\ \A i \in 1 .. Len(s) : Passes(M, s[i], a[i - 1], a[i])
  BY DEF Carries
<1>2. PICK b \in [0 .. Len(t) -> Words] :
        /\ b[0] = f /\ b[Len(t)] = g
        /\ \A i \in 1 .. Len(t) : Passes(M, t[i], b[i - 1], b[i])
  BY DEF Carries
<1> DEFINE m == Len(s)
<1> DEFINE n == Len(t)
<1> DEFINE u == s \o t
<1>3. /\ m \in Nat /\ n \in Nat /\ u \in Seq(Words) /\ Len(u) = m + n
      /\ \A i \in 1 .. m : u[i] = s[i]
      /\ \A i \in m + 1 .. m + n : u[i] = t[i - m]
  BY ConcatProperties
<1> HIDE DEF u
<1> DEFINE c == [i \in 0 .. m + n |-> IF i <= m THEN a[i] ELSE b[i - m]]
<1>4. c \in [0 .. m + n -> Words] /\ c[0] = e
  BY <1>1, <1>2, <1>3
<1>5. c[m + n] = g
  BY <1>1, <1>2, <1>3
<1>6. ASSUME NEW i \in 1 .. m + n PROVE Passes(M, u[i], c[i - 1], c[i])
  <2>1. CASE i <= m
    BY <2>1, <1>1, <1>3
  <2>2. CASE i > m
    <3>1. i - m \in 1 .. n /\ u[i] = t[i - m] /\ c[i] = b[i - m]
      BY <2>2, <1>3
    <3>2. c[i - 1] = b[i - m - 1]
      <4>1. CASE i = m + 1
        BY <4>1, <1>1, <1>2, <1>3
      <4>2. CASE i > m + 1
        BY <4>2, <1>3
      <4>3. i = m + 1 \/ i > m + 1
        <5> HIDE DEF c, m, n
        <5> QED BY <2>2, <1>3
      <4> QED BY <4>1, <4>2, <4>3
    <3> HIDE DEF c
    <3>3. Passes(M, t[i - m], b[i - m - 1], b[i - m])
      BY <3>1, <1>2
    <3> QED BY <3>1, <3>2, <3>3
  <2> QED BY <2>1, <2>2, <1>3
<1> HIDE DEF c
<1> QED BY <1>3, <1>4, <1>5, <1>6 DEF Carries, u

LEMMA CarriesSplit ==
  ASSUME NEW M, NEW s \in Seq(Words), NEW e \in Words, NEW f \in Words,
         Carries(M, s, e, f), NEW n \in 0 .. Len(s)
  PROVE  \E g \in Words : /\ Carries(M, SubSeq(s, 1, n), e, g)
                          /\ Carries(M, SubSeq(s, n + 1, Len(s)), g, f)
<1>1. PICK a \in [0 .. Len(s) -> Words] :
        /\ a[0] = e /\ a[Len(s)] = f
        /\ \A i \in 1 .. Len(s) : Passes(M, s[i], a[i - 1], a[i])
  BY DEF Carries
<1> DEFINE m == Len(s)
<1>2. m \in Nat /\ n \in 0 .. m /\ a[n] \in Words
  BY <1>1
<1> DEFINE p == SubSeq(s, 1, n)
<1> DEFINE q == SubSeq(s, n + 1, m)
<1>3. /\ p \in Seq(Words) /\ Len(p) = n /\ \A i \in 1 .. n : p[i] = s[i]
      /\ q \in Seq(Words) /\ Len(q) = m - n /\ \A i \in 1 .. m - n : q[i] = s[n + i]
  BY <1>2
<1> HIDE DEF p, q
<1>4. Carries(M, p, e, a[n])
  <2> DEFINE b == [i \in 0 .. n |-> a[i]]
  <2>1. b \in [0 .. Len(p) -> Words] /\ b[0] = e /\ b[Len(p)] = a[n]
    BY <1>1, <1>2, <1>3
  <2>2. \A i \in 1 .. Len(p) : Passes(M, p[i], b[i - 1], b[i])
    BY <1>1, <1>2, <1>3
  <2> QED BY <2>1, <2>2 DEF Carries
<1>5. Carries(M, q, a[n], f)
  <2> DEFINE b == [i \in 0 .. m - n |-> a[n + i]]
  <2>1. b \in [0 .. Len(q) -> Words] /\ b[0] = a[n] /\ b[Len(q)] = f
    BY <1>1, <1>2, <1>3
  <2>2. ASSUME NEW i \in 1 .. Len(q) PROVE Passes(M, q[i], b[i - 1], b[i])
    <3>1. /\ n + i \in 1 .. m /\ q[i] = s[n + i] /\ b[i] = a[n + i]
          /\ b[i - 1] = a[n + i - 1]
      BY <1>2, <1>3
    <3> HIDE DEF b
    <3> QED BY <3>1, <1>1
  <2> QED BY <2>1, <2>2 DEF Carries
<1> QED BY <1>2, <1>4, <1>5 DEF p, q
(* Sending one more message changes nothing for the words already sent.    *)
LEMMA CarriesMonotonic ==
  ASSUME NEW M \in Seq(MessageType), NEW x \in MessageType,
         NEW s \in Seq(Words), NEW e \in Words, NEW f \in Words, Carries(M, s, e, f)
  PROVE  Carries(Append(M, x), s, e, f)
<1> DEFINE N == Append(M, x)
<1>1. N \in Seq(MessageType) /\ Len(N) = Len(M) + 1 /\ \A m \in 1 .. Len(M) : N[m] = M[m]
  BY AppendProperties
<1> HIDE DEF N
<1>2. PICK a \in [0 .. Len(s) -> Words] :
        /\ a[0] = e /\ a[Len(s)] = f
        /\ \A i \in 1 .. Len(s) : Passes(M, s[i], a[i - 1], a[i])
  BY DEF Carries
<1>3. ASSUME NEW v, NEW w, NEW u, Passes(M, v, w, u) PROVE Passes(N, v, w, u)
  <2>1. CASE v = NoData /\ w[2] = 0 /\ u = w
    BY <2>1 DEF Passes
  <2>2. CASE v = w /\ v[1] \in 1 .. Len(M) /\ v[2] \in 0 .. M[v[1]].chunks /\ u = After(M, v)
    <3>1. N[v[1]] = M[v[1]] /\ v[1] \in 1 .. Len(N)
      BY <2>2, <1>1
    <3> QED BY <2>2, <3>1 DEF Passes, After
  <2> QED BY <1>3, <2>1, <2>2 DEF Passes
<1>4. \A i \in 1 .. Len(s) : Passes(N, s[i], a[i - 1], a[i])
  BY <1>2, <1>3
<1>5. Carries(N, s, e, f)
  BY <1>2, <1>4 DEF Carries
<1> QED BY <1>5 DEF N

(* The words of the last message follow those before it. *)
LEMMA CarriesMessage ==
  ASSUME NEW M \in Seq(MessageType), M # << >>
  PROVE  /\ WordsOf(Len(M), M[Len(M)].chunks) \in Seq(Words)
         /\ Carries(M, WordsOf(Len(M), M[Len(M)].chunks), <<Len(M), 0>>, <<Len(M) + 1, 0>>)
<1> DEFINE m == Len(M)
<1> DEFINE c == M[m].chunks
<1> DEFINE s == WordsOf(m, c)
<1>1. m \in Nat /\ m >= 1 /\ c \in Nat
  <2>1. m \in Nat \ {0}
    BY EmptySeq
  <2>2. M[m] \in MessageType
    BY <2>1, ElementOfSeq
  <2> QED BY <2>1, <2>2 DEF MessageType
<1> HIDE DEF c
<1>2. s \in Seq(Words) /\ Len(s) = c + 1 /\ \A i \in 1 .. c + 1 : s[i] = <<m, i - 1>>
  BY <1>1 DEF WordsOf, Words
<1> HIDE DEF s
<1> DEFINE a == [i \in 0 .. c + 1 |-> IF i <= c THEN <<m, i>> ELSE <<m + 1, 0>>]
<1>3. a \in [0 .. Len(s) -> Words] /\ a[0] = <<m, 0>> /\ a[Len(s)] = <<m + 1, 0>>
  BY <1>1, <1>2 DEF Words
<1>4. ASSUME NEW i \in 1 .. Len(s) PROVE Passes(M, s[i], a[i - 1], a[i])
  <2>1. i \in 1 .. c + 1 /\ i - 1 \in 0 .. c
    BY <1>1, <1>2
  <2>2. s[i] = <<m, i - 1>> /\ a[i - 1] = <<m, i - 1>>
    BY <2>1, <1>1, <1>2
  <2>3. a[i] = IF i <= c THEN <<m, i>> ELSE <<m + 1, 0>>
    BY <2>1, <1>1
  <2> HIDE DEF a
  <2>4. a[i] = After(M, s[i])
    BY <2>1, <2>2, <2>3, <1>1 DEF After, c
  <2> QED BY <2>1, <2>2, <2>4, <1>1 DEF Passes, c
<1> HIDE DEF a
<1>5. Carries(M, s, <<m, 0>>, <<m + 1, 0>>)
  BY <1>3, <1>4 DEF Carries
<1> QED BY <1>2, <1>5 DEF s, c

(* The place behind place n of message m. *)
Place(M, m, n) == IF n = 0 \/ n <= M[m].chunks THEN <<m, n>> ELSE <<m + 1, 0>>

(* Within a message its words come without a gap. *)
LEMMA CarriesRun ==
  ASSUME NEW M \in Seq(MessageType), NEW s \in Seq(Words), NEW f \in Words,
         NEW m \in 1 .. Len(M), NEW n \in 1 .. M[m].chunks, Carries(M, s, <<m, n>>, f),
         NEW k \in 0 .. Len(s), n + k <= M[m].chunks + 1
  PROVE  /\ \A i \in 1 .. k : s[i] = <<m, n + i - 1>>
         /\ Carries(M, SubSeq(s, k + 1, Len(s)), Place(M, m, n + k), f)
<1> DEFINE p == SubSeq(s, 1, k)
<1> DEFINE c == M[m].chunks
<1>1. c \in Nat /\ m \in Nat
  <2>1. M[m] \in MessageType
    BY ElementOfSeq
  <2> QED BY <2>1 DEF MessageType
<1>2. PICK g \in Words : Carries(M, p, <<m, n>>, g) /\ Carries(M, SubSeq(s, k + 1, Len(s)), g, f)
  <2>1. <<m, n>> \in Words
    BY <1>1 DEF Words
  <2> QED BY <2>1, CarriesSplit
<1>3. p \in Seq(Words) /\ Len(p) = k /\ \A i \in 1 .. k : p[i] = s[i]
  OBVIOUS
<1> HIDE DEF p, c
<1>4. PICK a \in [0 .. k -> Words] :
        /\ a[0] = <<m, n>> /\ a[k] = g
        /\ \A i \in 1 .. k : Passes(M, p[i], a[i - 1], a[i])
  BY <1>2, <1>3 DEF Carries
<1> DEFINE S == {i \in Nat : i <= k => /\ a[i] = Place(M, m, n + i)
                                       /\ i >= 1 => p[i] = <<m, n + i - 1>>}
<1>5. 0 \in S
  BY <1>4, <1>1 DEF Place, c
<1>6. ASSUME NEW i \in Nat, i \in S PROVE i + 1 \in S
  <2>1. SUFFICES ASSUME i + 1 <= k
                 PROVE  a[i + 1] = Place(M, m, n + i + 1) /\ p[i + 1] = <<m, n + i>>
    BY <1>1
  <2>2. i + 1 \in 1 .. k /\ n + i <= c /\ n + i # 0 /\ i <= k /\ n + i \in Nat
    BY <2>1, <1>1 DEF c
  <2>3. a[i] = <<m, n + i>>
    BY <1>6, <2>2 DEF Place, c
  <2>4. Passes(M, p[i + 1], a[i], a[i + 1])
    <3>1. i + 1 - 1 = i
      OBVIOUS
    <3> QED BY <1>4, <2>2, <3>1
  <2>5. p[i + 1] = <<m, n + i>> /\ a[i + 1] = After(M, <<m, n + i>>)
    <3>1. Passes(M, p[i + 1], <<m, n + i>>, a[i + 1]) /\ <<m, n + i>>[2] # 0
      BY <2>2, <2>3, <2>4
    <3> QED BY <3>1 DEF Passes
  <2>6. After(M, <<m, n + i>>) = Place(M, m, n + i + 1)
    BY <2>2, <1>1 DEF After, Place, c
  <2> QED BY <2>5, <2>6
<1>7. Nat \subseteq S
  <2> HIDE DEF S
  <2> QED BY <1>5, <1>6, SetInduction
<1>8. g = Place(M, m, n + k) /\ \A i \in 1 .. k : p[i] = <<m, n + i - 1>>
  BY <1>7, <1>4
<1> QED BY <1>2, <1>3, <1>8

(* The first word is the one expected, or NODATA if that is a header. *)
LEMMA CarriesFirst ==
  ASSUME NEW M \in Seq(MessageType), NEW s \in Seq(Words), NEW e \in Words, NEW f \in Words,
         Carries(M, s, e, f), s # << >>
  PROVE  \/ /\ s[1] = NoData /\ e[2] = 0
            /\ Carries(M, SubSeq(s, 2, Len(s)), e, f)
         \/ /\ s[1] = e /\ e[1] \in 1 .. Len(M) /\ e[2] \in 0 .. M[e[1]].chunks
            /\ Carries(M, SubSeq(s, 2, Len(s)), After(M, e), f)
<1>1. Len(s) \in Nat \ {0}
  BY EmptySeq
<1>2. PICK g \in Words : Carries(M, SubSeq(s, 1, 1), e, g) /\ Carries(M, SubSeq(s, 2, Len(s)), g, f)
  <2>1. 1 \in 0 .. Len(s) /\ 1 + 1 = 2
    BY <1>1
  <2>2. PICK g \in Words :
          Carries(M, SubSeq(s, 1, 1), e, g) /\ Carries(M, SubSeq(s, 1 + 1, Len(s)), g, f)
    BY <2>1, CarriesSplit
  <2> QED BY <2>1, <2>2
<1>3. SubSeq(s, 1, 1) \in Seq(Words) /\ Len(SubSeq(s, 1, 1)) = 1 /\ SubSeq(s, 1, 1)[1] = s[1]
  BY <1>1
<1>4. Passes(M, s[1], e, g)
  BY <1>2, <1>3 DEF Carries
<1> QED BY <1>2, <1>4 DEF Passes

LEMMA FillLength ==
  ASSUME NEW s \in Seq(Words), NEW packet \in Packets(s)
  PROVE  packet \in Seq(Words) /\ Len(packet) >= Len(s)
<1>1. CASE packet = s
  BY <1>1
<1>2. CASE packet # s
  <2>1. PICK at \in Headers(s), fill \in 1 .. MaxFill : packet = WithNoData(s, at, fill)
    BY <1>2 DEF Packets
  <2> DEFINE p == SubSeq(s, 1, at - 1)
  <2> DEFINE q == SubSeq(s, at, Len(s))
  <2> DEFINE z == [i \in 1 .. fill |-> NoData]
  <2>2. /\ p \in Seq(Words) /\ Len(p) = at - 1
        /\ q \in Seq(Words) /\ Len(q) = Len(s) - at + 1
        /\ z \in Seq(Words) /\ Len(z) = fill
        /\ fill \in Nat /\ at \in 1 .. Len(s) /\ Len(s) \in Nat
    BY ReadRingAssumption DEF NoData, Words, Headers
  <2> HIDE DEF p, q, z
  <2>3. p \o z \in Seq(Words) /\ Len(p \o z) = Len(p) + Len(z)
    BY <2>2, ConcatProperties
  <2>4. (p \o z) \o q \in Seq(Words) /\ Len((p \o z) \o q) = Len(p \o z) + Len(q)
    BY <2>2, <2>3, ConcatProperties
  <2>5. Len((p \o z) \o q) = at - 1 + fill + (Len(s) - at + 1)
    BY <2>2, <2>3, <2>4
  <2>6. Len((p \o z) \o q) >= Len(s)
    BY <2>2, <2>5
  <2> QED BY <2>1, <2>4, <2>6 DEF p, q, z, WithNoData
<1> QED BY <1>1, <1>2

(* NODATA before a header. *)
LEMMA CarriesFilled ==
  ASSUME NEW M \in Seq(MessageType), NEW s \in Seq(Words), NEW e \in Words, NEW f \in Words,
         Carries(M, s, e, f), NEW packet \in Packets(s)
  PROVE  Carries(M, packet, e, f)
<1>1. CASE packet = s
  BY <1>1
<1>2. CASE packet # s
  <2>1. PICK at \in Headers(s), fill \in 1 .. MaxFill : packet = WithNoData(s, at, fill)
    BY <1>2 DEF Packets
  <2> DEFINE p == SubSeq(s, 1, at - 1)
  <2> DEFINE q == SubSeq(s, at, Len(s))
  <2> DEFINE z == [i \in 1 .. fill |-> NoData]
  <2>2. /\ p \in Seq(Words) /\ Len(p) = at - 1
        /\ q \in Seq(Words) /\ Len(q) = Len(s) - at + 1 /\ q[1] = s[at]
        /\ z \in Seq(Words) /\ Len(z) = fill /\ \A i \in 1 .. fill : z[i] = NoData
        /\ fill \in Nat /\ at \in 1 .. Len(s) /\ Len(s) \in Nat
    BY SMTT(30), ReadRingAssumption DEF NoData, Words, Headers
  <2>3. PICK g \in Words : Carries(M, p, e, g) /\ Carries(M, q, g, f)
    <3>1. at - 1 \in 0 .. Len(s) /\ at - 1 + 1 = at
      BY <2>2
    <3> QED BY <3>1, CarriesSplit
  <2> HIDE DEF p, q, z
  <2>4. g[2] = 0
    <3>1. q # << >>
      BY <2>2
    <3>2. \/ g[2] = 0 \/ q[1] = g
      BY <2>2, <2>3, <3>1, CarriesFirst
    <3> QED BY <3>2, <2>1, <2>2 DEF Headers
  <2>5. Carries(M, z, g, g)
    <3> DEFINE a == [i \in 0 .. fill |-> g]
    <3>1. a \in [0 .. Len(z) -> Words] /\ a[0] = g /\ a[Len(z)] = g
      BY <2>2
    <3>2. \A i \in 1 .. Len(z) : Passes(M, z[i], a[i - 1], a[i])
      BY <2>2, <2>4 DEF Passes
    <3> HIDE DEF a
    <3> QED BY <3>1, <3>2 DEF Carries
  <2>6. p \o z \in Seq(Words) /\ Carries(M, p \o z, e, g)
    BY <2>2, <2>3, <2>5, CarriesConcat, ConcatProperties
  <2>7. Carries(M, (p \o z) \o q, e, f)
    BY <2>2, <2>3, <2>6, CarriesConcat
  <2> QED BY <2>1, <2>7 DEF p, q, z, WithNoData
<1> QED BY <1>1, <1>2
-----------------------------------------------------------------------------
(* The inductive invariant. *)

TypeInv ==
  /\ nWords \in [RingWindows -> Nat]
  /\ nextReadWordIdx \in [RingWindows -> Nat]
  /\ data \in [RingWindows -> Seq(Words)]
  /\ curReadWindow \in RingWindows /\ active \in RingWindows
  /\ rpc \in Calls \cup {"idle", "handler", "advance"}
  /\ seen \in Nat \cup {-1}
  /\ need \in Nat /\ rIdx \in Nat /\ useful \in Nat
  /\ got \in Seq(Words)
  /\ received \in Seq(Seq(Words))
  /\ iopc \in {"start", "transact", "index", "handOff"}
  /\ messages \in Seq(Messages)
  /\ pending \in Seq(Words)

(* A window with words for the reader, and one with words of the FPGA,     *)
(* which the I/O thread may not have handed over yet.                      *)
Used(w)   == nWords[w] # 0
Fills     == iopc \in {"index", "handOff"}
Filled(w) == Used(w) \/ (Fills /\ w = active)

(* Windows from c to w along the ring. *)
Steps(c, w) == IF w >= c THEN w - c ELSE w - c + NumReadWindows - 1

(* The window that the FPGA fills next. *)
Front == IF Fills THEN NextReadWindow(active) ELSE active

(* The filled windows are those from the reader's up to that one. *)
ShapeInv ==
  \/ \A w \in RingWindows : Filled(w) <=> Steps(curReadWindow, w) < Steps(curReadWindow, Front)
  \/ Front = curReadWindow /\ \A w \in RingWindows : Filled(w)

WindowInv ==
  /\ \A w \in RingWindows : Used(w) =>
       /\ nWords[w] = Len(data[w])
       /\ nextReadWordIdx[w] <= nWords[w]
       /\ w # curReadWindow => nextReadWordIdx[w] = 0
  /\ Fills => useful = Len(data[active]) /\ useful # 0
  /\ iopc = "handOff" => nextReadWordIdx[active] = 0
  /\ iopc # "start" => nWords[active] = 0

(* The message being read. *)
Current == Len(received) + 1

(* Places of TryRead between two messages, and behind a header. *)
Between == {"idle", "first", "again", "nextWord", "dmaEnd"}
Inside  == {"dma", "handler", "body", "bodyWord", "end"}

(* What the reader knows at each place of TryRead.                         *)
ReaderInv ==
  /\ seen # -1 => rpc \in Calls
  /\ seen > 0 => nWords[curReadWindow] = seen
  /\ rpc \in Between => got = << >>
  /\ rpc \in Inside =>
       /\ Current <= Len(messages)
       /\ Len(got) >= 1 /\ Len(got) + need = messages[Current].chunks + 1
       /\ \A i \in 1 .. Len(got) : got[i] = <<Current, i - 1>>
  /\ rpc \in {"dma", "handler"} => Len(got) = 1 /\ messages[Current].dma
  /\ rpc \in {"body", "bodyWord"} => need # 0
  /\ rpc = "end" => need = 0
  /\ rpc \in {"handler", "advance"} =>
       Used(curReadWindow) /\ Idx + need <= nWords[curReadWindow] /\ need # 0
  /\ rpc = "advance" =>
       /\ Current <= Len(messages) /\ need = messages[Current].chunks
       /\ got = MessageWords(Current) /\ rIdx = Idx

ReceivedInv ==
  /\ Len(received) <= Len(messages)
  /\ \A m \in 1 .. Len(received) : received[m] = MessageWords(m)

(* The word that the reader takes from its window next, unless NODATA.     *)
Expected ==
  Place(messages, Current, IF rpc = "advance" THEN 1 ELSE Len(got))

Unread(w) ==
  IF Used(w) THEN SubSeq(data[w], nextReadWordIdx[w] + 1, Len(data[w])) ELSE data[w]

(* Behind window w the words go on in the next one, or with the words that *)
(* are in no packet yet.                                                   *)
Behind(first, last, w) ==
  IF Filled(NextReadWindow(w)) /\ NextReadWindow(w) # curReadWindow
  THEN first[NextReadWindow(w)] ELSE last

(* From the reader's place through the filled windows and the pending      *)
(* words the messages follow one another up to the last one sent.          *)
Chained(first, last) ==
  /\ Expected = IF Filled(curReadWindow) THEN first[curReadWindow] ELSE last
  /\ \A w \in RingWindows :
       Filled(w) => Carries(messages, Unread(w), first[w], Behind(first, last, w))
  /\ Carries(messages, pending, last, <<Len(messages) + 1, 0>>)

ChainInv == \E first \in [RingWindows -> Words], last \in Words : Chained(first, last)

ReadInv ==
  TypeInv /\ ShapeInv /\ WindowInv /\ ReaderInv /\ ReceivedInv /\ ChainInv

LEMMA MessageTypes ==
  ASSUME NEW M \in Seq(Messages)
  PROVE  /\ M \in Seq(MessageType)
         /\ \A m \in 1 .. Len(M) : M[m] \in MessageType /\ M[m] \in Messages
<1>1. Messages \subseteq MessageType
  BY ReadRingAssumption DEF Messages, MessageType
<1>2. \A m \in 1 .. Len(M) : M[m] \in Messages
  BY ElementOfSeq
<1> QED BY <1>1, <1>2, SeqMonotonic

LEMMA RingFacts ==
  /\ RingWindows \subseteq Nat
  /\ \A w \in RingWindows : NextReadWindow(w) \in RingWindows /\ NextReadWindow(w) # w
  /\ \A v \in RingWindows, w \in RingWindows : NextReadWindow(v) = NextReadWindow(w) => v = w
BY ReadRingAssumption DEF RingWindows, NextReadWindow

(* Going on by one window. *)
LEMMA NextSteps ==
  ASSUME NEW c \in RingWindows, NEW v \in RingWindows
  PROVE  /\ Steps(c, v) \in 0 .. NumReadWindows - 2
         /\ Steps(c, v) = 0 <=> v = c
         /\ Steps(c, NextReadWindow(v)) =
              IF NextReadWindow(v) = c THEN 0 ELSE Steps(c, v) + 1
         /\ NextReadWindow(v) = c => Steps(c, v) = NumReadWindows - 2
         /\ Steps(NextReadWindow(c), v) =
              IF v = c THEN NumReadWindows - 2 ELSE Steps(c, v) - 1
BY ReadRingAssumption DEF RingWindows, NextReadWindow, Steps

LEMMA SameSteps ==
  ASSUME NEW c \in RingWindows, NEW v \in RingWindows, NEW w \in RingWindows,
         Steps(c, v) = Steps(c, w)
  PROVE  v = w
BY ReadRingAssumption DEF RingWindows, Steps

LEMMA InitInvariant == Init => ReadInv
<1> SUFFICES ASSUME Init PROVE ReadInv
  OBVIOUS
<1>0. 0 \in RingWindows
  BY ReadRingAssumption DEF RingWindows
<1>1. TypeInv
  BY <1>0, EmptySeq DEF Init, TypeInv, Calls
<1>2. ShapeInv /\ WindowInv /\ ReaderInv /\ ReceivedInv
  <2>1. \A w \in RingWindows : ~ Filled(w) /\ ~ Used(w)
    BY DEF Init, Filled, Used, Fills
  <2>2. ShapeInv
    <3>1. Front = curReadWindow
      BY DEF Init, Front, Fills
    <3>2. \A w \in RingWindows : Steps(curReadWindow, w) \in Nat
      BY <1>0, NextSteps DEF Init
    <3>3. Steps(curReadWindow, Front) = 0
      BY <1>0, <3>1, NextSteps DEF Init
    <3> QED BY <2>1, <3>2, <3>3 DEF ShapeInv
  <2> QED BY <1>0, <2>1, <2>2 DEF Init, WindowInv, ReaderInv, ReceivedInv, Fills, Between, Inside
<1>3. ChainInv
  <2> DEFINE first == [w \in RingWindows |-> <<1, 0>>]
  <2>1. first \in [RingWindows -> Words] /\ <<1, 0>> \in Words
    BY DEF Words
  <2>2. Expected = <<1, 0>>
    BY DEF Init, Expected, Current, Place
  <2>3. \A w \in RingWindows : ~ Filled(w)
    BY DEF Init, Filled, Used, Fills
  <2>4. Carries(messages, pending, <<1, 0>>, <<Len(messages) + 1, 0>>)
    BY <2>1, CarriesNothing DEF Init
  <2>5. Chained(first, <<1, 0>>)
    BY <1>0, <2>2, <2>3, <2>4 DEF Chained, Init
  <2> HIDE DEF first
  <2> QED BY <2>1, <2>5 DEF ChainInv
<1> QED BY <1>1, <1>2, <1>3 DEF ReadInv
-----------------------------------------------------------------------------
(* What the reader does to the ring: it takes words of its window, gives   *)
(* an emptied window back, or leaves the ring alone.                       *)

Takes(n) ==
  /\ Used(curReadWindow) /\ Idx + n <= nWords[curReadWindow]
  /\ nextReadWordIdx' = [nextReadWordIdx EXCEPT ![curReadWindow] = @ + n]
  /\ UNCHANGED <<nWords, data, curReadWindow>>

GivesBack ==
  /\ Used(curReadWindow) /\ Idx = nWords[curReadWindow]
  /\ nWords' = [nWords EXCEPT ![curReadWindow] = 0]
  /\ curReadWindow' = NextReadWindow(curReadWindow)
  /\ UNCHANGED <<nextReadWordIdx, data>>

LeavesRing == UNCHANGED <<windowVars, curReadWindow>>

LEMMA Released ==
  ASSUME TypeInv, WindowInv, ReaderInv, seen # -1, Release,
         UNCHANGED <<nextReadWordIdx, data>>
  PROVE  \/ GivesBack /\ seen # 0
         \/ LeavesRing /\ (Remaining # 0 \/ seen = 0)
<1>1. CASE Remaining = 0 /\ seen # 0
  <2>1. seen \in Nat /\ nWords[curReadWindow] = seen /\ Idx \in Nat /\ Idx <= seen
    BY <1>1 DEF TypeInv, WindowInv, ReaderInv, Used, Idx
  <2>2. Idx = seen
    BY <1>1, <2>1 DEF Remaining
  <2>3. /\ nWords' = [nWords EXCEPT ![curReadWindow] = 0]
        /\ curReadWindow' = NextReadWindow(curReadWindow)
    BY <1>1, <2>1 DEF Release, TypeInv
  <2> QED BY <1>1, <2>1, <2>2, <2>3 DEF GivesBack, Used
<1>2. CASE ~ (Remaining = 0 /\ seen # 0)
  BY <1>2 DEF Release, LeavesRing, windowVars
<1> QED BY <1>1, <1>2

(* What Remaining says. *)
LEMMA RemainingFacts ==
  ASSUME TypeInv, WindowInv, ReaderInv, seen # -1
  PROVE  /\ Remaining \in Nat
         /\ Remaining # 0 =>
              /\ Used(curReadWindow)
              /\ Idx \in Nat /\ Idx + Remaining = nWords[curReadWindow]
              /\ nWords[curReadWindow] = Len(data[curReadWindow])
BY DEF TypeInv, WindowInv, ReaderInv, Remaining, Idx, Used

LEMMA TryReadKind == ASSUME TryRead PROVE LeavesRing /\ UNCHANGED <<ioVars, fpgaVars>>
BY DEF TryRead, LeavesRing, windowVars

LEMMA ReaderKinds ==
  ASSUME ReadInv, Reader
  PROVE  /\ UNCHANGED <<ioVars, fpgaVars>>
         /\ (\E n \in Nat : Takes(n)) \/ GivesBack \/ LeavesRing
<1> USE DEF ReadInv
<1>0. UNCHANGED <<ioVars, fpgaVars>>
  BY DEF Reader, LoadNWords, FirstWord, MoreWords, NextWord, DMATest, DMAHandled, DMARefused,
         DMAAdvance, DMAEnd, Body, BodyWord, TryReadEnd
<1>1. ASSUME NEW n \in Nat, Advance(n), seen # -1, Remaining # 0, n <= Remaining
      PROVE  \E k \in Nat : Takes(k)
  <2>1. /\ Used(curReadWindow) /\ Remaining \in Nat
        /\ Idx \in Nat /\ Idx + Remaining = nWords[curReadWindow]
    BY <1>1, RemainingFacts
  <2>2. Idx + n <= nWords[curReadWindow]
    <3> HIDE DEF Idx, Remaining
    <3> QED BY <1>1, <2>1
  <2>3. Takes(n)
    BY <1>1, <2>1, <2>2 DEF Advance, Takes
  <2> QED BY <2>3
<1>2. ASSUME seen # -1, Release, UNCHANGED <<nextReadWordIdx, data>>
      PROVE  GivesBack \/ LeavesRing
  BY <1>2, Released
<1>3. CASE LoadNWords \/ DMAHandled \/ DMARefused
  BY <1>3 DEF LoadNWords, DMAHandled, DMARefused, LeavesRing, windowVars
<1>4. CASE FirstWord \/ NextWord
  <2>1. seen # -1
    BY <1>4 DEF FirstWord, NextWord, At
  <2>2. CASE Remaining # 0
    <3>1. Advance(1) /\ 1 <= Remaining
      BY <1>4, <2>1, <2>2, RemainingFacts DEF FirstWord, NextWord
    <3> QED BY <2>1, <2>2, <3>1, <1>1, <1>0
  <2>3. CASE Remaining = 0
    BY <1>0, <1>2, <1>4, <2>1, <2>3 DEF FirstWord, NextWord
  <2> QED BY <2>2, <2>3
<1>5. CASE MoreWords \/ DMATest \/ DMAEnd \/ TryReadEnd
  BY <1>0, <1>2, <1>5 DEF MoreWords, DMATest, DMAEnd, TryReadEnd, At
<1>6. CASE DMAAdvance
  <2>1. Takes(need)
    BY <1>6 DEF DMAAdvance, Takes, ReaderInv, Idx, TypeInv
  <2> QED BY <1>0, <2>1 DEF TypeInv
<1>7. CASE Body \/ BodyWord
  <2>1. seen # -1
    BY <1>7 DEF Body, BodyWord, At
  <2>2. CASE Remaining # 0
    <3>1. Remaining \in Nat /\ need \in Nat
      BY <2>1, RemainingFacts DEF TypeInv
    <3>2. CASE Body
      <4> DEFINE n == IF need < Remaining THEN need ELSE Remaining
      <4>1. Advance(n) /\ n \in Nat /\ n <= Remaining
        BY <2>2, <3>1, <3>2 DEF Body, Take
      <4> HIDE DEF n
      <4> QED BY <2>1, <2>2, <4>1, <1>1, <1>0
    <3>3. CASE BodyWord
      <4>1. Advance(1) /\ 1 <= Remaining
        BY <2>2, <3>1, <3>3 DEF BodyWord, Take
      <4> QED BY <2>1, <2>2, <4>1, <1>1, <1>0
    <3> QED BY <1>7, <3>2, <3>3
  <2>3. CASE Remaining = 0
    BY <1>0, <1>2, <1>7, <2>1, <2>3 DEF Body, BodyWord
  <2> QED BY <2>2, <2>3
<1> QED BY <1>3, <1>4, <1>5, <1>6, <1>7 DEF Reader

-----------------------------------------------------------------------------
(* Shape of the ring and state of its windows. *)

LEMMA TakesRing ==
  ASSUME TypeInv, ShapeInv, WindowInv, NEW n \in Nat, Takes(n), UNCHANGED ioVars
  PROVE  ShapeInv' /\ WindowInv'
<1>1. /\ \A w : Filled(w)' <=> Filled(w)
      /\ \A w : Used(w)' <=> Used(w)
      /\ Front' = Front
  BY DEF Takes, Filled, Used, Front, Fills, ioVars
<1>2. ShapeInv'
  BY <1>1 DEF ShapeInv, Takes
<1>3. \A w \in RingWindows : nextReadWordIdx'[w] =
        IF w = curReadWindow THEN Idx + n ELSE nextReadWordIdx[w]
  BY DEF Takes, TypeInv, Idx
<1>4. Fills => active # curReadWindow
  BY DEF Takes, WindowInv, Used, Fills
<1>5. WindowInv'
  BY <1>1, <1>3, <1>4 DEF WindowInv, Takes, TypeInv, ioVars, Fills, Used
<1> QED BY <1>2, <1>5

LEMMA GivesBackRing ==
  ASSUME TypeInv, ShapeInv, WindowInv, GivesBack, UNCHANGED ioVars
  PROVE  /\ ShapeInv' /\ WindowInv'
         /\ \A w \in RingWindows : Filled(w)' <=> Filled(w) /\ w # curReadWindow
         /\ \A w \in RingWindows : Used(w)' <=> Used(w) /\ w # curReadWindow
<1> DEFINE c == curReadWindow
<1> DEFINE d == NextReadWindow(c)
<1>0. c \in RingWindows /\ d \in RingWindows /\ d # c /\ c' = d /\ Filled(c)
  BY RingFacts DEF TypeInv, GivesBack, Filled
<1>1. \A w \in RingWindows : Used(w)' <=> Used(w) /\ w # c
  BY DEF GivesBack, Used, TypeInv
<1>2. Fills => active # c
  BY DEF GivesBack, WindowInv, Used, Fills
<1>3. Fills' = Fills /\ active' = active /\ Front' = Front /\ Front \in RingWindows
  BY RingFacts DEF Fills, Front, ioVars, TypeInv
<1>4. \A w \in RingWindows : Filled(w)' <=> Filled(w) /\ w # c
  BY <1>1, <1>2, <1>3 DEF Filled
<1>5. ShapeInv'
  <2>1. CASE \A w \in RingWindows : Filled(w) <=> Steps(c, w) < Steps(c, Front)
    <3>1. Steps(c, Front) > 0
      BY <2>1, <1>0, <1>3, NextSteps
    <3>2. ASSUME NEW w \in RingWindows
          PROVE Filled(w)' <=> Steps(d, w) < Steps(d, Front)
      <4>1. /\ Steps(c, w) \in 0 .. NumReadWindows - 2
            /\ Steps(c, w) = 0 <=> w = c
            /\ Steps(d, w) = IF w = c THEN NumReadWindows - 2 ELSE Steps(c, w) - 1
        BY <1>0, NextSteps
      <4>2. /\ Steps(c, Front) \in 0 .. NumReadWindows - 2
            /\ Steps(d, Front) = IF Front = c THEN NumReadWindows - 2 ELSE Steps(c, Front) - 1
            /\ Steps(c, Front) = 0 <=> Front = c
        BY <1>0, <1>3, NextSteps
      <4>3. Filled(w)' <=> Steps(c, w) < Steps(c, Front) /\ w # c
        BY <2>1, <1>4
      <4> QED BY <3>1, <4>1, <4>2, <4>3, ReadRingAssumption
    <3> QED BY <3>2, <1>0, <1>3 DEF ShapeInv
  <2>2. CASE Front = c /\ \A w \in RingWindows : Filled(w)
    <3>1. ASSUME NEW w \in RingWindows
          PROVE Filled(w)' <=> Steps(d, w) < Steps(d, Front)
      <4>1. /\ Steps(c, w) \in 0 .. NumReadWindows - 2
            /\ Steps(d, w) = IF w = c THEN NumReadWindows - 2 ELSE Steps(c, w) - 1
            /\ Steps(d, Front) = NumReadWindows - 2
        BY <1>0, <2>2, NextSteps
      <4> QED BY <4>1, <2>2, <1>4, ReadRingAssumption
    <3> QED BY <3>1, <1>0, <1>3 DEF ShapeInv
  <2> QED BY <2>1, <2>2 DEF ShapeInv
<1>6. WindowInv'
  <2>1. ASSUME NEW w \in RingWindows, Used(w)'
        PROVE  /\ nWords'[w] = Len(data'[w])
               /\ nextReadWordIdx'[w] <= nWords'[w]
               /\ w # curReadWindow' => nextReadWordIdx'[w] = 0
    <3>1. Used(w) /\ w # c /\ nWords'[w] = nWords[w]
      BY <2>1, <1>1 DEF GivesBack, TypeInv
    <3> QED BY <3>1 DEF GivesBack, WindowInv
  <2>2. iopc # "start" => nWords'[active] = 0
    BY DEF WindowInv, GivesBack, TypeInv
  <2>3. data' = data /\ nextReadWordIdx' = nextReadWordIdx
    BY DEF GivesBack
  <2> QED BY <2>1, <2>2, <2>3, <1>3 DEF WindowInv, ioVars, Fills
<1> QED BY <1>1, <1>4, <1>5, <1>6

LEMMA LeavesRingRing ==
  ASSUME ShapeInv, WindowInv, LeavesRing, UNCHANGED ioVars
  PROVE  ShapeInv' /\ WindowInv'
<1>1. /\ \A w : Filled(w)' <=> Filled(w)
      /\ \A w : Used(w)' <=> Used(w)
      /\ Front' = Front /\ Fills' = Fills
  BY DEF LeavesRing, windowVars, Filled, Used, Front, Fills, ioVars
<1>2. ShapeInv'
  BY <1>1 DEF ShapeInv, LeavesRing
<1>3. WindowInv'
  BY <1>1 DEF WindowInv, LeavesRing, windowVars, ioVars
<1> QED BY <1>2, <1>3
(* The FPGA fills a window: the next one after those that are filled.      *)
FillsWindow ==
  /\ iopc = "transact" /\ iopc' = "index"
  /\ data'[active] \in Seq(Words) /\ data'[active] # << >>
  /\ data' = [data EXCEPT ![active] = data'[active]]
  /\ useful' = Len(data'[active])
  /\ UNCHANGED <<nWords, nextReadWordIdx, active, readerVars>>

LEMMA FillsRing ==
  ASSUME TypeInv, ShapeInv, WindowInv, FillsWindow
  PROVE  /\ ShapeInv' /\ WindowInv'
         /\ ~ Filled(active)
         /\ \A w \in RingWindows : Filled(w)' <=> Filled(w) \/ w = active
         /\ \A w \in RingWindows : Used(w)' <=> Used(w)
         /\ \A w \in RingWindows : Filled(w) =>
              \/ NextReadWindow(w) = active /\ active # curReadWindow
              \/ Filled(NextReadWindow(w)) /\ NextReadWindow(w) # curReadWindow
         /\ NextReadWindow(active) = curReadWindow \/ ~ Filled(NextReadWindow(active))
         /\ Filled(curReadWindow) \/ active = curReadWindow
<1> DEFINE c == curReadWindow
<1>0. c \in RingWindows /\ c' = c /\ active \in RingWindows /\ active' = active
      /\ ~ Fills /\ Fills' /\ Front = active /\ Front' = NextReadWindow(active)
      /\ NextReadWindow(active) \in RingWindows
  BY RingFacts DEF TypeInv, FillsWindow, readerVars, Fills, Front
<1>1. \A w \in RingWindows : Used(w)' <=> Used(w)
  BY DEF FillsWindow, Used
<1>2. ~ Filled(active) /\ \A w \in RingWindows : Filled(w)' <=> Filled(w) \/ w = active
  BY <1>0, <1>1 DEF Filled, WindowInv, FillsWindow, Used, Fills
<1>3. \A w \in RingWindows : Filled(w) <=> Steps(c, w) < Steps(c, active)
  BY <1>0, <1>2 DEF ShapeInv
<1>4. ShapeInv'
  <2>1. CASE NextReadWindow(active) = c
    <3>1. Steps(c, active) = NumReadWindows - 2
      BY <1>0, <2>1, NextSteps
    <3>2. ASSUME NEW w \in RingWindows PROVE Filled(w)'
      <4>1. w = active \/ Steps(c, w) # Steps(c, active)
        BY <1>0, SameSteps
      <4>2. Steps(c, w) \in 0 .. NumReadWindows - 2
        BY <1>0, NextSteps
      <4> QED BY <4>1, <4>2, <3>1, <1>2, <1>3, ReadRingAssumption
    <3> QED BY <1>0, <2>1, <3>2 DEF ShapeInv
  <2>2. CASE NextReadWindow(active) # c
    <3>1. Steps(c, NextReadWindow(active)) = Steps(c, active) + 1
      BY <1>0, <2>2, NextSteps
    <3>2. ASSUME NEW w \in RingWindows
          PROVE  Filled(w)' <=> Steps(c, w) < Steps(c, Front')
      <4>1. w = active \/ Steps(c, w) # Steps(c, active)
        BY <1>0, SameSteps
      <4>2. Steps(c, w) \in Nat /\ Steps(c, active) \in Nat
        BY <1>0, NextSteps
      <4> QED BY <4>1, <4>2, <3>1, <1>0, <1>2, <1>3
    <3> QED BY <1>0, <3>2 DEF ShapeInv
  <2> QED BY <2>1, <2>2
<1>5. WindowInv'
  <2>1. ASSUME NEW w \in RingWindows, Used(w)'
        PROVE  /\ nWords'[w] = Len(data'[w])
               /\ nextReadWordIdx'[w] <= nWords'[w]
               /\ w # c => nextReadWordIdx'[w] = 0
    <3>1. Used(w) /\ w # active
      BY <1>1, <2>1, <1>2 DEF Filled
    <3>2. data'[w] = data[w]
      BY <3>1 DEF FillsWindow, TypeInv
    <3> QED BY <3>1, <3>2 DEF WindowInv, FillsWindow
  <2>2. useful' = Len(data'[active]) /\ useful' # 0 /\ nWords'[active] = 0
    BY EmptySeq DEF FillsWindow, WindowInv
  <2> QED BY <2>1, <2>2, <1>0 DEF WindowInv, FillsWindow
<1>6. ASSUME NEW w \in RingWindows, Filled(w)
      PROVE  \/ NextReadWindow(w) = active /\ active # c
             \/ Filled(NextReadWindow(w)) /\ NextReadWindow(w) # c
  <2>1. Steps(c, w) < Steps(c, active) /\ NextReadWindow(w) \in RingWindows
    BY <1>3, <1>6, RingFacts
  <2>2. /\ Steps(c, w) \in 0 .. NumReadWindows - 2 /\ Steps(c, active) \in 0 .. NumReadWindows - 2
        /\ NextReadWindow(w) = c => Steps(c, w) = NumReadWindows - 2
        /\ NextReadWindow(w) # c => Steps(c, NextReadWindow(w)) = Steps(c, w) + 1
        /\ Steps(c, active) = 0 <=> active = c
    BY <1>0, NextSteps
  <2>3. NextReadWindow(w) # c /\ active # c
    BY <2>1, <2>2, ReadRingAssumption
  <2>4. NextReadWindow(w) = active \/ Steps(c, NextReadWindow(w)) # Steps(c, active)
    BY <2>1, <1>0, SameSteps
  <2>5. NextReadWindow(w) # active => Steps(c, NextReadWindow(w)) < Steps(c, active)
    BY <2>1, <2>2, <2>3, <2>4
  <2> QED BY <2>1, <2>3, <2>5, <1>3
<1>7. NextReadWindow(active) = c \/ ~ Filled(NextReadWindow(active))
  <2>1. NextReadWindow(active) # c => Steps(c, NextReadWindow(active)) = Steps(c, active) + 1
    BY <1>0, NextSteps
  <2>2. Steps(c, active) \in Nat
    BY <1>0, NextSteps
  <2> QED BY <2>1, <2>2, <1>0, <1>3
<1>8. Filled(c) \/ active = c
  BY <1>0, <1>3, NextSteps
<1> QED BY <1>1, <1>2, <1>4, <1>5, <1>6, <1>7, <1>8

LEMMA IOIndexRing ==
  ASSUME TypeInv, ShapeInv, WindowInv, IOIndex
  PROVE  /\ ShapeInv' /\ WindowInv' /\ ~ Used(active)
         /\ \A w : Filled(w)' <=> Filled(w)
         /\ \A w : Used(w)' <=> Used(w)
<1>1. /\ \A w : Filled(w)' <=> Filled(w)
      /\ \A w : Used(w)' <=> Used(w)
      /\ Front' = Front /\ Fills' /\ Fills /\ ~ Used(active) /\ UNCHANGED <<curReadWindow, active>>
  BY DEF IOIndex, Filled, Used, Front, Fills, readerVars, WindowInv
<1>2. ShapeInv'
  BY <1>1 DEF ShapeInv
<1>3. \A w \in RingWindows : w # active => nextReadWordIdx'[w] = nextReadWordIdx[w]
  BY DEF IOIndex, TypeInv
<1>4. nextReadWordIdx'[active] = 0
  BY DEF IOIndex, TypeInv
<1>5. WindowInv'
  BY <1>1, <1>3, <1>4 DEF WindowInv, IOIndex
<1> QED BY <1>1, <1>2, <1>5

LEMMA IOHandOffRing ==
  ASSUME TypeInv, ShapeInv, WindowInv, IOHandOff
  PROVE  /\ ShapeInv' /\ WindowInv' /\ ~ Used(active) /\ nextReadWordIdx[active] = 0
         /\ \A w \in RingWindows : Filled(w)' <=> Filled(w)
         /\ \A w \in RingWindows : Used(w)' <=> Used(w) \/ w = active
<1>1. /\ ~ Used(active) /\ nextReadWordIdx[active] = 0 /\ useful # 0 /\ Fills /\ ~ Fills'
      /\ nWords[active] = 0 /\ useful = Len(data[active])
  BY DEF IOHandOff, Used, Fills, WindowInv
<1>2. nWords' = [nWords EXCEPT ![active] = useful]
  BY <1>1 DEF IOHandOff, TypeInv
<1>3. \A w \in RingWindows : Used(w)' <=> Used(w) \/ w = active
  BY <1>1, <1>2 DEF Used, TypeInv
<1>4. \A w \in RingWindows : Filled(w)' <=> Filled(w)
  BY <1>1, <1>3 DEF Filled
<1>5. Front' = Front /\ curReadWindow' = curReadWindow
  BY <1>1 DEF Front, IOHandOff, readerVars
<1>6. ShapeInv'
  BY <1>4, <1>5 DEF ShapeInv
<1>7. WindowInv'
  <2>1. ASSUME NEW w \in RingWindows, Used(w)'
        PROVE  /\ nWords'[w] = Len(data'[w])
               /\ nextReadWordIdx'[w] <= nWords'[w]
               /\ w # curReadWindow' => nextReadWordIdx'[w] = 0
    <3>1. UNCHANGED <<data, nextReadWordIdx, curReadWindow>>
      BY DEF IOHandOff, readerVars
    <3>2. CASE w = active
      BY <1>1, <1>2, <3>1, <3>2 DEF TypeInv
    <3>3. CASE w # active
      <4>1. Used(w) /\ nWords'[w] = nWords[w]
        BY <1>2, <1>3, <2>1, <3>3 DEF TypeInv
      <4> QED BY <3>1, <4>1 DEF WindowInv
    <3> QED BY <3>2, <3>3
  <2>2. iopc' = "start"
    BY DEF IOHandOff
  <2> QED BY <2>1, <2>2 DEF WindowInv, Fills
<1> QED BY <1>1, <1>3, <1>4, <1>6, <1>7

LEMMA IOTransactFills ==
  ASSUME TypeInv, IOTransact
  PROVE  /\ FillsWindow
         /\ \E n \in 1 .. Len(pending) :
              /\ data'[active] \in Packets(SubSeq(pending, 1, n))
              /\ pending' = SubSeq(pending, n + 1, Len(pending))
         /\ UNCHANGED messages
<1>1. PICK n \in 1 .. Len(pending) : \E packet \in Packets(SubSeq(pending, 1, n)) :
        /\ data' = [data EXCEPT ![active] = packet]
        /\ useful' = Len(packet)
        /\ pending' = SubSeq(pending, n + 1, Len(pending))
  BY DEF IOTransact
<1>2. PICK packet \in Packets(SubSeq(pending, 1, n)) :
        /\ data' = [data EXCEPT ![active] = packet]
        /\ useful' = Len(packet)
        /\ pending' = SubSeq(pending, n + 1, Len(pending))
  BY <1>1
<1>3. data'[active] = packet
  BY <1>2 DEF TypeInv
<1>4. packet \in Seq(Words) /\ packet # << >>
  <2>1. SubSeq(pending, 1, n) \in Seq(Words) /\ Len(SubSeq(pending, 1, n)) = n /\ n >= 1
    BY DEF TypeInv
  <2>2. packet \in Seq(Words) /\ Len(packet) >= Len(SubSeq(pending, 1, n))
    BY <2>1, FillLength
  <2> QED BY <2>1, <2>2
<1> QED BY <1>2, <1>3, <1>4 DEF FillsWindow, IOTransact
LEMMA EmptyPacketRing ==
  ASSUME TypeInv, ShapeInv, WindowInv, IOTransactEmpty
  PROVE  /\ ShapeInv' /\ WindowInv' /\ ~ Filled(active)
         /\ \A w \in RingWindows : Filled(w)' <=> Filled(w)
         /\ \A w \in RingWindows : Used(w)' <=> Used(w)
<1>1. ~ Fills /\ ~ Fills' /\ ~ Used(active)
  BY DEF IOTransactEmpty, Fills, Used, WindowInv
<1>2. /\ \A w \in RingWindows : Used(w)' <=> Used(w)
      /\ \A w \in RingWindows : Filled(w)' <=> Filled(w)
      /\ Front' = Front /\ ~ Filled(active)
  BY <1>1 DEF IOTransactEmpty, Filled, Used, Front
<1>3. ShapeInv'
  BY <1>2 DEF ShapeInv, IOTransactEmpty, readerVars
<1>4. \A w \in RingWindows : Used(w) => data'[w] = data[w]
  BY <1>1 DEF IOTransactEmpty, TypeInv
<1>5. WindowInv'
  <2>1. UNCHANGED <<nWords, nextReadWordIdx, curReadWindow>> /\ iopc' = "start"
    BY DEF IOTransactEmpty, readerVars
  <2> QED BY <1>1, <1>2, <1>4, <2>1 DEF WindowInv
<1> QED BY <1>1, <1>2, <1>3, <1>5

LEMMA IOWaitsRing ==
  ASSUME TypeInv, ShapeInv, WindowInv, IOBusy \/ IOFree
  PROVE  /\ ShapeInv' /\ WindowInv'
         /\ \A w \in RingWindows : Filled(w)' <=> Filled(w)
         /\ \A w \in RingWindows : Used(w)' <=> Used(w)
<1>1. ~ Fills /\ ~ Fills' /\ iopc = "start"
      /\ UNCHANGED <<active, useful, windowVars, readerVars, fpgaVars>>
  BY DEF IOBusy, IOFree, Fills
<1>2. /\ \A w \in RingWindows : Used(w)' <=> Used(w)
      /\ \A w \in RingWindows : Filled(w)' <=> Filled(w)
      /\ Front' = Front
  BY <1>1 DEF windowVars, Filled, Used, Front
<1>3. ShapeInv'
  BY <1>1, <1>2 DEF ShapeInv, readerVars
<1>4. iopc' # "start" => nWords[active] = 0
  BY <1>1 DEF IOBusy, IOFree
<1>5. iopc' # "handOff"
  BY <1>1 DEF IOBusy, IOFree
<1>6. WindowInv'
  BY <1>1, <1>2, <1>4, <1>5 DEF WindowInv, windowVars, readerVars
<1> QED BY <1>2, <1>3, <1>6

LEMMA RingPreserved == ReadInv /\ [Next]_vars => ShapeInv' /\ WindowInv'
<1> SUFFICES ASSUME ReadInv, [Next]_vars PROVE ShapeInv' /\ WindowInv'
  OBVIOUS
<1>0. TypeInv /\ ShapeInv /\ WindowInv
  BY DEF ReadInv
<1>1. CASE Reader
  <2>1. UNCHANGED ioVars
    BY <1>1, ReaderKinds
  <2>2. CASE \E n \in Nat : Takes(n)
    BY <1>0, <2>1, <2>2, TakesRing
  <2>3. CASE GivesBack
    BY <1>0, <2>1, <2>3, GivesBackRing
  <2>4. CASE LeavesRing
    BY <1>0, <2>1, <2>4, LeavesRingRing
  <2> QED BY <1>1, <2>2, <2>3, <2>4, ReaderKinds
<1>2. CASE TryRead
  BY <1>0, <1>2, TryReadKind, LeavesRingRing
<1>3. CASE IOBusy \/ IOFree
  BY <1>0, <1>3, IOWaitsRing
<1>4. CASE IOTransact
  BY <1>0, <1>4, IOTransactFills, FillsRing
<1>5. CASE IOTransactEmpty
  BY <1>0, <1>5, EmptyPacketRing
<1>6. CASE IOIndex
  BY <1>0, <1>6, IOIndexRing
<1>7. CASE IOHandOff
  BY <1>0, <1>7, IOHandOffRing
<1>8. CASE FPGASend
  BY <1>0, <1>8, LeavesRingRing DEF FPGASend, LeavesRing, readerVars
<1>9. CASE UNCHANGED vars
  BY <1>0, <1>9, LeavesRingRing DEF vars, LeavesRing, readerVars
<1> QED BY <1>1, <1>2, <1>3, <1>4, <1>5, <1>6, <1>7, <1>8, <1>9 DEF Next, IOThread

-----------------------------------------------------------------------------
(* Types. *)

LEMMA WordTypes ==
  ASSUME TypeInv
  PROVE  /\ \A i \in Nat : Word(i) \in Words
         /\ \A n \in Nat : NextWords(n) \in Seq(Words) /\ Len(NextWords(n)) = n
         /\ Idx \in Nat /\ NoData \in Words
<1>1. \A i \in Nat : Word(i) \in Words
  <2>1. data[curReadWindow] \in Seq(Words)
    BY DEF TypeInv
  <2> HIDE DEF Words
  <2>2. \A i \in DOMAIN data[curReadWindow] : data[curReadWindow][i] \in Words
    BY <2>1
  <2>3. NoData \in Words
    BY DEF NoData, Words
  <2> QED BY <2>2, <2>3 DEF Word
<1>2. Idx \in Nat
  BY DEF TypeInv, Idx
<1>3. ASSUME NEW n \in Nat PROVE NextWords(n) \in Seq(Words) /\ Len(NextWords(n)) = n
  <2>1. \A i \in 1 .. n : Word(Idx + i) \in Words
    BY <1>1, <1>2
  <2> HIDE DEF Words
  <2> QED BY <2>1 DEF NextWords
<1>4. NoData \in Words
  BY DEF NoData, Words
<1> QED BY <1>1, <1>2, <1>3, <1>4
-----------------------------------------------------------------------------
(* What the reader finds in its window. *)

LEMMA PlaceType ==
  ASSUME NEW M, NEW m \in Nat, NEW n \in Nat
  PROVE  Place(M, m, n) \in Words
BY DEF Place, Words

LEMMA ExpectedType ==
  ASSUME TypeInv
  PROVE  /\ Expected \in Words /\ Current \in Nat /\ Current >= 1
         /\ messages \in Seq(MessageType)
<1>1. Current \in Nat /\ Current >= 1 /\ Len(got) \in Nat
  <2> DEFINE T == Seq(Words)
  <2>1. received \in Seq(T) /\ got \in Seq(Words)
    BY DEF TypeInv
  <2> HIDE DEF T
  <2>2. Len(received) \in Nat /\ Len(got) \in Nat
    BY <2>1
  <2> QED BY <2>2 DEF Current
<1>2. Expected \in Words
  BY <1>1, PlaceType DEF Expected
<1> QED BY <1>1, <1>2, MessageTypes DEF TypeInv

LEMMA UnreadFacts ==
  ASSUME TypeInv, WindowInv, Used(curReadWindow)
  PROVE  /\ Unread(curReadWindow) \in Seq(Words)
         /\ Len(Unread(curReadWindow)) = nWords[curReadWindow] - Idx
         /\ nWords[curReadWindow] \in Nat /\ Idx \in Nat /\ Idx <= nWords[curReadWindow]
         /\ \A i \in 1 .. nWords[curReadWindow] - Idx : Unread(curReadWindow)[i] = Word(Idx + i)
<1> DEFINE s == data[curReadWindow]
<1> DEFINE n == nWords[curReadWindow]
<1> DEFINE k == nextReadWordIdx[curReadWindow]
<1>1. s \in Seq(Words) /\ n = Len(s) /\ k \in Nat /\ k <= n /\ n \in Nat
  BY DEF TypeInv, WindowInv
<1>2. Unread(curReadWindow) = SubSeq(s, k + 1, n) /\ Idx = k
  BY <1>1 DEF Unread, Idx
<1>3. \A i \in 1 .. n - k : Word(Idx + i) = s[k + i]
  BY <1>1, <1>2 DEF Word
<1> HIDE DEF s, n, k
<1>4. /\ SubSeq(s, k + 1, n) \in Seq(Words) /\ Len(SubSeq(s, k + 1, n)) = n - k
      /\ \A i \in 1 .. n - k : SubSeq(s, k + 1, n)[i] = s[k + i]
  BY <1>1
<1> QED BY <1>1, <1>2, <1>3, <1>4 DEF n

LEMMA ReadsChain ==
  ASSUME TypeInv, ChainInv, Used(curReadWindow)
  PROVE  \E g \in Words : Carries(messages, Unread(curReadWindow), Expected, g)
<1>1. PICK first \in [RingWindows -> Words], last \in Words : Chained(first, last)
  BY DEF ChainInv
<1>2. Filled(curReadWindow) /\ curReadWindow \in RingWindows
  BY DEF Filled, TypeInv
<1>3. Behind(first, last, curReadWindow) \in Words
  BY <1>2, RingFacts DEF Behind
<1>4. Carries(messages, Unread(curReadWindow), Expected, Behind(first, last, curReadWindow))
  BY <1>1, <1>2 DEF Chained
<1> QED BY <1>3, <1>4

(* Between messages: NODATA or the header of the next message. *)
LEMMA ReadsHeader ==
  ASSUME ReadInv, rpc \in Between, Used(curReadWindow), Idx < nWords[curReadWindow]
  PROVE  /\ Expected = <<Current, 0>>
         /\ \/ /\ Word(Idx + 1) = NoData
               /\ \A g \in Words : Carries(messages, Unread(curReadWindow), Expected, g) =>
                    Carries(messages, SubSeq(Unread(curReadWindow), 2,
                                             Len(Unread(curReadWindow))), Expected, g)
            \/ /\ Word(Idx + 1) = <<Current, 0>> /\ Current \in 1 .. Len(messages)
               /\ \A g \in Words : Carries(messages, Unread(curReadWindow), Expected, g) =>
                    Carries(messages, SubSeq(Unread(curReadWindow), 2,
                                             Len(Unread(curReadWindow))),
                            Place(messages, Current, 1), g)
<1> DEFINE u == Unread(curReadWindow)
<1>0. TypeInv /\ WindowInv /\ ReaderInv /\ ChainInv
  BY DEF ReadInv
<1>1. Expected = <<Current, 0>>
  BY <1>0 DEF Expected, Place, ReaderInv, Between
<1>2. u \in Seq(Words) /\ u # << >> /\ u[1] = Word(Idx + 1)
  <2>1. u \in Seq(Words) /\ Len(u) # 0 /\ 1 \in 1 .. nWords[curReadWindow] - Idx
    BY <1>0, UnreadFacts
  <2> QED BY <2>1, <1>0, UnreadFacts
<1>3. Expected \in Words /\ Current \in Nat /\ Current >= 1 /\ messages \in Seq(MessageType)
  BY <1>0, ExpectedType
<1>4. PICK g0 \in Words : Carries(messages, u, Expected, g0)
  BY <1>0, ReadsChain
<1> HIDE DEF u
<1>5. <<Current, 0>> # NoData /\ Expected[1] = Current
  BY <1>1, <1>3 DEF NoData
<1>6. u[1] = NoData \/ (u[1] = <<Current, 0>> /\ Current \in 1 .. Len(messages))
  BY <1>1, <1>2, <1>3, <1>4, <1>5, CarriesFirst
<1>7. ASSUME NEW g \in Words, Carries(messages, u, Expected, g), u[1] = NoData
      PROVE  Carries(messages, SubSeq(u, 2, Len(u)), Expected, g)
  BY <1>1, <1>2, <1>3, <1>5, <1>7, CarriesFirst
<1>8. ASSUME NEW g \in Words, Carries(messages, u, Expected, g), u[1] = <<Current, 0>>,
             Current \in 1 .. Len(messages)
      PROVE  Carries(messages, SubSeq(u, 2, Len(u)), Place(messages, Current, 1), g)
  <2>1. Carries(messages, SubSeq(u, 2, Len(u)), After(messages, Expected), g)
    BY <1>1, <1>2, <1>3, <1>5, <1>8, CarriesFirst
  <2>2. messages[Current].chunks \in Nat
    BY <1>0, <1>8, MessageTypes DEF TypeInv, MessageType
  <2>3. After(messages, <<Current, 0>>) = Place(messages, Current, 1)
    BY <2>2 DEF After, Place
  <2> QED BY <2>1, <2>3, <1>1
<1> QED BY <1>1, <1>2, <1>6, <1>7, <1>8 DEF u

(* Inside a message: its next words. *)
LEMMA ReadsRun ==
  ASSUME ReadInv, rpc \in {"handler", "body", "bodyWord"}, Used(curReadWindow),
         NEW k \in Nat, k <= need, Idx + k <= nWords[curReadWindow]
  PROVE  /\ Expected = <<Current, Len(got)>>
         /\ \A i \in 1 .. k : Word(Idx + i) = <<Current, Len(got) + i - 1>>
         /\ \A g \in Words : Carries(messages, Unread(curReadWindow), Expected, g) =>
              Carries(messages, SubSeq(Unread(curReadWindow), k + 1,
                                       Len(Unread(curReadWindow))),
                      Place(messages, Current, Len(got) + k), g)
<1> DEFINE u == Unread(curReadWindow)
<1>0. TypeInv /\ WindowInv /\ ReaderInv /\ ChainInv
  BY DEF ReadInv
<1>1. /\ Current \in 1 .. Len(messages) /\ messages[Current].chunks \in Nat
      /\ messages \in Seq(MessageType) /\ Expected \in Words
      /\ Len(got) \in Nat /\ need \in Nat
  <2>1. Current <= Len(messages)
    BY <1>0 DEF ReaderInv, Inside
  <2>2. Current \in 1 .. Len(messages)
    BY <2>1, <1>0, ExpectedType DEF TypeInv
  <2>3. messages[Current] \in MessageType
    BY <2>2, <1>0, MessageTypes DEF TypeInv
  <2>4. messages[Current].chunks \in Nat
    BY <2>3 DEF MessageType
  <2> QED BY <2>2, <2>4, <1>0, ExpectedType DEF TypeInv
<1>2. /\ Len(got) \in 1 .. messages[Current].chunks
      /\ Len(got) + k <= messages[Current].chunks + 1
  BY <1>0, <1>1 DEF ReaderInv, Inside
<1>3. Expected = <<Current, Len(got)>>
  BY <1>2 DEF Expected, Place
<1>4. /\ u \in Seq(Words) /\ k \in 0 .. Len(u)
      /\ \A i \in 1 .. k : u[i] = Word(Idx + i)
  BY <1>0, UnreadFacts
<1>5. PICK g0 \in Words : Carries(messages, u, Expected, g0)
  BY <1>0, ReadsChain
<1> HIDE DEF u
<1>6. \A i \in 1 .. k : u[i] = <<Current, Len(got) + i - 1>>
  BY <1>1, <1>2, <1>3, <1>4, <1>5, CarriesRun
<1>7. ASSUME NEW g \in Words, Carries(messages, u, Expected, g)
      PROVE  Carries(messages, SubSeq(u, k + 1, Len(u)), Place(messages, Current, Len(got) + k), g)
  BY <1>1, <1>2, <1>3, <1>4, <1>7, CarriesRun
<1> QED BY <1>3, <1>4, <1>6, <1>7 DEF u
-----------------------------------------------------------------------------
(* The steps of the reader, one after another. *)

(* A pseudo-DMA message has a payload. *)
NoEmptyDMA == 0 \notin DMAPayloads

ReaderTypes ==
  /\ rpc \in Calls \cup {"idle", "handler", "advance"}
  /\ seen \in Nat \cup {-1}
  /\ need \in Nat /\ rIdx \in Nat
  /\ got \in Seq(Words)
  /\ received \in Seq(Seq(Words))

(* What it takes from its window is what it expects. *)
Progresses(n) ==
  /\ Takes(n)
  /\ \A g \in Words : Carries(messages, Unread(curReadWindow), Expected, g) =>
       Carries(messages, SubSeq(Unread(curReadWindow), n + 1, Len(Unread(curReadWindow))),
               Expected', g)

ReaderStep ==
  /\ ReaderTypes' /\ ReaderInv' /\ ReceivedInv'
  /\ \/ \E n \in Nat : Progresses(n)
     \/ (GivesBack \/ LeavesRing) /\ Expected' = Expected

LEMMA LoadStep == ASSUME ReadInv, LoadNWords PROVE ReaderStep
<1> USE DEF ReadInv
<1>1. ReaderTypes'
  BY DEF TypeInv, LoadNWords, ReaderTypes, Calls
<1>2. ReaderInv'
  BY DEF LoadNWords, ReaderInv, windowVars, fpgaVars, Calls, Between, Inside, Used, Idx,
         Current, MessageWords
<1>3. ReceivedInv'
  BY DEF LoadNWords, ReceivedInv, fpgaVars, MessageWords
<1>4. LeavesRing /\ Expected' = Expected
  BY DEF LoadNWords, LeavesRing, windowVars, fpgaVars, Expected, Current
<1> QED BY <1>1, <1>2, <1>3, <1>4 DEF ReaderStep

LEMMA TryReadStep == ASSUME ReadInv, TryRead PROVE ReaderStep
<1> USE DEF ReadInv
<1>1. ReaderTypes'
  BY DEF TypeInv, TryRead, ReaderTypes, Calls
<1>2. ReaderInv'
  BY DEF TryRead, ReaderInv, Calls, Between, Inside
<1>3. ReceivedInv'
  BY DEF TryRead, ReceivedInv, fpgaVars, MessageWords
<1>4. LeavesRing /\ Expected' = Expected
  BY DEF TryRead, LeavesRing, windowVars, fpgaVars, Expected, Current
<1> QED BY <1>1, <1>2, <1>3, <1>4 DEF ReaderStep

(* The first word of a message, or NODATA. *)
TakesFirst ==
  /\ rpc \in {"first", "nextWord"} /\ seen # -1 /\ seen' = -1 /\ Remaining # 0
  /\ Advance(1) /\ Respond(Word(Idx + 1))
  /\ UNCHANGED <<rIdx, received, ioVars, fpgaVars>>

LEMMA TakesFirstStep == ASSUME ReadInv, NoEmptyDMA, TakesFirst PROVE ReaderStep
<1>0. TypeInv /\ WindowInv /\ ReaderInv /\ ReceivedInv /\ rpc \in Between
  BY DEF ReadInv, TakesFirst, Between
<1>1. Takes(1) /\ Used(curReadWindow) /\ Idx < nWords[curReadWindow]
  <2>1. /\ Used(curReadWindow) /\ Remaining \in Nat
        /\ Idx \in Nat /\ Idx + Remaining = nWords[curReadWindow]
    BY <1>0, RemainingFacts DEF TakesFirst
  <2>2. Idx + 1 <= nWords[curReadWindow] /\ Idx < nWords[curReadWindow]
    <3>1. Remaining # 0
      BY DEF TakesFirst
    <3> HIDE DEF Idx, Remaining
    <3> QED BY <2>1, <3>1
  <2> QED BY <2>1, <2>2 DEF TakesFirst, Advance, Takes
<1> DEFINE u == Unread(curReadWindow)
<1>2. /\ Expected = <<Current, 0>>
      /\ \/ /\ Word(Idx + 1) = NoData
            /\ \A g \in Words : Carries(messages, u, Expected, g) =>
                 Carries(messages, SubSeq(u, 2, Len(u)), Expected, g)
         \/ /\ Word(Idx + 1) = <<Current, 0>> /\ Current \in 1 .. Len(messages)
            /\ \A g \in Words : Carries(messages, u, Expected, g) =>
                 Carries(messages, SubSeq(u, 2, Len(u)), Place(messages, Current, 1), g)
  BY <1>0, <1>1, ReadsHeader
<1> HIDE DEF u
<1>3. got = << >> /\ messages' = messages /\ Current' = Current /\ 1 + 1 = 2
      /\ Current \in Nat /\ Current >= 1
  BY <1>0, ExpectedType DEF ReaderInv, TakesFirst, fpgaVars, Current
<1>4. ReceivedInv'
  BY <1>0 DEF TakesFirst, ReceivedInv, fpgaVars, MessageWords
<1>5. CASE Word(Idx + 1) = NoData /\ Expected # NoData
  <2>1. rpc' = "again" /\ UNCHANGED <<need, got>>
    BY <1>5 DEF TakesFirst, Respond
  <2>2. ReaderTypes'
    BY <1>0, <2>1 DEF TypeInv, TakesFirst, ReaderTypes, Calls
  <2>3. ReaderInv'
    BY <2>1, <1>3 DEF TakesFirst, ReaderInv, Calls, Between, Inside
  <2>4. Expected' = Expected
    BY <1>3, <2>1, <1>0 DEF Expected, Between
  <2>5. \A g \in Words : Carries(messages, u, Expected, g) =>
          Carries(messages, SubSeq(u, 1 + 1, Len(u)), Expected', g)
    BY <1>2, <1>3, <1>5, <2>4
  <2>6. Progresses(1)
    BY <1>1, <2>5 DEF Progresses, u
  <2> QED BY <1>4, <2>2, <2>3, <2>6 DEF ReaderStep
<1>6. CASE Word(Idx + 1) = <<Current, 0>> /\ Current \in 1 .. Len(messages)
  <2> DEFINE w == <<Current, 0>>
  <2> DEFINE m == messages[Current]
  <2>1. m \in Messages /\ m.chunks \in Nat
    BY <1>0, <1>6, MessageTypes DEF TypeInv, MessageType
  <2>2. w # NoData /\ w[1] = Current /\ w[2] = 0
    BY <1>3 DEF NoData
  <2>3. /\ need' = m.chunks /\ got' = <<w>>
        /\ IF m.dma THEN rpc' = "dma" ELSE rpc' = IF m.chunks = 0 THEN "end" ELSE "body"
    BY <1>6, <2>2 DEF TakesFirst, Respond, Ordinary
  <2>4. ReaderTypes'
    <3>1. w \in Words
      BY <1>3 DEF Words
    <3>2. got' \in Seq(Words)
      BY <2>3, <3>1
    <3> QED BY <1>0, <2>1, <2>3, <3>2 DEF TypeInv, TakesFirst, ReaderTypes, Calls
  <2>5. messages' = messages /\ Current' = Current /\ seen' = -1
        /\ rpc' \in {"dma", "body", "end"}
        /\ Len(got') = 1 /\ got'[1] = w
    BY <1>3, <2>3 DEF TakesFirst
  <2>6. ReaderInv'
    <3>1. Current <= Len(messages) /\ Len(got') + need' = m.chunks + 1
      BY <1>6, <2>1, <2>3, <2>5
    <3>2. \A i \in 1 .. Len(got') : got'[i] = <<Current, i - 1>>
      BY <2>5
    <3>3. rpc' = "dma" => m.dma
      BY <2>3
    <3>4. (rpc' = "body" => need' # 0) /\ (rpc' = "end" => need' = 0)
      BY <2>3
    <3> HIDE DEF w, m
    <3> QED BY <2>5, <3>1, <3>2, <3>3, <3>4 DEF ReaderInv, Between, Inside, m
  <2>7. Expected' = Place(messages, Current, 1)
    BY <2>5 DEF Expected
  <2>8. \A g \in Words : Carries(messages, u, Expected, g) =>
          Carries(messages, SubSeq(u, 1 + 1, Len(u)), Expected', g)
    BY <1>2, <1>3, <1>6, <2>2, <2>7
  <2>9. Progresses(1)
    BY <1>1, <2>8 DEF Progresses, u
  <2> QED BY <1>4, <2>4, <2>6, <2>9 DEF ReaderStep
<1>7. Expected # NoData
  BY <1>2, <1>3 DEF NoData
<1> QED BY <1>2, <1>5, <1>6, <1>7
LEMMA FirstWordStep == ASSUME ReadInv, NoEmptyDMA, FirstWord PROVE ReaderStep
<1>0. TypeInv /\ WindowInv /\ ReaderInv /\ ReceivedInv /\ rpc = "first" /\ seen # -1 /\ seen' = -1
  BY DEF ReadInv, FirstWord, At
<1>1. CASE Remaining # 0
  BY <1>0, <1>1, TakesFirstStep DEF FirstWord, TakesFirst
<1>2. CASE Remaining = 0
  <2>1. /\ Release /\ UNCHANGED <<nextReadWordIdx, data>>
        /\ rpc' = "again" /\ UNCHANGED <<need, got, rIdx, received, messages>>
    BY <1>2 DEF FirstWord, Respond, fpgaVars
  <2>2. GivesBack \/ LeavesRing
    BY <1>0, <2>1, Released
  <2>3. ReaderTypes'
    BY <1>0, <2>1 DEF TypeInv, ReaderTypes, Calls
  <2>4. ReaderInv'
    BY <1>0, <2>1 DEF ReaderInv, Calls, Between, Inside
  <2>5. ReceivedInv' /\ Expected' = Expected
    BY <1>0, <2>1 DEF ReceivedInv, MessageWords, Expected, Current
  <2> QED BY <2>2, <2>3, <2>4, <2>5 DEF ReaderStep
<1> QED BY <1>1, <1>2

LEMMA MoreWordsStep == ASSUME ReadInv, MoreWords PROVE ReaderStep
<1>0. TypeInv /\ WindowInv /\ ReaderInv /\ ReceivedInv /\ rpc = "again" /\ seen # -1 /\ seen' = -1
  BY DEF ReadInv, MoreWords, At
<1>1. /\ Release /\ UNCHANGED <<nextReadWordIdx, data>>
      /\ rpc' \in {"nextWord", "idle"} /\ UNCHANGED <<need, got, rIdx, received, messages>>
  BY DEF MoreWords, fpgaVars
<1>2. GivesBack \/ LeavesRing
  BY <1>0, <1>1, Released
<1>3. ReaderTypes'
  BY <1>0, <1>1 DEF TypeInv, ReaderTypes, Calls
<1>4. ReaderInv'
  BY <1>0, <1>1 DEF ReaderInv, Calls, Between, Inside
<1>5. ReceivedInv' /\ Expected' = Expected
  BY <1>0, <1>1 DEF ReceivedInv, MessageWords, Expected, Current
<1> QED BY <1>2, <1>3, <1>4, <1>5 DEF ReaderStep

LEMMA NextWordStep == ASSUME ReadInv, NoEmptyDMA, NextWord PROVE ReaderStep
<1>0. /\ TypeInv /\ WindowInv /\ ReaderInv /\ ReceivedInv
      /\ rpc = "nextWord" /\ seen # -1 /\ seen' = -1
  BY DEF ReadInv, NextWord, At
<1>1. CASE Remaining # 0
  BY <1>0, <1>1, TakesFirstStep DEF NextWord, TakesFirst
<1>2. CASE Remaining = 0
  <2>1. /\ Release /\ UNCHANGED <<nextReadWordIdx, data>>
        /\ UNCHANGED <<rpc, need, got, rIdx, received, messages>>
    BY <1>2 DEF NextWord, fpgaVars
  <2>2. GivesBack \/ LeavesRing
    BY <1>0, <2>1, Released
  <2>3. ReaderTypes'
    BY <1>0, <2>1 DEF TypeInv, ReaderTypes, Calls
  <2>4. ReaderInv'
    BY <1>0, <2>1 DEF ReaderInv, Calls, Between, Inside
  <2>5. ReceivedInv' /\ Expected' = Expected
    BY <1>0, <2>1 DEF ReceivedInv, MessageWords, Expected, Current
  <2> QED BY <2>2, <2>3, <2>4, <2>5 DEF ReaderStep
<1> QED BY <1>1, <1>2

LEMMA DMATestStep == ASSUME ReadInv, NoEmptyDMA, DMATest PROVE ReaderStep
<1>0. TypeInv /\ WindowInv /\ ReaderInv /\ ReceivedInv /\ rpc = "dma" /\ seen # -1 /\ seen' = -1
  BY DEF ReadInv, DMATest, At
<1>1. /\ Release /\ UNCHANGED <<nextReadWordIdx, data>>
      /\ UNCHANGED <<need, got, rIdx, received, messages>>
  BY DEF DMATest, fpgaVars
<1>2. (GivesBack /\ seen # 0) \/ (LeavesRing /\ (Remaining # 0 \/ seen = 0))
  BY <1>0, <1>1, Released
<1>3. /\ Current <= Len(messages) /\ Len(got) = 1 /\ messages[Current].dma
      /\ need = messages[Current].chunks
      /\ \A i \in 1 .. Len(got) : got[i] = <<Current, i - 1>>
      /\ Current \in 1 .. Len(messages)
  <2>1. Current <= Len(messages) /\ Current \in Nat /\ Current >= 1
    BY <1>0, ExpectedType DEF ReaderInv, Inside
  <2>2. Len(messages) \in Nat
    BY <1>0 DEF TypeInv
  <2>3. messages[Current] \in MessageType
    BY <1>0, <2>1, <2>2, MessageTypes DEF TypeInv
  <2>4. messages[Current].chunks \in Nat /\ need \in Nat
    BY <1>0, <2>3 DEF MessageType, TypeInv
  <2> HIDE DEF Current
  <2>5. /\ Len(got) = 1 /\ messages[Current].dma
        /\ Len(got) + need = messages[Current].chunks + 1
        /\ \A i \in 1 .. Len(got) : got[i] = <<Current, i - 1>>
    BY <1>0 DEF ReaderInv, Inside
  <2>6. need = messages[Current].chunks
    BY <2>4, <2>5
  <2> QED BY <2>1, <2>2, <2>5, <2>6
<1>4. need # 0
  <2>1. messages[Current] \in Messages
    BY <1>0, <1>3, MessageTypes DEF TypeInv
  <2> QED BY <2>1, <1>3 DEF Messages, NoEmptyDMA
<1>5. /\ UNCHANGED <<got, need, received, messages>> /\ Current' = Current
      /\ rpc' \in {"handler", "body"}
  BY <1>1, <1>4 DEF DMATest, Ordinary, Current
<1>6. rpc' = "handler" =>
        LeavesRing /\ Used(curReadWindow) /\ Idx + need <= nWords[curReadWindow]
  <2> SUFFICES ASSUME rpc' = "handler"
               PROVE  LeavesRing /\ Used(curReadWindow) /\ Idx + need <= nWords[curReadWindow]
    OBVIOUS
  <2>1. need <= Remaining
    BY <1>4 DEF DMATest, Ordinary
  <2>2. Remaining # 0 /\ Remaining \in Nat /\ need \in Nat
    BY <1>0, <1>4, <2>1, RemainingFacts DEF TypeInv
  <2>3. LeavesRing
    BY <2>2 DEF DMATest, Release, LeavesRing, windowVars
  <2>4. Used(curReadWindow) /\ Idx \in Nat /\ Idx + Remaining = nWords[curReadWindow]
    BY <1>0, <2>2, RemainingFacts
  <2>5. Idx + need <= nWords[curReadWindow]
    <3> HIDE DEF Idx, Remaining
    <3> QED BY <2>1, <2>2, <2>4
  <2> QED BY <2>3, <2>4, <2>5
<1>7. ReaderTypes'
  BY <1>0, <1>1, <1>5 DEF TypeInv, ReaderTypes, Calls
<1>8. ReaderInv'
  <2>1. rpc' = "handler" =>
          Used(curReadWindow)' /\ Idx' + need <= nWords'[curReadWindow']
    BY <1>6 DEF LeavesRing, windowVars, Used, Idx
  <2>2. Len(got) + need = messages[Current].chunks + 1
    BY <1>0 DEF ReaderInv, Inside
  <2>3. /\ seen' = -1 /\ rpc' \in {"handler", "body"} /\ got' = got /\ need' = need
        /\ messages' = messages
    BY <1>0, <1>5
  <2>4. /\ Current' <= Len(messages') /\ Len(got') >= 1
        /\ Len(got') + need' = messages'[Current'].chunks + 1
        /\ \A i \in 1 .. Len(got') : got'[i] = <<Current', i - 1>>
    <3> HIDE DEF Current
    <3>1. Current' = Current
      BY <1>5
    <3>2. Current <= Len(messages) /\ Len(got) >= 1
      BY <1>3
    <3>3. \A i \in 1 .. Len(got) : got[i] = <<Current, i - 1>>
      BY <1>3
    <3> QED BY <2>2, <2>3, <3>1, <3>2, <3>3
  <2>5. Len(got') = 1 /\ messages'[Current'].dma
    <3> HIDE DEF Current
    <3> QED BY <1>3, <1>5
  <2> HIDE DEF Idx, Current, Used
  <2> QED BY <1>4, <2>1, <2>3, <2>4, <2>5 DEF ReaderInv, Between, Inside
<1>9. ReceivedInv' /\ Expected' = Expected
  BY <1>0, <1>5 DEF ReceivedInv, MessageWords, Expected
<1> QED BY <1>2, <1>7, <1>8, <1>9 DEF ReaderStep

LEMMA DMARefusedStep == ASSUME ReadInv, DMARefused PROVE ReaderStep
<1>0. TypeInv /\ WindowInv /\ ReaderInv /\ ReceivedInv /\ rpc = "handler"
  BY DEF ReadInv, DMARefused
<1>1. /\ UNCHANGED <<seen, need, got, rIdx, received, messages>> /\ LeavesRing
      /\ rpc' = "body" /\ Current' = Current
  BY <1>0 DEF DMARefused, Ordinary, fpgaVars, windowVars, LeavesRing, ReaderInv, Current
<1>2. ReaderTypes'
  BY <1>0, <1>1 DEF TypeInv, ReaderTypes, Calls
<1>3. ReaderInv'
  <2>1. seen = -1
    BY <1>0 DEF ReaderInv, Calls
  <2> HIDE DEF Current
  <2> QED BY <1>0, <1>1, <2>1 DEF ReaderInv, Calls, Between, Inside
<1>4. ReceivedInv' /\ Expected' = Expected
  BY <1>0, <1>1 DEF ReceivedInv, MessageWords, Expected
<1> QED BY <1>1, <1>2, <1>3, <1>4 DEF ReaderStep

LEMMA DMAEndStep == ASSUME ReadInv, DMAEnd PROVE ReaderStep
<1>0. /\ TypeInv /\ WindowInv /\ ReaderInv /\ ReceivedInv
      /\ rpc = "dmaEnd" /\ seen # -1 /\ seen' = -1
  BY DEF ReadInv, DMAEnd, At
<1>1. /\ Release /\ UNCHANGED <<nextReadWordIdx, data>>
      /\ rpc' = "first" /\ UNCHANGED <<need, got, rIdx, received, messages>>
  BY DEF DMAEnd, fpgaVars
<1>2. GivesBack \/ LeavesRing
  BY <1>0, <1>1, Released
<1>3. ReaderTypes'
  BY <1>0, <1>1 DEF TypeInv, ReaderTypes, Calls
<1>4. ReaderInv'
  BY <1>0, <1>1 DEF ReaderInv, Calls, Between, Inside
<1>5. ReceivedInv' /\ Expected' = Expected
  BY <1>0, <1>1 DEF ReceivedInv, MessageWords, Expected, Current
<1> QED BY <1>2, <1>3, <1>4, <1>5 DEF ReaderStep
(* What is known of the message being read. *)
LEMMA CurrentFacts ==
  ASSUME ReadInv, rpc \in Inside
  PROVE  /\ Current \in 1 .. Len(messages) /\ messages[Current].chunks \in Nat
         /\ Len(messages) \in Nat /\ Len(got) \in Nat /\ need \in Nat
         /\ Len(got) >= 1 /\ Len(got) + need = messages[Current].chunks + 1
         /\ \A i \in 1 .. Len(got) : got[i] = <<Current, i - 1>>
<1>0. TypeInv /\ ReaderInv
  BY DEF ReadInv
<1>1. Current \in Nat /\ Current >= 1
  BY <1>0, ExpectedType
<1> HIDE DEF Current
<1>2. /\ Current <= Len(messages) /\ Len(got) >= 1
      /\ Len(got) + need = messages[Current].chunks + 1
      /\ \A i \in 1 .. Len(got) : got[i] = <<Current, i - 1>>
  BY <1>0 DEF ReaderInv
<1>3. Len(messages) \in Nat /\ Len(got) \in Nat /\ need \in Nat
  BY <1>0 DEF TypeInv
<1>4. messages[Current] \in MessageType
  BY <1>0, <1>1, <1>2, <1>3, MessageTypes DEF TypeInv
<1> QED BY <1>1, <1>2, <1>3, <1>4 DEF MessageType

(* Words of the message, taken behind those that are there. *)
LEMMA MoreOfMessage ==
  ASSUME ReadInv, rpc \in {"handler", "body", "bodyWord"}, Used(curReadWindow),
         NEW k \in Nat, k <= need, Idx + k <= nWords[curReadWindow]
  PROVE  /\ got \o NextWords(k) \in Seq(Words)
         /\ Len(got \o NextWords(k)) = Len(got) + k
         /\ \A i \in 1 .. Len(got) + k : (got \o NextWords(k))[i] = <<Current, i - 1>>
<1>0. TypeInv
  BY DEF ReadInv
<1>1. /\ got \in Seq(Words) /\ NextWords(k) \in Seq(Words) /\ Len(NextWords(k)) = k
      /\ Len(got) \in Nat
  BY <1>0, WordTypes DEF TypeInv
<1>2. \A i \in 1 .. k : NextWords(k)[i] = <<Current, Len(got) + i - 1>>
  <2>1. \A i \in 1 .. k : Word(Idx + i) = <<Current, Len(got) + i - 1>>
    BY ReadsRun
  <2>2. \A i \in 1 .. k : NextWords(k)[i] = Word(Idx + i)
    BY DEF NextWords
  <2> QED BY <2>1, <2>2
<1>3. \A i \in 1 .. Len(got) : got[i] = <<Current, i - 1>>
  BY CurrentFacts DEF Inside
<1> DEFINE t == NextWords(k)
<1> HIDE DEF t
<1>4. /\ got \o t \in Seq(Words) /\ Len(got \o t) = Len(got) + k
      /\ \A i \in 1 .. Len(got) + k :
           (got \o t)[i] = IF i <= Len(got) THEN got[i] ELSE t[i - Len(got)]
  BY <1>1, ConcatProperties DEF t
<1>5. ASSUME NEW i \in 1 .. Len(got) + k PROVE (got \o t)[i] = <<Current, i - 1>>
  <2>1. CASE i <= Len(got)
    BY <2>1, <1>1, <1>3, <1>4
  <2>2. CASE i > Len(got)
    <3>1. i - Len(got) \in 1 .. k /\ Len(got) + (i - Len(got)) - 1 = i - 1
      BY <2>2, <1>1
    <3>2. t[i - Len(got)] = <<Current, Len(got) + (i - Len(got)) - 1>>
      BY <3>1, <1>2 DEF t
    <3> QED BY <3>1, <3>2, <2>2, <1>1, <1>4
  <2>3. i <= Len(got) \/ i > Len(got)
    <3> DEFINE n == Len(got)
    <3>1. n \in Nat /\ i \in Int
      BY <1>1
    <3> HIDE DEF n
    <3>2. i <= n \/ i > n
      BY <3>1
    <3> QED BY <3>2 DEF n
  <2> QED BY <2>1, <2>2, <2>3
<1> QED BY <1>4, <1>5 DEF t

(* All of the message. *)
LEMMA WholeMessage ==
  ASSUME NEW M, NEW m \in Nat, NEW c \in Nat, NEW s \in Seq(Words), Len(s) = c + 1,
         \A i \in 1 .. Len(s) : s[i] = <<m, i - 1>>
  PROVE  s = WordsOf(m, c)
<1>1. WordsOf(m, c) \in Seq(Words) /\ Len(WordsOf(m, c)) = c + 1
  BY DEF WordsOf, Words
<1>2. \A i \in 1 .. Len(s) : s[i] = WordsOf(m, c)[i]
  BY DEF WordsOf
<1> QED BY <1>1, <1>2, SeqEqual

LEMMA DMAHandledStep == ASSUME ReadInv, DMAHandled PROVE ReaderStep
<1>0. TypeInv /\ WindowInv /\ ReaderInv /\ ReceivedInv /\ rpc = "handler"
  BY DEF ReadInv, DMAHandled
<1>1. /\ got' = got \o NextWords(need) /\ rIdx' = Idx /\ rpc' = "advance"
      /\ UNCHANGED <<curReadWindow, seen, need, received, nWords, nextReadWordIdx, data, messages>>
      /\ Current' = Current /\ LeavesRing /\ Idx' = Idx
  BY DEF DMAHandled, fpgaVars, windowVars, LeavesRing, Current, Idx
<1>2. /\ Used(curReadWindow) /\ Idx + need <= nWords[curReadWindow] /\ need # 0
      /\ Len(got) = 1 /\ seen = -1
  BY <1>0 DEF ReaderInv, Calls
<1>3. /\ Current \in 1 .. Len(messages) /\ messages[Current].chunks \in Nat
      /\ need \in Nat /\ Len(got) + need = messages[Current].chunks + 1
  BY <1>0, CurrentFacts DEF Inside
<1>4. /\ got' \in Seq(Words) /\ Len(got') = Len(got) + need
      /\ \A i \in 1 .. Len(got) + need : got'[i] = <<Current, i - 1>>
  <2>1. need \in Nat /\ need <= need /\ rpc \in {"handler", "body", "bodyWord"}
    BY <1>0, <1>3
  <2>2. /\ got \o NextWords(need) \in Seq(Words)
        /\ Len(got \o NextWords(need)) = Len(got) + need
        /\ \A i \in 1 .. Len(got) + need : (got \o NextWords(need))[i] = <<Current, i - 1>>
    BY <1>2, <2>1, MoreOfMessage
  <2> HIDE DEF Current
  <2> QED BY <1>1, <2>2
<1>5. need = messages[Current].chunks /\ Idx \in Nat
  <2> DEFINE c == messages[Current].chunks
  <2>1. c \in Nat /\ need \in Nat /\ Len(got) = 1 /\ Len(got) + need = c + 1
    BY <1>2, <1>3
  <2> HIDE DEF c
  <2>2. need = c
    BY <2>1
  <2> QED BY <2>2, <1>0, WordTypes DEF c
<1>6. got' = MessageWords(Current)
  <2>1. Len(got') = messages[Current].chunks + 1
    BY <1>3, <1>4
  <2>2. \A i \in 1 .. Len(got') : got'[i] = <<Current, i - 1>>
    BY <1>4
  <2>3. Current \in Nat
    BY <1>0, ExpectedType
  <2> HIDE DEF Current
  <2> QED BY <2>1, <2>2, <2>3, <1>3, <1>4, WholeMessage DEF MessageWords
<1>7. ReaderTypes'
  BY <1>0, <1>1, <1>4, <1>5 DEF TypeInv, ReaderTypes
<1>8. ReaderInv'
  <2>1. Used(curReadWindow)' /\ Idx' + need' <= nWords'[curReadWindow'] /\ need' # 0
    BY <1>1, <1>2 DEF Used
  <2>2. Current' <= Len(messages') /\ need' = messages'[Current'].chunks
    <3> HIDE DEF Current
    <3> QED BY <1>1, <1>3, <1>5
  <2>3. got' = MessageWords(Current)' /\ rIdx' = Idx'
    <3> HIDE DEF Current, Idx
    <3> QED BY <1>1, <1>6 DEF MessageWords
  <2> HIDE DEF Current, Idx, Used
  <2> QED BY <1>1, <1>2, <2>1, <2>2, <2>3 DEF ReaderInv, Between, Inside
<1>9. ReceivedInv'
  BY <1>0, <1>1 DEF ReceivedInv, MessageWords
<1>10. Expected' = Expected
  <2> HIDE DEF Current
  <2> QED BY <1>0, <1>1, <1>2 DEF Expected
<1> QED BY <1>1, <1>7, <1>8, <1>9, <1>10 DEF ReaderStep

(* A message is handed to the client. *)
LEMMA Receives ==
  ASSUME TypeInv, ReceivedInv, Current <= Len(messages), got = MessageWords(Current),
         received' = Append(received, got), messages' = messages
  PROVE  /\ received' \in Seq(Seq(Words)) /\ ReceivedInv' /\ Current' = Current + 1
<1> DEFINE T == Seq(Words)
<1> DEFINE k == Len(received)
<1>1. received \in Seq(T) /\ got \in T
  BY DEF TypeInv
<1> HIDE DEF T
<1>2. /\ received' \in Seq(T) /\ Len(received') = k + 1 /\ k \in Nat
      /\ \A i \in 1 .. k : received'[i] = received[i]
      /\ received'[k + 1] = got
  BY <1>1, AppendProperties
<1>3. Current' = Current + 1 /\ Current = k + 1
  BY <1>2 DEF Current
<1>4. ReceivedInv'
  <2>1. Len(received') <= Len(messages')
    BY <1>2, <1>3
  <2>2. ASSUME NEW m \in 1 .. Len(received') PROVE received'[m] = MessageWords(m)
    <3>1. CASE m \in 1 .. k
      BY <3>1, <1>2 DEF ReceivedInv
    <3>2. CASE m = k + 1
      BY <3>2, <1>2, <1>3
    <3> QED BY <3>1, <3>2, <1>2
  <2> QED BY <2>1, <2>2 DEF ReceivedInv, MessageWords
<1> QED BY <1>2, <1>3, <1>4 DEF T
LEMMA DMAAdvanceStep == ASSUME ReadInv, DMAAdvance PROVE ReaderStep
<1>0. TypeInv /\ WindowInv /\ ReaderInv /\ ReceivedInv /\ rpc = "advance"
  BY DEF ReadInv, DMAAdvance
<1>1. /\ nextReadWordIdx' = [nextReadWordIdx EXCEPT ![curReadWindow] = rIdx + need]
      /\ received' = Append(received, got)
      /\ need' = 0 /\ got' = << >> /\ rIdx' = 0 /\ rpc' = "dmaEnd"
      /\ UNCHANGED <<nWords, data, curReadWindow, seen, messages>>
  BY DEF DMAAdvance, fpgaVars
<1>2. /\ Used(curReadWindow) /\ Idx + need <= nWords[curReadWindow] /\ need # 0
      /\ Current <= Len(messages) /\ need = messages[Current].chunks
      /\ got = MessageWords(Current) /\ rIdx = Idx /\ seen = -1
  BY <1>0 DEF ReaderInv, Calls
<1>3. Current \in 1 .. Len(messages) /\ need \in Nat /\ need >= 1 /\ messages \in Seq(MessageType)
  <2>1. Current \in Nat /\ Current >= 1 /\ Len(messages) \in Nat /\ messages \in Seq(MessageType)
    BY <1>0, ExpectedType DEF TypeInv
  <2>2. need \in Nat
    BY <1>0 DEF TypeInv
  <2> HIDE DEF Current
  <2> QED BY <2>1, <2>2, <1>2
<1>4. received' \in Seq(Seq(Words)) /\ ReceivedInv' /\ Current' = Current + 1
  BY <1>0, <1>1, <1>2, Receives
<1>5. ReaderTypes'
  BY <1>0, <1>1, <1>4, EmptySeq DEF TypeInv, ReaderTypes, Calls
<1>6. ReaderInv'
  BY <1>1, <1>2 DEF ReaderInv, Between, Inside, Calls
<1>7. Takes(need)
  BY <1>0, <1>1, <1>2 DEF Takes, TypeInv, Idx
<1>8. Expected = <<Current, 1>> /\ Expected' = <<Current + 1, 0>>
  <2>1. Expected = <<Current, 1>>
    <3> HIDE DEF Current
    <3> QED BY <1>0, <1>2, <1>3 DEF Expected, Place
  <2>2. Expected' = <<Current + 1, 0>>
    <3> HIDE DEF Current
    <3> QED BY <1>1, <1>4 DEF Expected, Place
  <2> QED BY <2>1, <2>2
<1> DEFINE u == Unread(curReadWindow)
<1>9. u \in Seq(Words) /\ need \in 0 .. Len(u)
  <2>1. /\ u \in Seq(Words) /\ Len(u) = nWords[curReadWindow] - Idx
        /\ nWords[curReadWindow] \in Nat /\ Idx \in Nat
    BY <1>0, <1>2, UnreadFacts
  <2> HIDE DEF u, Idx
  <2> QED BY <2>1, <1>2, <1>3
<1>10. ASSUME NEW g \in Words, Carries(messages, u, Expected, g)
       PROVE  Carries(messages, SubSeq(u, need + 1, Len(u)), Expected', g)
  <2> HIDE DEF u, Current
  <2>1. Carries(messages, SubSeq(u, need + 1, Len(u)), Place(messages, Current, 1 + need), g)
    <3>1. 1 \in 1 .. messages[Current].chunks /\ 1 + need <= messages[Current].chunks + 1
      BY <1>2, <1>3
    <3>2. Carries(messages, u, <<Current, 1>>, g)
      BY <1>8, <1>10
    <3> QED BY <3>1, <3>2, <1>3, <1>9, CarriesRun
  <2>2. Place(messages, Current, 1 + need) = <<Current + 1, 0>>
    BY <1>2, <1>3 DEF Place
  <2> QED BY <2>1, <2>2, <1>8
<1>11. Progresses(need)
  BY <1>7, <1>10 DEF Progresses
<1> QED BY <1>3, <1>4, <1>5, <1>6, <1>11 DEF ReaderStep

(* Words of the body. *)
LEMMA TakeStep ==
  ASSUME ReadInv, rpc \in {"body", "bodyWord"}, seen # -1, seen' = -1,
         NEW k \in Nat, k <= Remaining, k <= need, Remaining # 0, Take(k),
         UNCHANGED <<rIdx, received, messages>>
  PROVE  ReaderStep
<1>0. TypeInv /\ WindowInv /\ ReaderInv /\ ReceivedInv
  BY DEF ReadInv
<1>1. /\ nextReadWordIdx' = [nextReadWordIdx EXCEPT ![curReadWindow] = @ + k]
      /\ UNCHANGED <<nWords, data, curReadWindow>>
      /\ got' = got \o NextWords(k) /\ need' = need - k
      /\ rpc' = IF need - k = 0 THEN "end" ELSE "body"
      /\ Current' = Current
  BY DEF Take, Advance, Ordinary, Current
<1>2. Used(curReadWindow) /\ Idx + k <= nWords[curReadWindow]
  <2>1. /\ Used(curReadWindow) /\ Remaining \in Nat
        /\ Idx \in Nat /\ Idx + Remaining = nWords[curReadWindow]
    BY <1>0, RemainingFacts
  <2> HIDE DEF Idx, Remaining
  <2> QED BY <2>1
<1>3. Takes(k)
  BY <1>1, <1>2 DEF Takes
<1>4. /\ Current \in 1 .. Len(messages) /\ messages[Current].chunks \in Nat
      /\ Len(got) \in Nat /\ need \in Nat /\ Len(messages) \in Nat
      /\ Len(got) >= 1 /\ Len(got) + need = messages[Current].chunks + 1
  BY CurrentFacts DEF Inside
<1>5. /\ got' \in Seq(Words) /\ Len(got') = Len(got) + k
      /\ \A i \in 1 .. Len(got) + k : got'[i] = <<Current, i - 1>>
  <2>1. /\ got \o NextWords(k) \in Seq(Words)
        /\ Len(got \o NextWords(k)) = Len(got) + k
        /\ \A i \in 1 .. Len(got) + k : (got \o NextWords(k))[i] = <<Current, i - 1>>
    BY <1>2, MoreOfMessage
  <2> HIDE DEF Current
  <2> QED BY <1>1, <2>1
<1>6. need - k \in Nat
  BY <1>4
<1>7. ReaderTypes'
  BY <1>0, <1>1, <1>5, <1>6 DEF TypeInv, ReaderTypes, Calls
<1>8. ReceivedInv'
  BY <1>0 DEF ReceivedInv, MessageWords
<1>9. ReaderInv'
  <2> DEFINE n == Len(got)
  <2> DEFINE c == messages[Current].chunks
  <2>1. n \in Nat /\ n >= 1 /\ n + need = c + 1 /\ need \in Nat /\ c \in Nat
    BY <1>4
  <2>2. Len(got') = n + k
    BY <1>5
  <2> HIDE DEF n, c, Current
  <2>3. Len(got') >= 1 /\ Len(got') + need' = c + 1
    BY <1>1, <2>1, <2>2
  <2>4. \A i \in 1 .. Len(got') : got'[i] = <<Current, i - 1>>
    BY <1>5
  <2>5. rpc' \in {"end", "body"} /\ (rpc' = "body" => need' # 0) /\ (rpc' = "end" => need' = 0)
    BY <1>1
  <2>6. messages'[Current'].chunks = c /\ Current' <= Len(messages')
    BY <1>1, <1>4 DEF c
  <2>7. \A i \in 1 .. Len(got') : got'[i] = <<Current', i - 1>>
    BY <2>4, <1>1
  <2> QED BY <2>3, <2>5, <2>6, <2>7 DEF ReaderInv, Between, Inside
<1>10. Expected' = Place(messages, Current, Len(got) + k)
  <2>1. rpc' # "advance"
    BY <1>1
  <2> HIDE DEF Current
  <2> QED BY <1>1, <1>5, <2>1 DEF Expected
<1>11. \A g \in Words : Carries(messages, Unread(curReadWindow), Expected, g) =>
         Carries(messages, SubSeq(Unread(curReadWindow), k + 1, Len(Unread(curReadWindow))),
                 Expected', g)
  <2>1. \A g \in Words : Carries(messages, Unread(curReadWindow), Expected, g) =>
         Carries(messages, SubSeq(Unread(curReadWindow), k + 1, Len(Unread(curReadWindow))),
                 Place(messages, Current, Len(got) + k), g)
    BY <1>2, ReadsRun
  <2> QED BY <2>1, <1>10
<1>12. Progresses(k)
  BY <1>3, <1>11 DEF Progresses
<1> QED BY <1>7, <1>8, <1>9, <1>12 DEF ReaderStep

(* Inside a message the window is given back, or there is nothing to take. *)
LEMMA WaitsStep ==
  ASSUME ReadInv, rpc \in {"body", "bodyWord"}, seen # -1, seen' = -1, rpc' = "bodyWord",
         Release, UNCHANGED <<nextReadWordIdx, data, need, got, rIdx, received, messages>>
  PROVE  ReaderStep
<1>0. TypeInv /\ WindowInv /\ ReaderInv /\ ReceivedInv
  BY DEF ReadInv
<1>1. GivesBack \/ LeavesRing
  BY <1>0, Released
<1>2. ReaderTypes'
  BY <1>0 DEF TypeInv, ReaderTypes, Calls
<1>3. ReaderInv'
  <2>1. Current' = Current
    BY DEF Current
  <2> HIDE DEF Current
  <2> QED BY <1>0, <2>1 DEF ReaderInv, Between, Inside
<1>4. ReceivedInv'
  BY <1>0 DEF ReceivedInv, MessageWords
<1>5. Expected' = Expected
  BY DEF Expected, Current
<1> QED BY <1>1, <1>2, <1>3, <1>4, <1>5 DEF ReaderStep

LEMMA BodyStep == ASSUME ReadInv, Body \/ BodyWord PROVE ReaderStep
<1>0. /\ TypeInv /\ WindowInv /\ ReaderInv /\ rpc \in {"body", "bodyWord"}
      /\ seen # -1 /\ seen' = -1 /\ need \in Nat /\ need # 0
      /\ UNCHANGED <<rIdx, received, messages>>
  BY DEF ReadInv, Body, BodyWord, At, TypeInv, ReaderInv, fpgaVars
<1>1. Remaining \in Nat
  BY <1>0, RemainingFacts
<1>2. CASE Remaining # 0 /\ Body
  <2> DEFINE k == IF need < Remaining THEN need ELSE Remaining
  <2>1. k \in Nat /\ k <= need /\ k <= Remaining
    <3> HIDE DEF Remaining
    <3> QED BY <1>0, <1>1
  <2>2. Take(k)
    BY <1>2 DEF Body
  <2> HIDE DEF k
  <2> QED BY <1>0, <1>2, <2>1, <2>2, TakeStep
<1>3. CASE Remaining # 0 /\ BodyWord
  <2>1. 1 <= need /\ 1 <= Remaining
    <3> HIDE DEF Remaining
    <3> QED BY <1>0, <1>1, <1>3
  <2>2. Take(1)
    BY <1>3 DEF BodyWord
  <2> QED BY <1>0, <1>3, <2>1, <2>2, TakeStep
<1>4. CASE Remaining = 0
  <2>1. /\ rpc' = "bodyWord" /\ Release
        /\ UNCHANGED <<nextReadWordIdx, data, need, got>>
    BY <1>4 DEF Body, BodyWord, At
  <2> QED BY <1>0, <2>1, WaitsStep
<1> QED BY <1>2, <1>3, <1>4

LEMMA TryReadEndStep == ASSUME ReadInv, TryReadEnd PROVE ReaderStep
<1>0. /\ TypeInv /\ WindowInv /\ ReaderInv /\ ReceivedInv
      /\ rpc = "end" /\ seen # -1 /\ seen' = -1
  BY DEF ReadInv, TryReadEnd, At
<1>1. /\ Release /\ UNCHANGED <<nextReadWordIdx, data>>
      /\ received' = Append(received, got) /\ got' = << >> /\ rpc' = "idle"
      /\ UNCHANGED <<need, rIdx, messages>>
  BY DEF TryReadEnd, fpgaVars
<1>2. GivesBack \/ LeavesRing
  BY <1>0, <1>1, Released
<1>3. /\ Current \in 1 .. Len(messages) /\ messages[Current].chunks \in Nat
      /\ Len(got) \in Nat /\ Len(got) = messages[Current].chunks + 1
      /\ \A i \in 1 .. Len(got) : got[i] = <<Current, i - 1>>
      /\ Current \in Nat
  <2>1. need = 0
    BY <1>0 DEF ReaderInv
  <2>2. /\ Current \in 1 .. Len(messages) /\ messages[Current].chunks \in Nat
        /\ Len(got) \in Nat /\ Len(got) + need = messages[Current].chunks + 1
        /\ \A i \in 1 .. Len(got) : got[i] = <<Current, i - 1>>
    BY <1>0, CurrentFacts DEF Inside
  <2>3. Current \in Nat
    BY <1>0, ExpectedType
  <2> HIDE DEF Current
  <2>4. Len(got) + need = Len(got)
    BY <2>1, <2>2
  <2> QED BY <2>2, <2>3, <2>4
<1>4. got = MessageWords(Current)
  <2>1. got \in Seq(Words)
    BY <1>0 DEF TypeInv
  <2> HIDE DEF Current
  <2> QED BY <1>3, <2>1, WholeMessage DEF MessageWords
<1>5. received' \in Seq(Seq(Words)) /\ ReceivedInv' /\ Current' = Current + 1
  <2>1. Current <= Len(messages)
    BY <1>3
  <2> QED BY <2>1, <1>0, <1>1, <1>4, Receives
<1>6. ReaderTypes'
  BY <1>0, <1>1, <1>5, EmptySeq DEF TypeInv, ReaderTypes, Calls
<1>7. ReaderInv'
  BY <1>0, <1>1 DEF ReaderInv, Between, Inside
<1>8. Expected' = Expected
  <2>1. Expected = <<Current + 1, 0>>
    <3> DEFINE n == Len(got)
    <3> DEFINE c == messages[Current].chunks
    <3>1. n \in Nat /\ c \in Nat /\ n = c + 1
      BY <1>3
    <3> HIDE DEF c, n, Current
    <3>2. ~ (n = 0 \/ n <= c)
      BY <3>1
    <3> QED BY <3>2, <1>0 DEF Expected, Place, n, c
  <2>2. Expected' = <<Current + 1, 0>>
    <3> HIDE DEF Current
    <3> QED BY <1>1, <1>5 DEF Expected, Place
  <2> QED BY <2>1, <2>2
<1> QED BY <1>2, <1>5, <1>6, <1>7, <1>8 DEF ReaderStep

LEMMA ReaderSteps == ASSUME ReadInv, NoEmptyDMA, Reader \/ TryRead PROVE ReaderStep
BY LoadStep, TryReadStep, FirstWordStep, MoreWordsStep, NextWordStep, DMATestStep,
   DMAHandledStep, DMARefusedStep, DMAAdvanceStep, DMAEndStep, BodyStep, TryReadEndStep
   DEF Reader
-----------------------------------------------------------------------------
(* The words along the ring. *)

LEMMA ChainTakes ==
  ASSUME TypeInv, WindowInv, ChainInv, NEW n \in Nat, Progresses(n), Expected' \in Words,
         UNCHANGED <<ioVars, messages, pending>>
  PROVE  ChainInv'
<1>0. PICK c \in RingWindows : c = curReadWindow
  BY DEF TypeInv
<1>1. PICK first \in [RingWindows -> Words], last \in Words : Chained(first, last)
  BY DEF ChainInv
<1>n. PICK new \in [RingWindows -> Words] : new = [first EXCEPT ![c] = Expected']
  OBVIOUS
<1>2. /\ c = curReadWindow /\ c = curReadWindow' /\ Used(c) /\ Filled(c)
      /\ \A w \in RingWindows : new[w] = IF w = c THEN Expected' ELSE first[w]
  BY <1>0, <1>n DEF Progresses, Takes, Filled
<1>3. /\ \A w \in RingWindows : Filled(w)' <=> Filled(w)
      /\ \A w \in RingWindows : Used(w)' <=> Used(w)
  BY DEF Progresses, Takes, Filled, Used, Fills, ioVars
<1>4. ASSUME NEW w \in RingWindows
      PROVE  Behind(new, last, w)' = Behind(first, last, w) /\ Behind(first, last, w) \in Words
  <2>1. NextReadWindow(w) \in RingWindows
    BY RingFacts
  <2> QED BY <2>1, <1>2, <1>3 DEF Behind
<1>5. Unread(c)' = SubSeq(Unread(c), n + 1, Len(Unread(c)))
  <2> DEFINE s == data[c]
  <2> DEFINE k == nextReadWordIdx[c]
  <2>1. s \in Seq(Words) /\ k \in Nat /\ k + n <= Len(s) /\ k <= Len(s)
    BY <1>2 DEF TypeInv, WindowInv, Progresses, Takes, Idx
  <2>2. Unread(c) = SubSeq(s, k + 1, Len(s))
    BY <1>2 DEF Unread
  <2>3. Unread(c)' = SubSeq(s, k + n + 1, Len(s))
    BY <1>2, <1>3 DEF Unread, Progresses, Takes, TypeInv
  <2> HIDE DEF s, k
  <2> DEFINE a == SubSeq(SubSeq(s, k + 1, Len(s)), n + 1, Len(SubSeq(s, k + 1, Len(s))))
  <2> DEFINE b == SubSeq(s, k + n + 1, Len(s))
  <2> DEFINE m == Len(s) - k
  <2>4. /\ SubSeq(s, k + 1, Len(s)) \in Seq(Words) /\ Len(SubSeq(s, k + 1, Len(s))) = m
        /\ \A i \in 1 .. m : SubSeq(s, k + 1, Len(s))[i] = s[k + i]
        /\ m \in Nat /\ n <= m
    BY <2>1
  <2>5. /\ a \in Seq(Words) /\ Len(a) = m - n
        /\ \A i \in 1 .. m - n : a[i] = SubSeq(s, k + 1, Len(s))[n + i]
    <3> DEFINE t == SubSeq(s, k + 1, Len(s))
    <3>1. t \in Seq(Words) /\ Len(t) = m /\ m \in Nat /\ n <= m
      BY <2>4
    <3> HIDE DEF t, m
    <3>2. /\ SubSeq(t, n + 1, m) \in Seq(Words) /\ Len(SubSeq(t, n + 1, m)) = m - n
          /\ \A i \in 1 .. m - n : SubSeq(t, n + 1, m)[i] = t[n + i]
      BY <3>1
    <3> QED BY <3>1, <3>2 DEF t
  <2>6. /\ b \in Seq(Words) /\ Len(b) = m - n
        /\ \A i \in 1 .. m - n : b[i] = s[k + n + i]
    BY <2>1, <2>4
  <2>7. \A i \in 1 .. m - n : a[i] = b[i]
    <3>1. \A i \in 1 .. m - n : n + i \in 1 .. m /\ k + (n + i) = k + n + i
      BY <2>1, <2>4
    <3> HIDE DEF a, b
    <3> QED BY <3>1, <2>4, <2>5, <2>6
  <2> HIDE DEF a, b
  <2>8. a = b
    BY <2>5, <2>6, <2>7, SeqEqual
  <2> QED BY <2>2, <2>3, <2>8 DEF a, b
<1>6. \A w \in RingWindows : w # c => Unread(w)' = Unread(w)
  BY <1>2, <1>3 DEF Unread, Progresses, Takes, TypeInv
<1>7. Carries(messages, Unread(c), Expected, Behind(first, last, c))
  BY <1>1, <1>2 DEF Chained
<1>8. Carries(messages, Unread(c)', Expected', Behind(first, last, c))
  BY <1>2, <1>4, <1>5, <1>7 DEF Progresses
<1>9. Chained(new, last)'
  <2>1. Expected' = IF Filled(c)' THEN new[c] ELSE last
    BY <1>2, <1>3
  <2>2. ASSUME NEW w \in RingWindows, Filled(w)'
        PROVE  Carries(messages', Unread(w)', new[w], Behind(new, last, w)')
    <3>1. CASE w = c
      BY <3>1, <1>2, <1>4, <1>8
    <3>2. CASE w # c
      <4>1. Carries(messages, Unread(w), first[w], Behind(first, last, w))
        BY <2>2, <1>1, <1>3 DEF Chained
      <4> QED BY <3>2, <4>1, <1>2, <1>4, <1>6
    <3> QED BY <3>1, <3>2
  <2>3. Carries(messages', pending', last, <<Len(messages') + 1, 0>>)
    BY <1>1 DEF Chained
  <2> QED BY <2>1, <2>2, <2>3, <1>2 DEF Chained
<1> QED BY <1>2, <1>9 DEF ChainInv

LEMMA ChainGivesBack ==
  ASSUME TypeInv, ShapeInv, WindowInv, ChainInv, GivesBack, Expected' = Expected,
         UNCHANGED <<ioVars, messages, pending>>
  PROVE  ChainInv'
<1>0. PICK c \in RingWindows, d \in RingWindows : c = curReadWindow /\ d = NextReadWindow(c)
  BY RingFacts DEF TypeInv
<1>1. PICK first \in [RingWindows -> Words], last \in Words : Chained(first, last)
  BY DEF ChainInv
<1>2. /\ c = curReadWindow /\ d = NextReadWindow(c) /\ d # c /\ curReadWindow' = d
      /\ Used(c) /\ Filled(c) /\ Expected \in Words
  BY <1>0, RingFacts, ExpectedType DEF GivesBack, Filled
<1>3. /\ \A w \in RingWindows : Filled(w)' <=> Filled(w) /\ w # c
      /\ \A w \in RingWindows : Used(w)' <=> Used(w) /\ w # c
  BY <1>2, GivesBackRing
<1>4. Behind(first, last, c) = Expected
  <2>1. Unread(c) = << >>
    <3>1. Unread(c) \in Seq(Words) /\ Len(Unread(c)) = nWords[c] - Idx /\ Idx = nWords[c]
          /\ Idx \in Nat
      BY <1>2, UnreadFacts DEF GivesBack
    <3>2. Len(Unread(c)) = 0
      <4> HIDE DEF Idx
      <4> QED BY <3>1
    <3> QED BY <3>1, <3>2, EmptySeq
  <2>2. Carries(messages, Unread(c), Expected, Behind(first, last, c))
    BY <1>1, <1>2 DEF Chained
  <2>3. Behind(first, last, c) \in Words
    BY <1>2 DEF Behind
  <2> QED BY <2>1, <2>2, <2>3, <1>2, CarriesNothing
<1>5. ASSUME NEW w \in RingWindows, w # c
      PROVE  Behind(first, last, w)' = Behind(first, last, w) /\ Unread(w)' = Unread(w)
  <2>1. NextReadWindow(w) \in RingWindows /\ NextReadWindow(w) # d
    BY <1>2, <1>5, RingFacts
  <2>2. Unread(w)' = Unread(w)
    BY <1>2, <1>3, <1>5 DEF Unread, GivesBack
  <2> QED BY <2>1, <2>2, <1>2, <1>3 DEF Behind
<1>6. Chained(first, last)'
  <2>1. Expected' = IF Filled(d)' THEN first[d] ELSE last
    BY <1>2, <1>3, <1>4 DEF Behind
  <2>2. ASSUME NEW w \in RingWindows, Filled(w)'
        PROVE  Carries(messages', Unread(w)', first[w], Behind(first, last, w)')
    <3>1. w # c /\ Filled(w)
      BY <1>3, <2>2
    <3>2. Carries(messages, Unread(w), first[w], Behind(first, last, w))
      BY <3>1, <1>1 DEF Chained
    <3> QED BY <3>1, <3>2, <1>5
  <2>3. Carries(messages', pending', last, <<Len(messages') + 1, 0>>)
    BY <1>1 DEF Chained
  <2> QED BY <1>2, <2>1, <2>2, <2>3 DEF Chained
<1> QED BY <1>6 DEF ChainInv

(* Nothing that the chain goes through has changed. *)
LEMMA ChainStays ==
  ASSUME ChainInv, Expected' = Expected, UNCHANGED <<curReadWindow, messages, pending>>,
         \A w \in RingWindows : Filled(w)' <=> Filled(w),
         \A w \in RingWindows : Filled(w) => Unread(w)' = Unread(w),
         curReadWindow \in RingWindows
  PROVE  ChainInv'
<1>1. PICK first \in [RingWindows -> Words], last \in Words : Chained(first, last)
  BY DEF ChainInv
<1>2. \A w \in RingWindows : Behind(first, last, w)' = Behind(first, last, w)
  BY RingFacts DEF Behind
<1>3. Chained(first, last)'
  <2>1. Expected' = IF Filled(curReadWindow)' THEN first[curReadWindow] ELSE last
    BY <1>1 DEF Chained
  <2>2. ASSUME NEW w \in RingWindows, Filled(w)'
        PROVE  Carries(messages', Unread(w)', first[w], Behind(first, last, w)')
    <3>1. Filled(w) /\ Carries(messages, Unread(w), first[w], Behind(first, last, w))
      BY <1>1, <2>2 DEF Chained
    <3> QED BY <3>1, <1>2
  <2>3. Carries(messages', pending', last, <<Len(messages') + 1, 0>>)
    BY <1>1 DEF Chained
  <2> QED BY <2>1, <2>2, <2>3 DEF Chained
<1> QED BY <1>3 DEF ChainInv
(* A packet takes the first of the pending words into the next window. *)
LEMMA ChainFills ==
  ASSUME TypeInv, ShapeInv, WindowInv, ChainInv, IOTransact
  PROVE  ChainInv' /\ pending' \in Seq(Words)
<1>0. PICK c \in RingWindows, a \in RingWindows : c = curReadWindow /\ a = active
  BY DEF TypeInv
<1>1. PICK first \in [RingWindows -> Words], last \in Words : Chained(first, last)
  BY DEF ChainInv
<1>2. FillsWindow /\ UNCHANGED messages
  BY IOTransactFills
<1>3. PICK n \in 1 .. Len(pending) :
        data'[a] \in Packets(SubSeq(pending, 1, n)) /\ pending' = SubSeq(pending, n + 1, Len(pending))
  BY <1>0, IOTransactFills
<1> DEFINE end == <<Len(messages) + 1, 0>>
<1>4. messages \in Seq(MessageType) /\ pending \in Seq(Words) /\ end \in Words
  <2>1. messages \in Seq(Messages) /\ pending \in Seq(Words) /\ messages \in Seq(MessageType)
    BY ExpectedType DEF TypeInv
  <2>2. Len(messages) \in Nat
    BY <2>1
  <2> QED BY <2>1, <2>2 DEF Words
<1> HIDE DEF end
<1>5. PICK g \in Words : /\ Carries(messages, SubSeq(pending, 1, n), last, g)
                         /\ Carries(messages, SubSeq(pending, n + 1, Len(pending)), g, end)
  <2>1. Carries(messages, pending, last, end)
    BY <1>1 DEF Chained, end
  <2>2. n \in 0 .. Len(pending)
    OBVIOUS
  <2> QED BY <1>4, <2>1, <2>2, CarriesSplit
<1>6. /\ SubSeq(pending, 1, n) \in Seq(Words)
      /\ SubSeq(pending, n + 1, Len(pending)) \in Seq(Words)
  BY <1>4
<1>7. Carries(messages, data'[a], last, g)
  BY <1>3, <1>4, <1>5, <1>6, CarriesFilled
<1>8. PICK new \in [RingWindows -> Words] : new = [first EXCEPT ![a] = last]
  OBVIOUS
<1>9. \A w \in RingWindows : new[w] = IF w = a THEN last ELSE first[w]
  BY <1>8
<1>10. /\ ~ Filled(a) /\ ~ Used(a)
       /\ \A w \in RingWindows : Filled(w)' <=> Filled(w) \/ w = a
       /\ \A w \in RingWindows : Used(w)' <=> Used(w)
       /\ \A w \in RingWindows : Filled(w) =>
            \/ NextReadWindow(w) = a /\ a # c
            \/ Filled(NextReadWindow(w)) /\ NextReadWindow(w) # c
       /\ NextReadWindow(a) = c \/ ~ Filled(NextReadWindow(a))
       /\ Filled(c) \/ a = c
       /\ curReadWindow' = c
  BY <1>0, <1>2, FillsRing DEF FillsWindow, readerVars, Filled
<1>11. \A w \in RingWindows : Filled(w) => Unread(w)' = Unread(w)
  BY <1>0, <1>2, <1>10 DEF Unread, FillsWindow, TypeInv
<1>12. Unread(a)' = data'[a]
  BY <1>10 DEF Unread
<1>13. Expected' = Expected
  BY <1>2 DEF FillsWindow, Expected, Current, readerVars
<1>14. ASSUME NEW w \in RingWindows, Filled(w)
       PROVE  Behind(new, g, w)' = Behind(first, last, w)
  <2>1. NextReadWindow(w) \in RingWindows
    BY RingFacts
  <2> QED BY <2>1, <1>0, <1>9, <1>10, <1>14 DEF Behind
<1>15. Behind(new, g, a)' = g
  <2>1. NextReadWindow(a) \in RingWindows /\ NextReadWindow(a) # a
    BY RingFacts
  <2> QED BY <2>1, <1>10 DEF Behind
<1>16. Chained(new, g)'
  <2>1. Expected' = IF Filled(c)' THEN new[c] ELSE g
    BY <1>0, <1>1, <1>9, <1>10, <1>13 DEF Chained
  <2>2. ASSUME NEW w \in RingWindows, Filled(w)'
        PROVE  Carries(messages', Unread(w)', new[w], Behind(new, g, w)')
    <3>1. CASE w = a
      BY <3>1, <1>2, <1>7, <1>9, <1>12, <1>15
    <3>2. CASE w # a
      <4>1. Filled(w) /\ new[w] = first[w]
        BY <2>2, <3>2, <1>9, <1>10
      <4>2. Carries(messages, Unread(w), first[w], Behind(first, last, w))
        BY <4>1, <1>1 DEF Chained
      <4> QED BY <4>1, <4>2, <1>2, <1>11, <1>14
    <3> QED BY <3>1, <3>2
  <2>3. Carries(messages', pending', g, <<Len(messages') + 1, 0>>)
    BY <1>2, <1>3, <1>5 DEF end
  <2> QED BY <2>1, <2>2, <2>3, <1>10 DEF Chained
<1> QED BY <1>3, <1>6, <1>16 DEF ChainInv

(* One more message behind those that are pending. *)
LEMMA ChainSend ==
  ASSUME TypeInv, WindowInv, ReaderInv, ChainInv, FPGASend
  PROVE  ChainInv' /\ messages' \in Seq(Messages) /\ pending' \in Seq(Words)
<1>0. PICK c \in RingWindows : c = curReadWindow
  BY DEF TypeInv
<1>1. PICK first \in [RingWindows -> Words], last \in Words : Chained(first, last)
  BY DEF ChainInv
<1>2. PICK x \in Messages : /\ messages' = Append(messages, x)
                            /\ pending' = pending \o WordsOf(Len(messages) + 1, x.chunks)
  BY DEF FPGASend
<1>3. UNCHANGED <<windowVars, readerVars, ioVars>>
  BY DEF FPGASend
<1> DEFINE k == Len(messages)
<1> DEFINE M == messages
<1>4. /\ M \in Seq(Messages) /\ M \in Seq(MessageType) /\ k \in Nat /\ pending \in Seq(Words)
      /\ x \in MessageType
  <2>1. M \in Seq(Messages) /\ pending \in Seq(Words)
    BY DEF TypeInv
  <2>2. M \in Seq(MessageType)
    BY <2>1, MessageTypes
  <2>3. x \in MessageType
    BY ReadRingAssumption DEF Messages, MessageType
  <2>4. k \in Nat
    <3> HIDE DEF Messages, MessageType
    <3> QED BY <2>1
  <2> QED BY <2>1, <2>2, <2>3, <2>4
<1>5. /\ messages' \in Seq(Messages) /\ messages' \in Seq(MessageType)
      /\ Len(messages') = k + 1 /\ messages' # << >>
      /\ messages'[k + 1] = x /\ \A m \in 1 .. k : messages'[m] = M[m]
  <2> HIDE DEF Messages, MessageType
  <2> QED BY <1>2, <1>4, AppendProperties
<1>6. ASSUME NEW s \in Seq(Words), NEW e \in Words, NEW f \in Words, Carries(M, s, e, f)
      PROVE  Carries(messages', s, e, f)
  BY <1>2, <1>4, <1>6, CarriesMonotonic
<1> DEFINE t == WordsOf(k + 1, x.chunks)
<1>7. t \in Seq(Words) /\ Carries(messages', t, <<k + 1, 0>>, <<k + 2, 0>>)
  <2> DEFINE N == messages'
  <2>1. N \in Seq(MessageType) /\ N # << >> /\ Len(N) = k + 1 /\ N[Len(N)] = x /\ k + 1 + 1 = k + 2
    BY <1>4, <1>5
  <2> HIDE DEF N, k
  <2>2. /\ WordsOf(Len(N), N[Len(N)].chunks) \in Seq(Words)
        /\ Carries(N, WordsOf(Len(N), N[Len(N)].chunks), <<Len(N), 0>>, <<Len(N) + 1, 0>>)
    BY <2>1, CarriesMessage
  <2> QED BY <2>1, <2>2 DEF N
<1>8. <<k + 1, 0>> \in Words /\ <<k + 2, 0>> \in Words
  BY <1>4 DEF Words
<1>9. Carries(messages', pending', last, <<k + 2, 0>>) /\ pending' \in Seq(Words)
  <2>1. Carries(M, pending, last, <<k + 1, 0>>)
    BY <1>1 DEF Chained
  <2>2. Carries(messages', pending, last, <<k + 1, 0>>)
    BY <1>4, <1>6, <1>8, <2>1
  <2>3. pending' = pending \o t
    BY <1>2
  <2> HIDE DEF t, k
  <2> QED BY <1>4, <1>7, <1>8, <2>2, <2>3, CarriesConcat, ConcatProperties
<1>10. /\ \A w : Filled(w)' <=> Filled(w)
       /\ \A w : Unread(w)' = Unread(w)
       /\ curReadWindow' = c
  BY <1>0, <1>3 DEF Filled, Used, Fills, Unread, windowVars, readerVars, ioVars
<1>11. Expected' = Expected
  <2>1. Current' = Current /\ got' = got /\ rpc' = rpc
    BY <1>3 DEF Current, readerVars
  <2>2. Current \in Nat /\ Current >= 1
    BY ExpectedType
  <2>3. rpc = "advance" \/ got # << >> => Current \in 1 .. k
    <3>1. rpc \in Between \cup Inside \cup {"advance"}
      BY DEF TypeInv, Between, Inside, Calls
    <3>2. rpc \in Inside \/ rpc = "advance" => Current <= k
      BY DEF ReaderInv
    <3>3. rpc \in Between => got = << >> /\ rpc # "advance"
      BY DEF ReaderInv, Between
    <3> HIDE DEF Current, k
    <3> QED BY <3>1, <3>2, <3>3, <2>2, <1>4
  <2>4. CASE rpc = "advance" \/ got # << >>
    <3>1. messages'[Current] = messages[Current]
      BY <2>3, <2>4, <1>5
    <3> HIDE DEF Current
    <3> QED BY <2>1, <3>1 DEF Expected, Place
  <2>5. CASE rpc # "advance" /\ got = << >>
    <3>1. Len(got) = 0 /\ Len(got') = 0
      BY <2>1, <2>5
    <3> HIDE DEF Current
    <3> QED BY <2>1, <2>5, <3>1 DEF Expected, Place
  <2> QED BY <2>4, <2>5
<1>12. ASSUME NEW w \in RingWindows
       PROVE  /\ Behind(first, last, w)' = Behind(first, last, w)
              /\ Behind(first, last, w) \in Words
  <2>1. NextReadWindow(w) \in RingWindows
    BY RingFacts
  <2> QED BY <2>1, <1>0, <1>10 DEF Behind
<1>13. Chained(first, last)'
  <2>1. Expected' = IF Filled(c)' THEN first[c] ELSE last
    BY <1>0, <1>1, <1>10, <1>11 DEF Chained
  <2>2. ASSUME NEW w \in RingWindows, Filled(w)'
        PROVE  Carries(messages', Unread(w)', first[w], Behind(first, last, w)')
    <3>1. Filled(w) /\ Carries(M, Unread(w), first[w], Behind(first, last, w))
      BY <2>2, <1>1, <1>10 DEF Chained
    <3>2. Unread(w) \in Seq(Words)
      <4>1. data[w] \in Seq(Words) /\ nextReadWordIdx[w] \in Nat
        BY DEF TypeInv
      <4>2. SubSeq(data[w], nextReadWordIdx[w] + 1, Len(data[w])) \in Seq(Words)
        <5> HIDE DEF Words
        <5> QED BY <4>1
      <4> QED BY <4>1, <4>2 DEF Unread
    <3>3. Carries(messages', Unread(w), first[w], Behind(first, last, w))
      BY <3>1, <3>2, <1>6, <1>12
    <3> QED BY <3>3, <1>10, <1>12
  <2>3. Carries(messages', pending', last, <<Len(messages') + 1, 0>>)
    <3>1. Len(messages') + 1 = k + 2
      BY <1>4, <1>5
    <3> QED BY <3>1, <1>9
  <2> QED BY <2>1, <2>2, <2>3, <1>10 DEF Chained
<1> QED BY <1>5, <1>9, <1>13 DEF ChainInv
-----------------------------------------------------------------------------
(* Every step keeps the invariant. *)

LEMMA SendStep == ASSUME ReadInv, FPGASend PROVE ReadInv'
<1>0. TypeInv /\ ShapeInv /\ WindowInv /\ ReaderInv /\ ReceivedInv /\ ChainInv
  BY DEF ReadInv
<1>1. UNCHANGED <<windowVars, readerVars, ioVars>>
  BY DEF FPGASend
<1>2. ChainInv' /\ messages' \in Seq(Messages) /\ pending' \in Seq(Words)
  BY <1>0, ChainSend
<1>3. TypeInv'
  BY <1>0, <1>1, <1>2 DEF TypeInv, windowVars, readerVars, ioVars
<1>4. ShapeInv' /\ WindowInv'
  BY RingPreserved DEF Next
<1>5. Len(messages) \in Nat /\ Len(messages') = Len(messages) + 1
      /\ \A m \in 1 .. Len(messages) : messages'[m] = messages[m]
  <2>1. messages \in Seq(Messages) /\ \E x \in Messages : messages' = Append(messages, x)
    BY <1>0 DEF TypeInv, FPGASend
  <2> HIDE DEF Messages
  <2> QED BY <2>1, AppendProperties
<1>6. Current' = Current /\ Current \in Nat /\ Current >= 1
  BY <1>0, <1>1, ExpectedType DEF Current, readerVars
<1>7. \A m \in 1 .. Len(messages) : MessageWords(m)' = MessageWords(m)
  BY <1>5 DEF MessageWords
<1>8. ReceivedInv'
  <2> DEFINE k == Len(received)
  <2>1. k <= Len(messages) /\ \A m \in 1 .. k : received[m] = MessageWords(m)
    BY <1>0 DEF ReceivedInv
  <2>2. received' = received /\ k \in Nat
    <3>1. k \in Nat
      <4> DEFINE T == Seq(Words)
      <4>1. received \in Seq(T)
        BY <1>0 DEF TypeInv
      <4> HIDE DEF T
      <4> QED BY <4>1
    <3> QED BY <3>1, <1>1 DEF readerVars
  <2>3. \A m \in 1 .. k : received'[m] = MessageWords(m)'
    BY <1>5, <1>7, <2>1, <2>2
  <2> QED BY <1>5, <2>1, <2>2, <2>3 DEF ReceivedInv
<1>9. ReaderInv'
  <2>1. /\ rpc \in Inside \/ rpc = "advance" =>
             Current <= Len(messages) /\ messages'[Current] = messages[Current]
                                      /\ MessageWords(Current)' = MessageWords(Current)
    <3>1. rpc \in Inside \/ rpc = "advance" => Current <= Len(messages)
      BY <1>0 DEF ReaderInv
    <3>2. Current <= Len(messages) => Current \in 1 .. Len(messages)
      <4> HIDE DEF Current
      <4> QED BY <1>5, <1>6
    <3>3. Current \in 1 .. Len(messages) =>
            MessageWords(Current)' = MessageWords(Current) /\ messages'[Current] = messages[Current]
      <4>1. ASSUME Current \in 1 .. Len(messages)
            PROVE  MessageWords(Current)' = MessageWords(Current)
                   /\ messages'[Current] = messages[Current]
        <5>1. messages'[Current] = messages[Current]
          BY <1>5, <4>1
        <5> HIDE DEF Current
        <5> QED BY <5>1, <1>6 DEF MessageWords
      <4> QED BY <4>1
    <3> QED BY <3>1, <3>2, <3>3
  <2>2. /\ UNCHANGED <<rpc, seen, need, got, rIdx, nWords, curReadWindow>>
        /\ Idx' = Idx /\ Used(curReadWindow)' = Used(curReadWindow)
    BY <1>1 DEF windowVars, readerVars, Idx, Used
  <2>3. Len(messages) <= Len(messages')
    BY <1>5
  <2>4. rpc \in Inside =>
       /\ Current' <= Len(messages')
       /\ Len(got) >= 1 /\ Len(got) + need = messages'[Current'].chunks + 1
       /\ \A i \in 1 .. Len(got) : got[i] = <<Current', i - 1>>
    <3> SUFFICES ASSUME rpc \in Inside
                 PROVE  /\ Current' <= Len(messages')
                        /\ Len(got) >= 1 /\ Len(got) + need = messages'[Current'].chunks + 1
                        /\ \A i \in 1 .. Len(got) : got[i] = <<Current', i - 1>>
      OBVIOUS
    <3>1. /\ Len(got) >= 1 /\ Len(got) + need = messages[Current].chunks + 1
          /\ \A i \in 1 .. Len(got) : got[i] = <<Current, i - 1>>
      BY <1>0 DEF ReaderInv
    <3> HIDE DEF Current
    <3> QED BY <1>5, <1>6, <2>1, <3>1
  <2>5. rpc \in {"dma", "handler"} => Len(got) = 1 /\ messages'[Current'].dma
    <3>1. rpc \in {"dma", "handler"} => rpc \in Inside /\ Len(got) = 1 /\ messages[Current].dma
      BY <1>0 DEF ReaderInv, Inside
    <3> HIDE DEF Current
    <3> QED BY <1>6, <2>1, <3>1
  <2>6. rpc = "advance" =>
          /\ Current' <= Len(messages') /\ need = messages'[Current'].chunks
          /\ got = MessageWords(Current)' /\ rIdx = Idx
    <3>1. rpc = "advance" => /\ need = messages[Current].chunks
                             /\ got = MessageWords(Current) /\ rIdx = Idx
      BY <1>0 DEF ReaderInv
    <3> HIDE DEF Current, Idx
    <3> QED BY <1>5, <1>6, <2>1, <3>1
  <2> HIDE DEF Current, Idx, Used, Inside
  <2> QED BY <1>0, <2>2, <2>4, <2>5, <2>6 DEF ReaderInv
<1> QED BY <1>2, <1>3, <1>4, <1>8, <1>9 DEF ReadInv
(* The I/O thread and stuttering leave the reader's facts alone. *)
LEMMA ReaderStays ==
  ASSUME TypeInv, WindowInv, ReaderInv, ReceivedInv, UNCHANGED <<readerVars, messages>>,
         Used(curReadWindow) => Used(curReadWindow)' /\ Idx' = Idx
                                /\ nWords'[curReadWindow] = nWords[curReadWindow]
  PROVE  ReaderInv' /\ ReceivedInv' /\ Expected' = Expected
<1>1. UNCHANGED <<curReadWindow, rpc, seen, need, got, rIdx, received, messages>>
      /\ Current' = Current
  BY DEF readerVars, Current
<1>2. seen > 0 => nWords'[curReadWindow'] = seen
  <2>1. seen > 0 => nWords[curReadWindow] = seen /\ Used(curReadWindow)
    BY DEF ReaderInv, Used, TypeInv
  <2> QED BY <2>1, <1>1
<1>3. rpc \in {"handler", "advance"} =>
        /\ Used(curReadWindow)' /\ Idx' = Idx
        /\ Idx + need <= nWords'[curReadWindow] /\ need # 0
  BY DEF ReaderInv
<1>4. ReaderInv'
  <2>1. rpc = "advance" => rIdx = Idx /\ Idx' = Idx
    BY <1>3 DEF ReaderInv
  <2>2. MessageWords(Current)' = MessageWords(Current)
    BY <1>1 DEF MessageWords
  <2> HIDE DEF Current, Idx, Used
  <2> QED BY <1>1, <1>2, <1>3, <2>1, <2>2 DEF ReaderInv
<1>5. ReceivedInv'
  BY <1>1 DEF ReceivedInv, MessageWords
<1>6. Expected' = Expected
  <2> HIDE DEF Current
  <2> QED BY <1>1 DEF Expected
<1> QED BY <1>4, <1>5, <1>6

LEMMA IOStep == ASSUME ReadInv, IOThread PROVE ReadInv'
<1>0. TypeInv /\ ShapeInv /\ WindowInv /\ ReaderInv /\ ReceivedInv /\ ChainInv
      /\ curReadWindow \in RingWindows /\ active \in RingWindows
  BY DEF ReadInv, TypeInv
<1>1. ShapeInv' /\ WindowInv'
  BY RingPreserved DEF Next
<1>2. CASE IOBusy \/ IOFree
  <2>1. /\ UNCHANGED <<active, useful, windowVars, readerVars, fpgaVars>>
        /\ iopc' \in {"start", "transact"}
    BY <1>2 DEF IOBusy, IOFree
  <2>2. TypeInv'
    BY <1>0, <2>1 DEF TypeInv, windowVars, readerVars, fpgaVars
  <2>3. ReaderInv' /\ ReceivedInv' /\ Expected' = Expected
    BY <1>0, <2>1, ReaderStays DEF windowVars, fpgaVars, readerVars, Used, Idx
  <2>4. \A w : Unread(w)' = Unread(w)
    BY <2>1 DEF Unread, Used, windowVars
  <2>5. \A w \in RingWindows : Filled(w)' <=> Filled(w)
    BY <1>0, <1>2, IOWaitsRing
  <2>6. ChainInv'
    BY <1>0, <2>1, <2>3, <2>4, <2>5, ChainStays DEF readerVars, fpgaVars
  <2> QED BY <1>1, <2>2, <2>3, <2>6 DEF ReadInv
<1>3. CASE IOTransact
  <2>1. FillsWindow /\ UNCHANGED messages
    BY <1>0, <1>3, IOTransactFills
  <2>2. ChainInv' /\ pending' \in Seq(Words)
    BY <1>0, <1>3, ChainFills
  <2>3. TypeInv'
    <3>1. data' \in [RingWindows -> Seq(Words)]
      <4>1. data \in [RingWindows -> Seq(Words)]
        BY <1>0 DEF TypeInv
      <4>2. data' = [data EXCEPT ![active] = data'[active]] /\ data'[active] \in Seq(Words)
        BY <2>1 DEF FillsWindow
      <4> QED BY <4>1, <4>2
    <3>2. useful' \in Nat
      <4> HIDE DEF Words
      <4> QED BY <2>1 DEF FillsWindow
    <3> QED BY <1>0, <2>1, <2>2, <3>1, <3>2 DEF TypeInv, FillsWindow, readerVars
  <2>4. ReaderInv' /\ ReceivedInv'
    BY <1>0, <2>1, ReaderStays DEF FillsWindow, readerVars, Used, Idx
  <2> QED BY <1>1, <2>2, <2>3, <2>4 DEF ReadInv
<1>4. CASE IOTransactEmpty
  <2>1. /\ UNCHANGED <<nWords, nextReadWordIdx, active, useful, readerVars, fpgaVars>>
        /\ data' = [data EXCEPT ![active] = << >>] /\ iopc' = "start"
    BY <1>4 DEF IOTransactEmpty
  <2>2. TypeInv'
    BY <1>0, <2>1, EmptySeq DEF TypeInv, readerVars, fpgaVars
  <2>3. ReaderInv' /\ ReceivedInv' /\ Expected' = Expected
    BY <1>0, <2>1, ReaderStays DEF fpgaVars, readerVars, Used, Idx
  <2>4. ~ Filled(active) /\ \A w \in RingWindows : Filled(w)' <=> Filled(w)
    BY <1>0, <1>4, EmptyPacketRing
  <2>5. \A w \in RingWindows : Filled(w) => Unread(w)' = Unread(w)
    BY <1>0, <2>1, <2>4 DEF Unread, Used, TypeInv
  <2>6. ChainInv'
    BY <1>0, <2>1, <2>3, <2>4, <2>5, ChainStays DEF readerVars, fpgaVars
  <2> QED BY <1>1, <2>2, <2>3, <2>6 DEF ReadInv
<1>5. CASE IOIndex
  <2>1. /\ nextReadWordIdx' = [nextReadWordIdx EXCEPT ![active] = 0] /\ iopc' = "handOff"
        /\ UNCHANGED <<nWords, data, active, useful, readerVars, fpgaVars>>
    BY <1>5 DEF IOIndex
  <2>2. TypeInv'
    BY <1>0, <2>1 DEF TypeInv, readerVars, fpgaVars
  <2>3. /\ ~ Used(active) /\ \A w : Filled(w)' <=> Filled(w)
        /\ \A w : Used(w)' <=> Used(w)
    BY <1>0, <1>5, IOIndexRing
  <2>4. Used(curReadWindow) => Idx' = Idx
    BY <1>0, <2>1, <2>3 DEF Idx, readerVars, TypeInv
  <2>5. ReaderInv' /\ ReceivedInv' /\ Expected' = Expected
    BY <1>0, <2>1, <2>4, ReaderStays DEF fpgaVars, Used, readerVars
  <2>6. \A w \in RingWindows : Unread(w)' = Unread(w)
    BY <1>0, <2>1, <2>3 DEF Unread, Used, TypeInv
  <2>7. ChainInv'
    BY <1>0, <2>1, <2>3, <2>5, <2>6, ChainStays DEF readerVars, fpgaVars
  <2> QED BY <1>1, <2>2, <2>5, <2>7 DEF ReadInv
<1>6. CASE IOHandOff
  <2>1. /\ nWords' = [nWords EXCEPT ![active] = IF @ = 0 THEN useful ELSE @]
        /\ active' = NextReadWindow(active) /\ useful' = 0 /\ iopc' = "start"
        /\ UNCHANGED <<nextReadWordIdx, data, readerVars, fpgaVars>>
    BY <1>6 DEF IOHandOff
  <2>2. TypeInv'
    <3>1. nWords' \in [RingWindows -> Nat]
      BY <1>0, <2>1 DEF TypeInv
    <3> QED BY <1>0, <2>1, <3>1, RingFacts DEF TypeInv, readerVars, fpgaVars
  <2>3. /\ ~ Used(active) /\ nextReadWordIdx[active] = 0
        /\ \A w \in RingWindows : Filled(w)' <=> Filled(w)
        /\ \A w \in RingWindows : Used(w)' <=> Used(w) \/ w = active
    BY <1>0, <1>6, IOHandOffRing
  <2>4. Used(curReadWindow) => /\ Used(curReadWindow)' /\ Idx' = Idx
                               /\ nWords'[curReadWindow] = nWords[curReadWindow]
    BY <1>0, <2>1, <2>3 DEF Idx, readerVars, TypeInv, Used
  <2>5. ReaderInv' /\ ReceivedInv' /\ Expected' = Expected
    BY <1>0, <2>1, <2>4, ReaderStays DEF fpgaVars
  <2>6. ASSUME NEW w \in RingWindows PROVE Unread(w)' = Unread(w)
    <3>1. CASE w = active
      <4>1. data[w] \in Seq(Words)
        BY <1>0 DEF TypeInv
      <4>2. SubSeq(data[w], 0 + 1, Len(data[w])) = data[w]
        <5> HIDE DEF Words
        <5> QED BY <4>1, SubSeqFull
      <4> QED BY <2>1, <2>3, <3>1, <4>2 DEF Unread
    <3>2. CASE w # active
      BY <2>1, <2>3, <3>2 DEF Unread
    <3> QED BY <3>1, <3>2
  <2>7. ChainInv'
    BY <1>0, <2>1, <2>3, <2>5, <2>6, ChainStays DEF readerVars, fpgaVars
  <2> QED BY <1>1, <2>2, <2>5, <2>7 DEF ReadInv
<1> QED BY <1>2, <1>3, <1>4, <1>5, <1>6 DEF IOThread

LEMMA ReaderPreserves == ASSUME ReadInv, NoEmptyDMA, Reader \/ TryRead PROVE ReadInv'
<1>0. TypeInv /\ ShapeInv /\ WindowInv /\ ReaderInv /\ ReceivedInv /\ ChainInv
  BY DEF ReadInv
<1>1. UNCHANGED <<ioVars, fpgaVars>>
  BY ReaderKinds, TryReadKind
<1>2. ShapeInv' /\ WindowInv'
  BY RingPreserved DEF Next
<1>3. ReaderStep
  BY ReaderSteps
<1>4. ReaderTypes' /\ ReaderInv' /\ ReceivedInv'
  BY <1>3 DEF ReaderStep
<1>5. TypeInv'
  <2>1. CASE \E n \in Nat : Takes(n)
    <3>1. PICK n \in Nat : Takes(n)
      BY <2>1
    <3> QED BY <3>1, <1>0, <1>1, <1>4 DEF Takes, TypeInv, ReaderTypes, ioVars, fpgaVars
  <2>2. CASE GivesBack
    BY <2>2, <1>0, <1>1, <1>4, RingFacts DEF GivesBack, TypeInv, ReaderTypes, ioVars, fpgaVars
  <2>3. CASE LeavesRing
    BY <2>3, <1>0, <1>1, <1>4 DEF LeavesRing, windowVars, TypeInv, ReaderTypes, ioVars, fpgaVars
  <2> QED BY <2>1, <2>2, <2>3, <1>3 DEF ReaderStep, Progresses
<1>6. ChainInv'
  <2>1. CASE \E n \in Nat : Progresses(n)
    <3>1. PICK n \in Nat : Progresses(n)
      BY <2>1
    <3>2. Expected' \in Words
      <4> DEFINE k == Len(received')
      <4> DEFINE g == Len(got')
      <4>1. k \in Nat /\ g \in Nat
        <5> DEFINE T == Seq(Words)
        <5>1. received' \in Seq(T) /\ got' \in Seq(Words)
          BY <1>4 DEF ReaderTypes
        <5> HIDE DEF T, Words
        <5> QED BY <5>1
      <4>2. Expected' = Place(messages', k + 1, IF rpc' = "advance" THEN 1 ELSE g)
        BY DEF Expected, Current
      <4> HIDE DEF k, g
      <4> QED BY <4>1, <4>2, PlaceType
    <3> QED BY <1>0, <1>1, <3>1, <3>2, ChainTakes DEF fpgaVars
  <2>2. CASE GivesBack /\ Expected' = Expected
    BY <2>2, <1>0, <1>1, ChainGivesBack DEF fpgaVars
  <2>3. CASE LeavesRing /\ Expected' = Expected
    <3>1. /\ \A w \in RingWindows : Filled(w)' <=> Filled(w)
          /\ \A w \in RingWindows : Unread(w)' = Unread(w)
          /\ UNCHANGED <<curReadWindow, messages, pending>>
          /\ curReadWindow \in RingWindows
      BY <2>3, <1>0, <1>1
         DEF LeavesRing, windowVars, ioVars, fpgaVars, Filled, Used, Fills, Unread, TypeInv
    <3> QED BY <2>3, <3>1, <1>0, ChainStays
  <2> QED BY <2>1, <2>2, <2>3, <1>3 DEF ReaderStep
<1> QED BY <1>2, <1>4, <1>5, <1>6 DEF ReadInv

LEMMA StutterPreserves == ASSUME ReadInv, UNCHANGED vars PROVE ReadInv'
<1>0. TypeInv /\ WindowInv /\ ReaderInv /\ ReceivedInv /\ ChainInv
  BY DEF ReadInv
<1>1. UNCHANGED <<windowVars, readerVars, ioVars, fpgaVars>>
  BY DEF vars
<1>2. ShapeInv' /\ WindowInv'
  BY RingPreserved
<1>3. TypeInv'
  BY <1>0, <1>1 DEF TypeInv, windowVars, readerVars, ioVars, fpgaVars
<1>4. ReaderInv' /\ ReceivedInv' /\ Expected' = Expected
  BY <1>0, <1>1, ReaderStays DEF windowVars, readerVars, fpgaVars, Used, Idx
<1>5. ChainInv'
  <2>1. /\ \A w \in RingWindows : Filled(w)' <=> Filled(w)
        /\ \A w \in RingWindows : Unread(w)' = Unread(w)
        /\ UNCHANGED <<curReadWindow, messages, pending>>
        /\ curReadWindow \in RingWindows
    BY <1>0, <1>1 DEF windowVars, readerVars, ioVars, fpgaVars, Filled, Used, Fills, Unread, TypeInv
  <2> QED BY <2>1, <1>0, <1>4, ChainStays
<1> QED BY <1>2, <1>3, <1>4, <1>5 DEF ReadInv
-----------------------------------------------------------------------------
(* What the runs check, for every ring and every message. *)

(* The inductive invariant. *)
THEOREM ReadRingInvariant == ASSUME NoEmptyDMA PROVE Spec => []ReadInv
<1>1. Init => ReadInv
  BY InitInvariant
<1>2. ReadInv /\ [Next]_vars => ReadInv'
  <2> SUFFICES ASSUME ReadInv, [Next]_vars PROVE ReadInv'
    OBVIOUS
  <2> QED BY ReaderPreserves, IOStep, SendStep, StutterPreserves DEF Next
<1> QED BY <1>1, <1>2, PTL DEF Spec

(* The I/O thread and the reader never use a window at the same time:      *)
(* where the I/O thread has one it is not in use, and the reader's is.     *)
THEOREM OwnershipCorrect == ASSUME NoEmptyDMA PROVE Spec => []WindowOwnership
<1>1. ReadInv => WindowOwnership
  <2> SUFFICES ASSUME ReadInv, iopc # "start"
               PROVE  nWords[active] = 0 /\ (InUse => curReadWindow # active)
    BY DEF WindowOwnership
  <2>1. nWords[active] = 0
    BY DEF ReadInv, WindowInv
  <2>2. InUse => nWords[curReadWindow] # 0
    <3>1. rpc \in {"handler", "advance"} => nWords[curReadWindow] # 0
      BY DEF ReadInv, ReaderInv, Used
    <3>2. seen > 0 => nWords[curReadWindow] # 0
      BY DEF ReadInv, ReaderInv, TypeInv
    <3> QED BY <3>1, <3>2 DEF InUse
  <2> QED BY <2>1, <2>2
<1>2. Spec => []ReadInv
  BY ReadRingInvariant
<1> QED BY <1>1, <1>2, PTL

LEMMA StreamStep ==
  ASSUME ReadInv, ReadInv', [Next]_vars
  PROVE  [Stream!Next]_(Stream!vars)
<1> DEFINE T == Seq(Words)
<1>0. TypeInv /\ ReceivedInv /\ TypeInv' /\ ReceivedInv'
  BY DEF ReadInv
<1>1. /\ received \in Seq(T) /\ received' \in Seq(T) /\ got \in T
      /\ messages \in Seq(Messages) /\ messages' \in Seq(Messages)
  BY <1>0 DEF TypeInv
<1>2. CASE FPGASend
  <2>1. PICK x \in Messages : messages' = Append(messages, x)
    BY <1>2 DEF FPGASend
  <2>2. /\ received' = received /\ Len(messages) < MaxMessages /\ Len(messages) \in Nat
        /\ Len(messages') = Len(messages) + 1
        /\ messages'[Len(messages) + 1] = x
        /\ \A m \in 1 .. Len(messages) : messages'[m] = messages[m]
    <3> HIDE DEF Messages
    <3> QED BY <1>1, <1>2, <2>1, AppendProperties DEF FPGASend, readerVars
  <2>3. WordsOf(Len(messages) + 1, x.chunks) \in WholeMessages
    <3>1. Len(messages) + 1 \in 1 .. MaxMessages
      BY <2>2, ReadRingAssumption
    <3>2. x.chunks \in Payloads \cup DMAPayloads
      BY DEF Messages
    <3> QED BY <3>1, <3>2 DEF WholeMessages
  <2>4. Sent' = Append(Sent, WordsOf(Len(messages) + 1, x.chunks))
    <3> DEFINE k == Len(messages)
    <3>1. Sent' = [m \in 1 .. k + 1 |->
                     IF m = k + 1 THEN WordsOf(k + 1, x.chunks) ELSE MessageWords(m)]
      BY <2>2 DEF Sent, MessageWords
    <3>2. Len(Sent) = k /\ k \in Nat
      BY <2>2 DEF Sent
    <3> HIDE DEF k
    <3>3. \A m \in 1 .. k : Sent[m] = MessageWords(m)
      BY DEF k, Sent
    <3> QED BY <3>1, <3>2, <3>3 DEF k
  <2> QED BY <2>2, <2>3, <2>4 DEF Stream!Next, Stream!Send
<1>3. CASE messages' = messages /\ received' = Append(received, got)
  <2> DEFINE n == Len(received) + 1
  <2>1. Len(received) \in Nat /\ Len(received') = n
    <3> HIDE DEF T
    <3> QED BY <1>1, <1>3, AppendProperties
  <2>2. /\ n \in Len(received) + 1 .. Len(messages) /\ Len(messages) \in Nat
        /\ \A m \in 1 .. n : received'[m] = MessageWords(m)
    <3>1. Len(messages) \in Nat
      <4> HIDE DEF Messages
      <4> QED BY <1>1
    <3>2. n <= Len(messages) /\ \A m \in 1 .. n : received'[m] = MessageWords(m)'
      BY <1>0, <1>3, <2>1 DEF ReceivedInv
    <3>3. \A m \in 1 .. n : MessageWords(m)' = MessageWords(m)
      BY <1>3 DEF MessageWords
    <3> QED BY <2>1, <3>1, <3>2, <3>3
  <2>3. Sent' = Sent /\ Len(Sent) = Len(messages)
    BY <1>3, <2>2 DEF Sent, MessageWords
  <2>4. received' = SubSeq(Sent, 1, n)
    <3> DEFINE R == SubSeq(Sent, 1, n)
    <3>1. n \in Nat
      BY <2>1
    <3>2. R = [m \in 1 .. n |-> MessageWords(m)]
      BY <2>2, <2>3 DEF Sent
    <3>3. received' = [m \in 1 .. n |-> received'[m]]
      <4> HIDE DEF T, n
      <4> QED BY <1>1, <2>1, LenProperties
    <3> HIDE DEF R, n
    <3>4. received' = R
      BY <2>2, <3>2, <3>3
    <3> QED BY <3>4 DEF R
  <2> QED BY <2>2, <2>3, <2>4 DEF Stream!Next, Stream!Deliver
<1>4. CASE UNCHANGED <<messages, received>>
  BY <1>4 DEF Stream!vars, Sent, MessageWords
<1>5. Reader \/ TryRead \/ IOThread \/ UNCHANGED vars =>
        /\ messages' = messages
        /\ received' = received \/ received' = Append(received, got)
  BY DEF Reader, LoadNWords, FirstWord, MoreWords, NextWord, DMATest, DMAHandled, DMARefused,
         DMAAdvance, DMAEnd, Body, BodyWord, TryReadEnd, TryRead, IOThread, IOBusy, IOFree,
         IOTransact, IOTransactEmpty, IOIndex, IOHandOff, vars, readerVars, fpgaVars
<1> QED BY <1>2, <1>3, <1>4, <1>5 DEF Next

(* The ring implements the abstract stream: the client gets the messages   *)
(* that the FPGA sent, each once, whole and in order.                      *)
THEOREM MessagesCorrect == ASSUME NoEmptyDMA PROVE Spec => MessagesInOrder
<1>1. Init => Stream!Init
  BY DEF Init, Stream!Init, Sent
<1>2. ReadInv /\ ReadInv' /\ [Next]_vars => [Stream!Next]_(Stream!vars)
  BY StreamStep
<1>3. Spec => []ReadInv
  BY ReadRingInvariant
<1> QED BY <1>1, <1>2, <1>3, PTL DEF Spec, MessagesInOrder, Stream!Spec
=============================================================================
