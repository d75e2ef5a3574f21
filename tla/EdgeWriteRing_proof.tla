------------------------ MODULE EdgeWriteRing_proof ------------------------
(***************************************************************************)
(* Proofs about the ring of write windows, for every number of windows,    *)
(* every buffer size and every set of message sizes.                       *)
(***************************************************************************)
EXTENDS EdgeWriteRing, SequenceTheorems, TLAPS

(* The sizes computed for a buffer are natural numbers, and a raw buffer   *)
(* is longer than the command word.                                        *)
LEMMA SizesAreNat ==
  /\ MaxWriteWords \in Nat
  /\ \A n \in Nat : PreparedSize(n) \in Nat
  /\ \A n \in Nat : LegalBufSize(n) \in Nat /\ LegalBufSize(n) > 1
<1>1. MaxWriteWords \in Nat
  BY SizesAssumption DEF MaxWriteWords
<1>2. ASSUME NEW n \in Nat PROVE PreparedSize(n) \in Nat
  BY SizesAssumption DEF PreparedSize, CheckedSize
<1>3. ASSUME NEW n \in Nat PROVE LegalBufSize(n) \in Nat /\ LegalBufSize(n) > 1
  BY SizesAssumption DEF LegalBufSize
<1> QED BY <1>1, <1>2, <1>3

(* The successor in the ring is another window. *)
LEMMA RingFacts ==
  /\ 0 \in Windows
  /\ \A w \in Windows : NextWriteWindow(w) \in Windows /\ NextWriteWindow(w) # w
BY RingAssumption DEF Windows, NextWriteWindow

-----------------------------------------------------------------------------
(* Every step preserves the types. *)
LEMMA TypeStep == TypeOK /\ [Next]_vars => TypeOK'
<1> SUFFICES ASSUME TypeOK, [Next]_vars PROVE TypeOK'
  OBVIOUS
<1> USE DEF TypeOK, WriterPC, IOPC
<1>1. CASE WriteCall
  BY <1>1, SizesAssumption, RingAssumption DEF WriteCall, ringVars, ioVars
<1>2. CASE WriteLockTaken
  BY <1>2 DEF WriteLockTaken, ioVars
<1>3. CASE WriteLockSkip
  BY <1>3, RingFacts DEF WriteLockSkip, ringVars, ioVars
<1>4. CASE WriteFits
  BY <1>4 DEF WriteFits, ringVars, ioVars
<1>5. CASE WriteFull
  BY <1>5, RingFacts DEF WriteFull, CompareAndExchange, ioVars
<1>6. CASE WriteCopy
  BY <1>6, SizesAssumption DEF WriteCopy, ioVars
<1>7. CASE WriteUnlock
  BY <1>7 DEF WriteUnlock, CompareAndExchange, ioVars
<1>8. CASE IOPrepare
  <2> DEFINE n == nWords[active]
             m == MarkedWords(n)
  <2>1. n \in Nat /\ m \in Nat
    BY DEF MarkedWords
  <2>2. PreparedSize(m) \in Nat
    BY <2>1, SizesAreNat
  <2>3. OutgoingWords(n) = IF resend THEN n ELSE PreparedSize(m)
    BY DEF OutgoingWords
  <2>4. wWords' = OutgoingWords(n)
    BY <1>8 DEF IOPrepare
  <2>5. wWords' \in Nat
    <3> HIDE DEF n, m
    <3> QED BY <2>1, <2>2, <2>3, <2>4
  <2> QED BY <2>5, <1>8 DEF IOPrepare, ringVars, writerVars
<1>9. CASE IOTransact
  BY <1>9 DEF IOTransact, ringVars, writerVars
<1>10. CASE IOTransactError
  BY <1>10 DEF IOTransactError, ringVars, writerVars
<1>11. CASE IOAck
  <2>1. << >> \in Seq(Nat)
    BY EmptySeq
  <2> QED BY <2>1, <1>11 DEF IOAck, writerVars
<1>12. CASE IONack
  BY <1>12, SizesAreNat DEF IONack, writerVars
<1>13. CASE IOSwap
  BY <1>13, RingFacts DEF IOSwap, CompareAndExchange, writerVars
<1>14. CASE IORelease
  BY <1>14, RingFacts DEF IORelease, CompareAndExchange, writerVars
<1>15. CASE UNCHANGED vars
  BY <1>15 DEF vars, ringVars, writerVars, ioVars
<1> QED
  BY <1>1, <1>2, <1>3, <1>4, <1>5, <1>6, <1>7, <1>8, <1>9, <1>10, <1>11,
     <1>12, <1>13, <1>14, <1>15 DEF Next, Writer, IOThread

LEMMA InitType == Init => TypeOK
BY RingFacts, EmptySeq DEF Init, TypeOK, WriterPC, IOPC

(* The type invariant holds in every reachable state of the ring. *)
THEOREM TypeCorrect == Spec => []TypeOK
<1>1. Init => TypeOK
  BY InitType
<1>2. TypeOK /\ [Next]_vars => TypeOK'
  BY TypeStep
<1> QED BY <1>1, <1>2, PTL DEF Spec

-----------------------------------------------------------------------------
(* The lock words keep telling who uses which window. *)
LEMMA OwnershipStep == TypeOK /\ Ownership /\ [Next]_vars => Ownership'
<1> SUFFICES ASSUME TypeOK, Ownership, [Next]_vars PROVE Ownership'
  OBVIOUS
<1>0. /\ lock \in [Windows -> {0, 1, 2}]
      /\ curWriteWindow \in Windows /\ active \in Windows
  BY DEF TypeOK
<1> USE <1>0, RingFacts DEF Ownership, WriterInside
<1>1. CASE WriteCall
  BY <1>1 DEF WriteCall, ringVars, ioVars
<1>2. CASE WriteLockTaken
  BY <1>2 DEF WriteLockTaken, ioVars
<1>3. CASE WriteLockSkip
  BY <1>3 DEF WriteLockSkip, ringVars, ioVars
<1>4. CASE WriteFits
  BY <1>4 DEF WriteFits, ringVars, ioVars
<1>5. CASE WriteFull
  BY <1>5 DEF WriteFull, CompareAndExchange, ioVars
<1>6. CASE WriteCopy
  BY <1>6 DEF WriteCopy, ioVars
<1>7. CASE WriteUnlock
  BY <1>7 DEF WriteUnlock, CompareAndExchange, ioVars
<1>8. CASE IOPrepare
  BY <1>8 DEF IOPrepare, ringVars, writerVars
<1>9. CASE IOTransact
  BY <1>9 DEF IOTransact, ringVars, writerVars
<1>10. CASE IOTransactError
  BY <1>10 DEF IOTransactError, ringVars, writerVars
<1>11. CASE IOAck
  BY <1>11 DEF IOAck, writerVars
<1>12. CASE IONack
  BY <1>12 DEF IONack, writerVars
<1>13. CASE IOSwap
  BY <1>13 DEF IOSwap, CompareAndExchange, writerVars
<1>14. CASE IORelease
  BY <1>14 DEF IORelease, CompareAndExchange, writerVars
<1>15. CASE UNCHANGED vars
  BY <1>15 DEF vars, ringVars, writerVars, ioVars
<1> QED
  BY <1>1, <1>2, <1>3, <1>4, <1>5, <1>6, <1>7, <1>8, <1>9, <1>10, <1>11,
     <1>12, <1>13, <1>14, <1>15 DEF Next, Writer, IOThread

(* Windows keep room for the end mark, the writer's tests hold until it    *)
(* acts on them, and nWords tells whether a window holds messages.         *)
LEMMA WindowStep ==
  TypeOK /\ Ownership /\ EndMarkFits /\ WindowInv /\ [Next]_vars
    => EndMarkFits' /\ WindowInv'
<1> SUFFICES ASSUME TypeOK, Ownership, EndMarkFits, WindowInv, [Next]_vars
             PROVE  EndMarkFits' /\ WindowInv'
  OBVIOUS
<1>0. /\ nWords \in [Windows -> Nat]
      /\ data \in [Windows -> Seq(Nat)]
      /\ curWriteWindow \in Windows /\ active \in Windows
      /\ msgChunks \in Nat /\ written \in Nat /\ wWords \in Nat
  BY SizesAssumption DEF TypeOK
<1>b. MaxWriteWords \in Nat /\ MaxWriteWords > 1
  BY SizesAreNat, RoomAssumption
<1>a. WriterInside => curWriteWindow # active
  BY <1>0 DEF Ownership
<1> USE <1>0, <1>b DEF EndMarkFits, WindowInv, Fits
<1>1. CASE WriteCall
  BY <1>1, RingAssumption, SizesAssumption DEF WriteCall, ringVars, ioVars
<1>2. CASE WriteLockTaken
  BY <1>2 DEF WriteLockTaken, ioVars
<1>3. CASE WriteLockSkip
  BY <1>3 DEF WriteLockSkip, ringVars, ioVars
<1>4. CASE WriteFits
  BY <1>4 DEF WriteFits, ringVars, ioVars
<1>5. CASE WriteFull
  BY <1>5 DEF WriteFull, CompareAndExchange, ioVars
<1>6. CASE WriteCopy
  <2>1. /\ wpc = "copy" /\ wpc' = "unlock"
        /\ nWords' = [nWords EXCEPT ![curWriteWindow] = @ + msgChunks]
        /\ data' = [data EXCEPT ![curWriteWindow] = Append(@, written + 1)]
        /\ UNCHANGED <<curWriteWindow, msgChunks, iopc, active, resend, nack>>
    BY <1>6 DEF WriteCopy, ioVars
  <2>2. curWriteWindow # active
    BY <1>a, <2>1 DEF WriterInside
  <2>3. msgChunks >= 1 /\ Fits
    BY <2>1
  <2>4. EndMarkFits'
    BY <2>1, <2>2, <2>3
  <2>5. ASSUME NEW w \in Windows
        PROVE  nWords'[w] >= 1 /\ (nWords'[w] = 1 => data'[w] = << >>)
    <3>1. CASE w = curWriteWindow
      BY <3>1, <2>1, <2>3
    <3>2. CASE w # curWriteWindow
      BY <3>2, <2>1
    <3> QED BY <3>1, <3>2
  <2>6. iopc' \in {"swap", "release"} => nWords'[active'] = 1
    BY <2>1, <2>2
  <2> QED BY <2>1, <2>3, <2>4, <2>5, <2>6
<1>7. CASE WriteUnlock
  BY <1>7 DEF WriteUnlock, CompareAndExchange, ioVars
<1>8. CASE IOPrepare
  BY <1>8 DEF IOPrepare, ringVars, writerVars
<1>9. CASE IOTransact
  BY <1>9 DEF IOTransact, ringVars, writerVars
<1>10. CASE IOTransactError
  BY <1>10 DEF IOTransactError, ringVars, writerVars
<1>11. CASE IOAck
  BY <1>11, <1>a DEF IOAck, WriterInside, writerVars
<1>12. CASE IONack
  <2>1. LegalBufSize(wWords) \in Nat /\ LegalBufSize(wWords) > 1
    BY SizesAreNat
  <2> QED BY <2>1, <1>12, <1>a DEF IONack, WriterInside, writerVars
<1>13. CASE IOSwap
  BY <1>13 DEF IOSwap, CompareAndExchange, writerVars
<1>14. CASE IORelease
  BY <1>14 DEF IORelease, CompareAndExchange, writerVars
<1>15. CASE UNCHANGED vars
  BY <1>15 DEF vars, ringVars, writerVars, ioVars
<1> QED
  BY <1>1, <1>2, <1>3, <1>4, <1>5, <1>6, <1>7, <1>8, <1>9, <1>10, <1>11,
     <1>12, <1>13, <1>14, <1>15 DEF Next, Writer, IOThread

-----------------------------------------------------------------------------
(* Distances along the ring: the head is at distance 0, and moving on      *)
(* along the ring adds one until the head is met again.                    *)
LEMMA DistanceFacts ==
  ASSUME NEW h \in Windows
  PROVE  /\ \A w \in Windows : /\ DistanceFrom(h, w) \in Windows
                               /\ DistanceFrom(h, w) = 0 <=> w = h
         /\ \A u, v \in Windows : DistanceFrom(h, u) = DistanceFrom(h, v) => u = v
         /\ \A w \in Windows :
              IF NextWriteWindow(w) = h
              THEN DistanceFrom(h, w) = NumWriteWindows - 1
              ELSE DistanceFrom(h, NextWriteWindow(w)) = DistanceFrom(h, w) + 1
         /\ \A w \in Windows :
              DistanceFrom(NextWriteWindow(h), w) =
                IF w = h THEN NumWriteWindows - 1 ELSE DistanceFrom(h, w) - 1
BY RingAssumption DEF DistanceFrom, Windows, NextWriteWindow

LEMMA HeadInRing == TypeOK => RingHead \in Windows
BY RingFacts DEF TypeOK, RingHead

LEMMA WaitingIsSeq == TypeOK => \A w \in Windows : Waiting(w) \in Seq(Nat)
BY EmptySeq DEF TypeOK, Waiting

(* What a step leaves alone when it does not move messages. *)
QueueUnmoved ==
  /\ UNCHANGED <<delivered, written>>
  /\ RingHead' = RingHead
  /\ \A w \in Windows : Waiting(w)' = Waiting(w)

LEMMA UnmovedStep ==
  QueueUnmoved /\ CoverageInv /\ OrderInv => CoverageInv' /\ OrderInv'
<1> SUFFICES ASSUME QueueUnmoved, CoverageInv, OrderInv
             PROVE  CoverageInv' /\ OrderInv'
  OBVIOUS
<1>1. CoverageInv'
  BY DEF QueueUnmoved, CoverageInv
<1>2. OrderInv'
  BY DEF QueueUnmoved, OrderInv, Distance
<1> QED BY <1>1, <1>2

(* The writer's steps other than the copy move no message. *)
LEMMA WriterUnmoved ==
  \/ WriteCall \/ WriteLockTaken \/ WriteLockSkip \/ WriteFits
  \/ WriteFull \/ WriteUnlock \/ UNCHANGED vars
  => QueueUnmoved
BY DEF WriteCall, WriteLockTaken, WriteLockSkip, WriteFits, WriteFull,
       WriteUnlock, vars, ringVars, writerVars, ioVars, QueueUnmoved, RingHead, Waiting

(* The I/O thread moves messages only in a good transaction, and the head  *)
(* only when it takes the next window.                                     *)
LEMMA IOUnmoved ==
  ASSUME TypeOK, WindowInv,
         \/ IOPrepare \/ IOTransactError \/ IOAck \/ IONack \/ IORelease
  PROVE  QueueUnmoved
<1> USE DEF QueueUnmoved, RingHead, Waiting
<1>1. CASE IOPrepare
  BY <1>1 DEF IOPrepare, TypeOK, WindowInv, ringVars, writerVars
<1>2. CASE IOTransactError
  BY <1>2 DEF IOTransactError, ringVars, writerVars
<1>3. CASE IOAck
  BY <1>3 DEF IOAck, TypeOK, writerVars
<1>4. CASE IONack
  BY <1>4 DEF IONack, writerVars
<1>5. CASE IORelease
  BY <1>5 DEF IORelease, TypeOK, writerVars
<1> QED BY <1>1, <1>2, <1>3, <1>4, <1>5

-----------------------------------------------------------------------------
(* Moving the writer on by one window keeps every message behind it, or    *)
(* brings it to the head for another turn.                                 *)
LEMMA MoveOn ==
  ASSUME TypeOK, TailInv, ~ Wrapped, QueueUnmoved,
         wpc' = "lock", firstPass' = FALSE,
         curWriteWindow' = NextWriteWindow(curWriteWindow)
  PROVE  TailInv'
<1>0. /\ RingHead \in Windows /\ curWriteWindow \in Windows
      /\ NextWriteWindow(curWriteWindow) \in Windows
      /\ \A w \in Windows : Distance(w) \in Windows /\ Distance(w)' = Distance(w)
  BY HeadInRing, RingFacts, DistanceFacts DEF TypeOK, QueueUnmoved, Distance
<1>1. CASE NextWriteWindow(curWriteWindow) = RingHead
  BY <1>1 DEF TailInv, Wrapped, QueueUnmoved
<1>2. CASE NextWriteWindow(curWriteWindow) # RingHead
  <2>1. Distance(curWriteWindow)' = Distance(curWriteWindow) + 1
    BY <1>0, <1>2, DistanceFacts DEF Distance, QueueUnmoved
  <2>2. ASSUME NEW w \in Windows, Waiting(w)' # << >>
        PROVE  Distance(w)' <= Distance(curWriteWindow)'
    <3>1. Distance(w) <= Distance(curWriteWindow)
      BY <2>2 DEF TailInv, QueueUnmoved
    <3> QED BY <3>1, <2>1, <1>0 DEF Windows
  <2> QED BY <2>2 DEF TailInv
<1> QED BY <1>1, <1>2

(* The writer's window stays the last one with messages, over skipping a   *)
(* locked window and moving on from a full one.                            *)
LEMMA WriterTail ==
  ASSUME TypeOK, Ownership, TailInv,
         \/ WriteCall \/ WriteLockTaken \/ WriteLockSkip \/ WriteFits
         \/ WriteFull \/ WriteUnlock \/ UNCHANGED vars
  PROVE  TailInv'
<1>0. /\ QueueUnmoved
      /\ RingHead \in Windows /\ curWriteWindow \in Windows
      /\ \A w \in Windows : Distance(w)' = Distance(w)
  BY WriterUnmoved, HeadInRing DEF TypeOK, QueueUnmoved, Distance
<1>1. CASE WriteCall
  BY <1>1, <1>0 DEF WriteCall, QueueUnmoved, TailInv, Wrapped
<1>2. CASE WriteLockTaken
  <2>1. lock[RingHead] = 1
    BY <1>0 DEF Ownership, RingHead
  <2>2. curWriteWindow # RingHead
    BY <2>1, <1>2 DEF WriteLockTaken
  <2> QED BY <2>2, <1>2, <1>0 DEF WriteLockTaken, QueueUnmoved, TailInv, Wrapped
<1>3. CASE WriteLockSkip
  <2>1. ~ Wrapped
    BY <1>3, Zenon DEF WriteLockSkip, Wrapped
  <2> QED BY <2>1, <1>3, <1>0, MoveOn DEF WriteLockSkip
<1>4. CASE WriteFits
  BY <1>4, <1>0 DEF WriteFits, QueueUnmoved, TailInv, Wrapped
<1>5. CASE WriteFull
  <2>1. ~ Wrapped
    BY <1>5 DEF WriteFull, Wrapped
  <2> QED BY <2>1, <1>5, <1>0, MoveOn DEF WriteFull
<1>6. CASE WriteUnlock
  BY <1>6, <1>0 DEF WriteUnlock, QueueUnmoved, TailInv, Wrapped
<1>7. CASE UNCHANGED vars
  BY <1>7, <1>0 DEF vars, writerVars, QueueUnmoved, TailInv, Wrapped
<1> QED BY <1>1, <1>2, <1>3, <1>4, <1>5, <1>6, <1>7

(* So it does under the steps of the I/O thread that move nothing.         *)
LEMMA IOTail ==
  ASSUME TailInv, QueueUnmoved, UNCHANGED writerVars
  PROVE  TailInv'
BY DEF TailInv, QueueUnmoved, Wrapped, Distance, writerVars

-----------------------------------------------------------------------------
(* Copying a message appends the next number to the window at the tail.    *)
LEMMA CopyStep ==
  ASSUME RingInv, WriteCopy
  PROVE  CoverageInv' /\ OrderInv' /\ TailInv'
<1>0. /\ data \in [Windows -> Seq(Nat)] /\ delivered \in Seq(Nat)
      /\ curWriteWindow \in Windows /\ written \in Nat /\ RingHead \in Windows
      /\ \A w \in Windows : Waiting(w) \in Seq(Nat)
  BY HeadInRing, WaitingIsSeq DEF RingInv, TypeOK
<1>c. PICK c \in Windows : c = curWriteWindow
  BY <1>0
<1>1. /\ c # active /\ ~ Wrapped
      /\ UNCHANGED <<delivered, curWriteWindow, RingHead, active, iopc, nack>>
      /\ written' = written + 1
      /\ data' = [data EXCEPT ![c] = Append(@, written + 1)]
  BY <1>0, <1>c DEF RingInv, Ownership, WriterInside, WriteCopy, Wrapped, ioVars, RingHead
<1>2. /\ Waiting(c)' = Append(Waiting(c), written + 1)
      /\ \A w \in Windows : w # c => Waiting(w)' = Waiting(w)
  BY <1>0, <1>1 DEF Waiting
<1>3. \A w \in Windows : Distance(w)' = Distance(w) /\ Distance(w) \in Windows
  BY <1>0, <1>1, DistanceFacts DEF Distance
<1>4. \A w \in Windows : Waiting(w) # << >> => Distance(w) <= Distance(c)
  BY <1>1, <1>c DEF RingInv, TailInv
<1>5. /\ Len(Waiting(c)') = Len(Waiting(c)) + 1
      /\ Waiting(c)'[Len(Waiting(c)) + 1] = written + 1
      /\ \A k \in 1 .. Len(Waiting(c)) : Waiting(c)'[k] = Waiting(c)[k]
      /\ \A w \in Windows : Len(Waiting(w)) \in Nat
  BY <1>0, <1>2
<1>n. PICK n \in Nat : n = Len(delivered) /\ n = Len(delivered')
  BY <1>0, <1>1
<1>w. written \in Nat /\ written' = written + 1
  BY <1>0, <1>1
<1>6. n <= written /\ \A i \in 1 .. n : delivered[i] = i
  BY <1>n DEF RingInv, CoverageInv
<1>7. \A w \in Windows : \A k \in 1 .. Len(Waiting(w)) :
        Waiting(w)[k] \in n + 1 .. written
  BY <1>n DEF RingInv, CoverageInv
<1>8. \A i \in n + 1 .. written :
        \E w \in Windows : \E k \in 1 .. Len(Waiting(w)) : Waiting(w)[k] = i
  BY <1>n DEF RingInv, CoverageInv
<1>9. CoverageInv'
  <2>1. Len(delivered)' <= written'
    BY <1>n, <1>w, <1>6
  <2>2. \A i \in 1 .. Len(delivered)' : delivered'[i] = i
    BY <1>1, <1>n, <1>6
  <2>3. ASSUME NEW w \in Windows, NEW k \in 1 .. Len(Waiting(w)')
        PROVE  Waiting(w)'[k] \in n + 1 .. written + 1
    <3>1. CASE w = c /\ k = Len(Waiting(c)) + 1
      BY <3>1, <1>w, <1>5, <1>6
    <3>2. CASE w = c /\ k # Len(Waiting(c)) + 1
      <4>1. k \in 1 .. Len(Waiting(c)) /\ Waiting(c)'[k] = Waiting(c)[k]
        BY <3>2, <1>5
      <4> QED BY <3>2, <4>1, <1>7, <1>w
    <3>3. CASE w # c
      <4>1. k \in 1 .. Len(Waiting(w)) /\ Waiting(w)'[k] = Waiting(w)[k]
        BY <3>3, <1>2
      <4> QED BY <4>1, <1>7, <1>w
    <3> QED BY <3>1, <3>2, <3>3
  <2>4. ASSUME NEW i \in n + 1 .. written + 1
        PROVE  \E w \in Windows : \E k \in 1 .. Len(Waiting(w)') : Waiting(w)'[k] = i
    <3>1. CASE i = written + 1
      BY <3>1, <1>5
    <3>2. CASE i # written + 1
      <4>1. i \in n + 1 .. written
        BY <3>2, <1>w
      <4>2. PICK w \in Windows : \E k \in 1 .. Len(Waiting(w)) : Waiting(w)[k] = i
        BY <4>1, <1>8
      <4>3. PICK k \in 1 .. Len(Waiting(w)) : Waiting(w)[k] = i
        BY <4>2
      <4>4. CASE w = c
        BY <4>3, <4>4, <1>5
      <4>5. CASE w # c
        BY <4>3, <4>5, <1>2
      <4> QED BY <4>4, <4>5
    <3> QED BY <3>1, <3>2
  <2> QED BY <2>1, <2>2, <2>3, <2>4, <1>n, <1>w DEF CoverageInv
(* The last message of the tail window is the last one written. *)
<1>10. \A k \in 1 .. Len(Waiting(c)) : Waiting(c)[k] = written - Len(Waiting(c)) + k
  <2> SUFFICES ASSUME NEW k \in 1 .. Len(Waiting(c))
               PROVE  Waiting(c)[k] = written - Len(Waiting(c)) + k
    OBVIOUS
  <2>0. Waiting(c)[k] \in n + 1 .. written
    BY <1>7
  <2>1. written \in n + 1 .. written
    BY <2>0, <1>w
  <2>2. PICK v \in Windows : \E j \in 1 .. Len(Waiting(v)) : Waiting(v)[j] = written
    BY <2>1, <1>8
  <2>3. PICK j \in 1 .. Len(Waiting(v)) : Waiting(v)[j] = written
    BY <2>2
  <2>4. v = c
    <3>1. Waiting(v) # << >>
      BY <1>0, <2>3
    <3>2. Distance(v) <= Distance(c)
      BY <3>1, <1>4
    <3>3. ASSUME Distance(v) < Distance(c) PROVE FALSE
      <4>1. Waiting(v)[j] < Waiting(c)[k]
        BY <3>3, <2>3 DEF RingInv, OrderInv
      <4> QED BY <4>1, <2>0, <2>3, <1>w
    <3>4. Distance(v) = Distance(c)
      BY <3>2, <3>3, <1>3, RingAssumption DEF Windows
    <3> QED BY <3>4, <1>0, DistanceFacts DEF Distance
  <2>5. \A i \in 1 .. Len(Waiting(c)) : Waiting(c)[i] = Waiting(c)[1] + i - 1
    BY DEF RingInv, OrderInv
  <2>6. /\ 1 \in 1 .. Len(Waiting(c))
        /\ Len(Waiting(c)) \in 1 .. Len(Waiting(c))
    BY <1>5
  <2>7. /\ Waiting(c)[1] \in n + 1 .. written
        /\ Waiting(c)[Len(Waiting(c))] \in n + 1 .. written
    BY <2>6, <1>7
  <2>8. j \in 1 .. Len(Waiting(c)) /\ Waiting(c)[j] = written
    BY <2>3, <2>4
  <2>9. /\ Waiting(c)[j] = Waiting(c)[1] + j - 1
        /\ Waiting(c)[k] = Waiting(c)[1] + k - 1
        /\ Waiting(c)[Len(Waiting(c))] = Waiting(c)[1] + Len(Waiting(c)) - 1
    BY <2>5, <2>6, <2>8
  <2>10. PICK len \in Nat : len = Len(Waiting(c))
    BY <1>5
  <2>11. PICK first \in Nat : first = Waiting(c)[1]
    BY <2>7, <1>n, <1>w
  <2>12. first + j - 1 = written /\ first + len - 1 <= written
    BY <2>7, <2>8, <2>9, <2>10, <2>11, <1>w, <1>n
  <2>13. j \in 1 .. len /\ k \in 1 .. len
    BY <2>8, <2>10
  <2>14. first + k - 1 = written - len + k
    BY <2>12, <2>13, <1>w
  <2> QED BY <2>9, <2>10, <2>11, <2>14
<1>11. OrderInv'
  <2>1. ASSUME NEW w \in Windows, NEW k \in 1 .. Len(Waiting(w)')
        PROVE  Waiting(w)'[k] = Waiting(w)'[1] + k - 1
    <3>1. CASE w = c
      <4>1. Len(Waiting(c)) \in Nat
        BY <1>5
      <4>2. ASSUME NEW i \in 1 .. Len(Waiting(c)) + 1
            PROVE  Waiting(c)'[i] = written - Len(Waiting(c)) + i
        <5>1. CASE i = Len(Waiting(c)) + 1
          BY <5>1, <4>1, <1>5, <1>w
        <5>2. CASE i # Len(Waiting(c)) + 1
          <6>1. i \in 1 .. Len(Waiting(c))
            BY <5>2, <4>1
          <6> QED BY <6>1, <1>5, <1>10
        <5> QED BY <5>1, <5>2
      <4>3. k \in 1 .. Len(Waiting(c)) + 1 /\ 1 \in 1 .. Len(Waiting(c)) + 1
        BY <3>1, <4>1, <1>5
      <4> QED BY <3>1, <4>1, <4>2, <4>3, <1>w
    <3>2. CASE w # c
      BY <3>2, <1>2 DEF RingInv, OrderInv
    <3> QED BY <3>1, <3>2
  <2>2. ASSUME NEW u \in Windows, NEW v \in Windows, Distance(u) < Distance(v),
               NEW j \in 1 .. Len(Waiting(u)'), NEW k \in 1 .. Len(Waiting(v)')
        PROVE  Waiting(u)'[j] < Waiting(v)'[k]
    <3>1. u # c
      <4> SUFFICES ASSUME u = c PROVE FALSE
        OBVIOUS
      <4>0. Distance(v) \in Int /\ Distance(c) \in Int
        BY <1>3, RingAssumption DEF Windows
      <4>3. v # c
        BY <2>2, <4>0
      <4>1. v # c /\ Waiting(v)' = Waiting(v)
        BY <4>3, <1>2
      <4>2. Waiting(v) # << >>
        BY <4>1, <1>0
      <4> QED BY <2>2, <4>2, <1>4, <1>3, RingAssumption DEF Windows
    <3>2. j \in 1 .. Len(Waiting(u)) /\ Waiting(u)'[j] = Waiting(u)[j]
      BY <3>1, <1>2
    <3>3. CASE v = c /\ k = Len(Waiting(c)) + 1
      BY <3>2, <3>3, <1>5, <1>7, <1>w, <1>n
    <3>4. CASE ~ (v = c /\ k = Len(Waiting(c)) + 1)
      <4>1. k \in 1 .. Len(Waiting(v)) /\ Waiting(v)'[k] = Waiting(v)[k]
        BY <3>4, <1>2, <1>5
      <4> QED BY <2>2, <3>2, <4>1 DEF RingInv, OrderInv
    <3> QED BY <3>3, <3>4
  <2> QED BY <2>1, <2>2, <1>3 DEF OrderInv
<1>12. TailInv'
  <2> SUFFICES ASSUME NEW w \in Windows, Waiting(w)' # << >>
               PROVE  Distance(w)' <= Distance(curWriteWindow)'
    BY DEF TailInv
  <2>1. Distance(curWriteWindow)' = Distance(c)
    BY <1>c, <1>1, <1>3 DEF Distance
  <2>2. CASE w = c
    BY <2>1, <2>2, <1>3, RingAssumption DEF Windows
  <2>3. CASE w # c
    BY <2>1, <2>3, <1>2, <1>3, <1>4
  <2> QED BY <2>2, <2>3
<1> QED BY <1>9, <1>11, <1>12

-----------------------------------------------------------------------------
(* A good transaction delivers the messages of the head window, which are  *)
(* the next ones in order.                                                 *)
LEMMA TransactStep ==
  ASSUME RingInv, IOTransact
  PROVE  CoverageInv' /\ OrderInv' /\ TailInv'
<1>0. /\ data \in [Windows -> Seq(Nat)] /\ delivered \in Seq(Nat)
      /\ active \in Windows /\ written \in Nat /\ RingHead \in Windows
      /\ \A w \in Windows : Waiting(w) \in Seq(Nat)
  BY HeadInRing, WaitingIsSeq DEF RingInv, TypeOK
<1>a. PICK a \in Windows : a = active
  BY <1>0
<1>t. iopc = "transact" /\ iopc' = "ack" /\ ~ nack /\ ~ nack'
  <2>1. nack' = nack /\ iopc = "transact" /\ iopc' = "ack"
    BY DEF IOTransact
  <2>2. ~ nack
    BY <2>1, Zenon DEF RingInv, WindowInv
  <2> QED BY <2>1, <2>2
<1>1. /\ a = RingHead
      /\ UNCHANGED <<active, RingHead, data, written, curWriteWindow, wpc, firstPass>>
      /\ delivered' = delivered \o data[a]
  BY <1>a, <1>t DEF IOTransact, RingHead, ringVars, writerVars
<1>2. /\ Waiting(a) = data[a] /\ Waiting(a)' = << >>
      /\ \A w \in Windows : w # a => Waiting(w)' = Waiting(w)
  BY <1>a, <1>t, <1>1 DEF Waiting
<1>3. \A w \in Windows : Distance(w)' = Distance(w) /\ Distance(w) \in Windows
  BY <1>0, <1>1, DistanceFacts DEF Distance
<1>d. \A w \in Windows : w # a => Distance(a) < Distance(w)
  <2>1. Distance(a) = 0 /\ \A w \in Windows : w # a => Distance(w) # 0
    BY <1>1, <1>0, DistanceFacts DEF Distance
  <2> QED BY <2>1, <1>3, RingAssumption DEF Windows
<1>n. PICK n \in Nat : n = Len(delivered)
  BY <1>0
<1>l. PICK len \in Nat : len = Len(Waiting(a))
  BY <1>0
<1>w. written' = written /\ written \in Nat
  BY <1>0, <1>1
<1>6. n <= written /\ \A i \in 1 .. n : delivered[i] = i
  BY <1>n DEF RingInv, CoverageInv
<1>7. \A w \in Windows : \A k \in 1 .. Len(Waiting(w)) :
        Waiting(w)[k] \in n + 1 .. written
  BY <1>n DEF RingInv, CoverageInv
<1>8. \A i \in n + 1 .. written :
        \E w \in Windows : \E k \in 1 .. Len(Waiting(w)) : Waiting(w)[k] = i
  BY <1>n DEF RingInv, CoverageInv
<1>9. \A u, v \in Windows :
        Distance(u) < Distance(v) =>
          \A j \in 1 .. Len(Waiting(u)), k \in 1 .. Len(Waiting(v)) :
            Waiting(u)[j] < Waiting(v)[k]
  BY DEF RingInv, OrderInv
(* The head window starts with the first undelivered message. *)
<1>10. \A k \in 1 .. len : Waiting(a)[k] = n + k
  <2> SUFFICES ASSUME NEW k \in 1 .. len PROVE Waiting(a)[k] = n + k
    OBVIOUS
  <2>1. 1 \in 1 .. len /\ len \in Nat
    BY <1>l
  <2>2. PICK first \in n + 1 .. written : first = Waiting(a)[1]
    BY <2>1, <1>l, <1>7
  <2>3. n + 1 \in n + 1 .. written
    BY <2>2, <1>w
  <2>4. PICK v \in Windows : \E j \in 1 .. Len(Waiting(v)) : Waiting(v)[j] = n + 1
    BY <2>3, <1>8
  <2>5. PICK j \in 1 .. Len(Waiting(v)) : Waiting(v)[j] = n + 1
    BY <2>4
  <2>6. v = a
    <3> SUFFICES ASSUME v # a PROVE FALSE
      OBVIOUS
    <3>1. Waiting(a)[1] < Waiting(v)[j]
      BY <1>d, <1>9, <2>1, <1>l
    <3> QED BY <3>1, <2>2, <2>5, <1>w
  <2>7. j \in 1 .. len
    BY <2>5, <2>6, <1>l
  <2>8. \A i \in 1 .. len : Waiting(a)[i] = first + i - 1
    BY <2>2, <1>l DEF RingInv, OrderInv
  <2>9. first + j - 1 = n + 1
    BY <2>5, <2>6, <2>7, <2>8
  <2>10. first = n + 1
    BY <2>9, <2>7, <2>2, <1>w
  <2> QED BY <2>8, <2>10
<1>11. len > 0 => n + len <= written
  <2> SUFFICES ASSUME len > 0 PROVE n + len <= written
    OBVIOUS
  <2>1. Waiting(a)[len] = n + len /\ Waiting(a)[len] \in n + 1 .. written
    BY <1>7, <1>10, <1>l
  <2> QED BY <2>1, <1>w
<1>12. /\ Len(delivered') = n + len
       /\ \A i \in 1 .. n + len :
            delivered'[i] = IF i <= n THEN delivered[i] ELSE Waiting(a)[i - n]
  BY <1>0, <1>1, <1>2, <1>n, <1>l
<1>13. CoverageInv'
  <2>1. Len(delivered)' <= written'
    BY <1>12, <1>11, <1>6, <1>w
  <2>2. ASSUME NEW i \in 1 .. n + len PROVE delivered'[i] = i
    <3>1. CASE i <= n
      BY <3>1, <1>12, <1>6
    <3>2. CASE i > n
      <4>1. i - n \in 1 .. len
        BY <3>2
      <4>2. Waiting(a)[i - n] = n + (i - n)
        BY <4>1, <1>10
      <4> QED BY <3>2, <4>2, <1>12
    <3> QED BY <3>1, <3>2
  <2>3. ASSUME NEW w \in Windows, NEW k \in 1 .. Len(Waiting(w)')
        PROVE  Waiting(w)'[k] \in n + len + 1 .. written
    <3>1. w # a
      BY <1>2
    <3>2. k \in 1 .. Len(Waiting(w)) /\ Waiting(w)'[k] = Waiting(w)[k]
      BY <3>1, <1>2
    <3>3. Waiting(w)[k] \in n + 1 .. written
      BY <3>2, <1>7
    <3>4. CASE len = 0
      BY <3>2, <3>3, <3>4
    <3>5. CASE len > 0
      <4>1. Waiting(a)[len] < Waiting(w)[k]
        BY <3>1, <3>2, <3>5, <1>d, <1>9, <1>l
      <4>2. Waiting(a)[len] = n + len
        BY <3>5, <1>10
      <4> QED BY <3>2, <3>3, <4>1, <4>2, <1>w
    <3> QED BY <3>4, <3>5
  <2>4. ASSUME NEW i \in n + len + 1 .. written
        PROVE  \E w \in Windows : \E k \in 1 .. Len(Waiting(w)') : Waiting(w)'[k] = i
    <3>1. i \in n + 1 .. written
      BY <1>w
    <3>2. PICK w \in Windows : \E k \in 1 .. Len(Waiting(w)) : Waiting(w)[k] = i
      BY <3>1, <1>8
    <3>3. PICK k \in 1 .. Len(Waiting(w)) : Waiting(w)[k] = i
      BY <3>2
    <3>4. w # a
      <4> SUFFICES ASSUME w = a PROVE FALSE
        OBVIOUS
      <4>1. k \in 1 .. len /\ i = n + k
        BY <3>3, <1>l, <1>10
      <4> QED BY <4>1
    <3> QED BY <3>3, <3>4, <1>2
  <2>5. Len(delivered)' = n + len /\ written' = written
    BY <1>12, <1>w
  <2>6. \A i \in 1 .. Len(delivered)' : delivered'[i] = i
    BY <2>2, <2>5
  <2>7. \A w \in Windows : \A k \in 1 .. Len(Waiting(w)') :
          Waiting(w)'[k] \in Len(delivered)' + 1 .. written'
    BY <2>3, <2>5
  <2>8. \A i \in Len(delivered)' + 1 .. written' :
          \E w \in Windows : \E k \in 1 .. Len(Waiting(w)') : Waiting(w)'[k] = i
    BY <2>4, <2>5
  <2> QED BY <2>1, <2>6, <2>7, <2>8 DEF CoverageInv
<1>14. \A w \in Windows : Waiting(w)' # << >> => Waiting(w)' = Waiting(w)
  BY <1>2
<1>15. OrderInv'
  <2>1. \A w \in Windows : \A k \in 1 .. Len(Waiting(w)') :
          Waiting(w)'[k] = Waiting(w)'[1] + k - 1
    BY <1>2 DEF RingInv, OrderInv
  <2>2. ASSUME NEW u \in Windows, NEW v \in Windows, Distance(u)' < Distance(v)',
               NEW j \in 1 .. Len(Waiting(u)'), NEW k \in 1 .. Len(Waiting(v)')
        PROVE  Waiting(u)'[j] < Waiting(v)'[k]
    <3>1. u # a /\ v # a
      BY <1>2
    <3>2. Waiting(u)' = Waiting(u) /\ Waiting(v)' = Waiting(v)
      BY <3>1, <1>2
    <3>3. Distance(u) < Distance(v)
      BY <2>2, <1>3
    <3> QED BY <3>2, <3>3, <1>9
  <2> QED BY <2>1, <2>2 DEF OrderInv
<1>16. TailInv'
  BY <1>1, <1>3, <1>14 DEF RingInv, TailInv, Wrapped, Distance
<1> QED BY <1>13, <1>15, <1>16

(* Taking the next window leaves an empty one behind and makes the next    *)
(* one the head.                                                           *)
LEMMA SwapStep ==
  ASSUME RingInv, IOSwap
  PROVE  CoverageInv' /\ OrderInv' /\ TailInv'
<1>0. /\ active \in Windows /\ curWriteWindow \in Windows
      /\ NextWriteWindow(active) \in Windows /\ RingHead = active
      /\ iopc = "swap"
      /\ UNCHANGED <<delivered, data, active, nack, written, curWriteWindow, wpc, firstPass>>
  BY RingFacts DEF RingInv, TypeOK, IOSwap, RingHead, writerVars
<1>1. data[active] = << >>
  BY <1>0 DEF RingInv, WindowInv
<1>2. \A w \in Windows : Waiting(w)' = Waiting(w)
  BY <1>0 DEF Waiting, IOSwap
<1>3. CASE lock[NextWriteWindow(active)] # 0
  <2>1. QueueUnmoved
    BY <1>0, <1>2, <1>3 DEF IOSwap, QueueUnmoved, RingHead
  <2>2. UNCHANGED writerVars
    BY DEF IOSwap
  <2> QED BY <2>1, <2>2, UnmovedStep, IOTail DEF RingInv
<1>4. CASE lock[NextWriteWindow(active)] = 0
  <2>a. PICK a \in Windows : a = active
    BY <1>0
  <2>c. PICK c \in Windows : c = curWriteWindow /\ c = curWriteWindow'
    BY <1>0
  <2>1. RingHead = a /\ RingHead' = NextWriteWindow(a)
    BY <1>0, <1>4, <2>a DEF IOSwap, RingHead
  <2>2. /\ \A w \in Windows : Distance(w) \in Windows /\ Distance(w)' \in Windows
        /\ Distance(a)' = NumWriteWindows - 1
        /\ \A w \in Windows : w # a => Distance(w)' = Distance(w) - 1
    BY <2>1, RingFacts, DistanceFacts DEF Distance
  <2>3. Waiting(a) = << >> /\ Waiting(a)' = << >>
    BY <1>1, <1>0, <1>2, <2>a DEF Waiting
  <2>4. \A w \in Windows : Distance(w) \in Int /\ Distance(w)' \in Int
                           /\ Distance(w)' <= NumWriteWindows - 1
    BY <2>2, RingAssumption DEF Windows
  <2>5. CoverageInv'
    BY <1>0, <1>2 DEF RingInv, CoverageInv
  <2>6. OrderInv'
    <3>1. \A w \in Windows : \A k \in 1 .. Len(Waiting(w)') :
            Waiting(w)'[k] = Waiting(w)'[1] + k - 1
      BY <1>2 DEF RingInv, OrderInv
    <3>2. ASSUME NEW u \in Windows, NEW v \in Windows, Distance(u)' < Distance(v)',
                 NEW j \in 1 .. Len(Waiting(u)'), NEW k \in 1 .. Len(Waiting(v)')
          PROVE  Waiting(u)'[j] < Waiting(v)'[k]
      <4>1. u # a /\ v # a
        BY <2>3
      <4>2. Waiting(u)' = Waiting(u) /\ Waiting(v)' = Waiting(v)
        BY <1>2
      <4>3. Distance(u) < Distance(v)
        BY <3>2, <4>1, <2>2, <2>4
      <4> QED BY <4>2, <4>3 DEF RingInv, OrderInv
    <3> QED BY <3>1, <3>2 DEF OrderInv
  <2>7. TailInv'
    <3> SUFFICES ASSUME NEW w \in Windows, Waiting(w)' # << >>
                 PROVE  Distance(w)' <= Distance(c)'
      BY <2>c DEF TailInv, Distance
    <3>1. w # a /\ Waiting(w) # << >>
      BY <2>3, <1>2
    <3>2. CASE c = a
      BY <3>2, <2>2, <2>4
    <3>3. CASE c # a
      <4>1. ~ Wrapped
        BY <3>3, <2>1, <2>c DEF Wrapped
      <4>2. Distance(w) <= Distance(c)
        BY <4>1, <3>1, <2>c DEF RingInv, TailInv
      <4> QED BY <4>2, <3>1, <3>3, <2>2, <2>4
    <3> QED BY <3>2, <3>3
  <2> QED BY <2>5, <2>6, <2>7
<1> QED BY <1>3, <1>4

-----------------------------------------------------------------------------
(* The ring starts empty, with the writer at its head. *)
LEMMA InitRing == Init => RingInv
<1> SUFFICES ASSUME Init PROVE RingInv
  OBVIOUS
<1>1. TypeOK
  BY InitType
<1>2. Ownership
  BY RingFacts DEF Init, Ownership, WriterInside
<1>3. EndMarkFits /\ WindowInv
  BY RoomAssumption, SizesAreNat DEF Init, EndMarkFits, WindowInv
<1>4. Len(delivered) = 0 /\ written = 0 /\ \A w \in Windows : Waiting(w) = << >>
  BY DEF Init, Waiting
<1>5. CoverageInv /\ OrderInv
  BY <1>4 DEF CoverageInv, OrderInv
<1>6. TailInv
  BY <1>4 DEF TailInv
<1> QED BY <1>1, <1>2, <1>3, <1>5, <1>6 DEF RingInv

(* The inductive step, one case for each way messages move. *)
LEMMA RingStep == RingInv /\ [Next]_vars => RingInv'
<1> SUFFICES ASSUME RingInv, [Next]_vars PROVE RingInv'
  OBVIOUS
<1>1. TypeOK' /\ Ownership' /\ EndMarkFits' /\ WindowInv'
  BY TypeStep, OwnershipStep, WindowStep DEF RingInv
<1>2. CoverageInv' /\ OrderInv' /\ TailInv'
  <2>1. CASE WriteCopy
    BY <2>1, CopyStep
  <2>2. CASE \/ WriteCall \/ WriteLockTaken \/ WriteLockSkip \/ WriteFits
             \/ WriteFull \/ WriteUnlock \/ UNCHANGED vars
    BY <2>2, WriterUnmoved, UnmovedStep, WriterTail DEF RingInv
  <2>3. CASE IOTransact
    BY <2>3, TransactStep
  <2>4. CASE IOSwap
    BY <2>4, SwapStep
  <2>5. CASE \/ IOPrepare \/ IOTransactError \/ IOAck \/ IONack \/ IORelease
    <3>1. UNCHANGED writerVars
      BY <2>5 DEF IOPrepare, IOTransactError, IOAck, IONack, IORelease
    <3>2. QueueUnmoved
      BY <2>5, IOUnmoved DEF RingInv
    <3> QED BY <3>1, <3>2, UnmovedStep, IOTail DEF RingInv
  <2> QED BY <2>1, <2>2, <2>3, <2>4, <2>5 DEF Next, Writer, IOThread
<1> QED BY <1>1, <1>2 DEF RingInv

(* The inductive invariant of the ring holds: the undelivered messages lie *)
(* in it in the order they were written, from the head to the writer.      *)
THEOREM RingCorrect == Spec => []RingInv
<1>1. Init => RingInv
  BY InitRing
<1>2. RingInv /\ [Next]_vars => RingInv'
  BY RingStep
<1> QED BY <1>1, <1>2, PTL DEF Spec

(* The lock words always say who uses which window: nobody writes into the *)
(* window under a transaction.                                             *)
THEOREM OwnershipCorrect == Spec => []Ownership
<1>1. RingInv => Ownership
  BY DEF RingInv
<1> QED BY <1>1, RingCorrect, PTL

(* There is always room for the end mark. *)
THEOREM EndMarkCorrect == Spec => []EndMarkFits
<1>1. RingInv => EndMarkFits
  BY DEF RingInv
<1> QED BY <1>1, RingCorrect, PTL

(* A window is a whole number m of raw chunks; with check bits, m of its   *)
(* words are checksums and the others can hold messages.                   *)
LEMMA WindowChunks ==
  ASSUME FixErrors
  PROVE  \E m \in Nat :
           /\ MaxMsgWords = m * RawChunkWords
           /\ DataOffset = m
           /\ MaxWriteWords = m * (RawChunkWords - 1)
<1> DEFINE r == RawChunkWords
<1>1. r \in Nat /\ r >= 2 /\ MinMsgWords \in Nat /\ MaxMsgWords \in Nat
      /\ MinMsgWords >= r
  BY SizesAssumption
<1>2. PICK k \in Nat : MinMsgWords = k * r
  <2> DEFINE k == MinMsgWords \div r
  <2>1. MinMsgWords = k * r + (MinMsgWords % r) /\ k \in Nat
    BY <1>1
  <2>2. MinMsgWords % r = 0
    BY GranularityAssumption
  <2> HIDE DEF k
  <2>3. MinMsgWords = k * r
    BY <2>1, <2>2, <1>1
  <2> QED BY <2>1, <2>3
<1>3. PICK j \in Nat : MaxMsgWords = j * MinMsgWords
  <2> DEFINE j == MaxMsgWords \div MinMsgWords
  <2>1. MaxMsgWords = j * MinMsgWords + (MaxMsgWords % MinMsgWords) /\ j \in Nat
    BY <1>1
  <2>2. MaxMsgWords % MinMsgWords = 0
    BY GranularityAssumption
  <2> HIDE DEF j
  <2>3. MaxMsgWords = j * MinMsgWords
    BY <2>1, <2>2, <1>1
  <2> QED BY <2>1, <2>3
<1> DEFINE m == j * k
<1>4. m \in Nat /\ MaxMsgWords = m * r
  BY <1>1, <1>2, <1>3
<1> HIDE DEF m
<1>5. MaxMsgWords \div r = m
  BY <1>1, <1>4
<1>6. (MaxMsgWords * (r - 1)) \div r = m * (r - 1)
  <2>1. MaxMsgWords * (r - 1) = (m * (r - 1)) * r
    BY <1>1, <1>4
  <2> DEFINE q == m * (r - 1)
  <2>2. q \in Nat
    BY <1>1, <1>4
  <2> HIDE DEF q
  <2>3. (q * r) \div r = q
    BY <1>1, <2>2
  <2> QED BY <2>1, <2>3 DEF q
<1> QED BY <1>4, <1>5, <1>6 DEF DataOffset, MaxWriteWords

(* n words need at most as many chunks of d words as m, when they fit m.   *)
LEMMA ChunkCount ==
  ASSUME NEW d \in Nat, d >= 1, NEW m \in Nat, NEW n \in Nat, n <= m * d
  PROVE  n \div d \in 0 .. m /\ (n + d - 1) \div d \in 0 .. m
<1> DEFINE q == n \div d
           c == (n + d - 1) \div d
<1>1. q \in Nat /\ c \in Nat /\ q * d <= n /\ c * d <= n + d - 1
  OBVIOUS
<1> HIDE DEF q, c
<1>2. q * d <= m * d /\ c * d < (m + 1) * d
  BY <1>1
<1>3. ~ (q >= m + 1)
  <2> SUFFICES ASSUME q >= m + 1 PROVE FALSE
    OBVIOUS
  <2>1. q * d >= (m + 1) * d
    BY <1>1
  <2> QED BY <2>1, <1>2, <1>1
<1>4. ~ (c >= m + 1)
  <2> SUFFICES ASSUME c >= m + 1 PROVE FALSE
    OBVIOUS
  <2>1. c * d >= (m + 1) * d
    BY <1>1
  <2> QED BY <2>1, <1>2, <1>1
<1> QED BY <1>1, <1>3, <1>4 DEF q, c

(* InsertCheckBits never overwrites a word of a message it has not read,   *)
(* and its result fits the window, whatever the sizes of window and chunk. *)
THEOREM CheckBitsCorrect == Spec => []CheckBitsFit
<1>1. RingInv => CheckBitsFit
  <2> SUFFICES ASSUME RingInv, FixErrors,
                      NEW w \in Windows, ~ (w = active /\ resend)
               PROVE  LET n == MarkedWords(nWords[w])
                      IN  /\ \A k \in 0 .. n - 1 : CopyDst(k) <= CopySrc(k)
                          /\ CopySrc(n) <= MaxMsgWords
                          /\ CheckedSize(n) <= MaxMsgWords
    BY DEF CheckBitsFit
  <2> DEFINE n == MarkedWords(nWords[w])
             r == RawChunkWords
             d == r - 1
  <2>1. r \in Nat /\ d \in Nat /\ d >= 1 /\ MaxMsgWords \in Nat
    BY SizesAssumption
  <2>2. PICK m \in Nat : /\ MaxMsgWords = m * r
                         /\ DataOffset = m
                         /\ MaxWriteWords = m * d
    BY WindowChunks
  <2>3. n \in Nat /\ n <= m * d
    <3> DEFINE p == m * d
    <3>1. MaxWriteWords = p
      BY <2>2
    <3>2. p \in Nat
      BY <3>1, SizesAreNat
    <3>3. nWords[w] \in Nat /\ nWords[w] < MaxWriteWords
      BY DEF RingInv, TypeOK, EndMarkFits
    <3> HIDE DEF p
    <3>4. n \in Nat /\ n <= p
      BY <3>1, <3>2, <3>3 DEF MarkedWords
    <3> QED BY <3>4 DEF p
  <2>4. ASSUME NEW k \in 0 .. n - 1 PROVE CopyDst(k) <= CopySrc(k)
    <3>1. k \in Nat /\ k <= m * d
      <4> HIDE DEF n, d
      <4> QED BY <2>1, <2>3
    <3>2. k \div d \in 0 .. m
      <4> HIDE DEF d
      <4> QED BY <3>1, <2>1, ChunkCount
    <3>3. DataPerChunk = d
      BY DEF DataPerChunk
    <3> HIDE DEF d
    <3> QED BY <3>1, <3>2, <3>3, <2>2 DEF CopyDst, CopySrc
  <2>5. m * d + m = m * r
    BY <2>1
  <2>6. CopySrc(n) <= MaxMsgWords
    <3> DEFINE p == m * d
    <3>1. p \in Nat /\ n <= p /\ MaxMsgWords = p + m
      BY <2>1, <2>2, <2>3, <2>5
    <3> HIDE DEF p, n, d
    <3> QED BY <3>1, <2>2, <2>3 DEF CopySrc
  <2>7. CheckedSize(n) <= MaxMsgWords
    <3> DEFINE c == (n + d - 1) \div d
    <3>1. c \in 0 .. m
      <4> HIDE DEF n, d
      <4> QED BY <2>1, <2>3, ChunkCount
    <3>2. CheckedSize(n) = c * r
      BY DEF CheckedSize
    <3> HIDE DEF c, n, d
    <3>3. c * r <= m * r
      BY <3>1, <2>1
    <3> QED BY <3>2, <3>3, <2>2
  <2> QED BY <2>4, <2>6, <2>7
<1> QED BY <1>1, RingCorrect, PTL

(* No message that Write accepted is lost on its way to the FPGA. *)
THEOREM NothingLostCorrect == Spec => []NothingLost
<1>1. RingInv => NothingLost
  <2> SUFFICES ASSUME RingInv, NEW i \in Len(delivered) + 1 .. written
               PROVE  \E w \in Windows : \E k \in DOMAIN data[w] : data[w][k] = i
    BY DEF NothingLost
  <2>1. PICK w \in Windows : \E k \in 1 .. Len(Waiting(w)) : Waiting(w)[k] = i
    BY DEF RingInv, CoverageInv
  <2>2. PICK k \in 1 .. Len(Waiting(w)) : Waiting(w)[k] = i
    BY <2>1
  <2>3. Waiting(w) \in Seq(Nat) /\ data[w] \in Seq(Nat)
    BY WaitingIsSeq DEF RingInv, TypeOK
  <2>4. Waiting(w) = data[w]
    BY <2>2, <2>3 DEF Waiting
  <2> QED BY <2>2, <2>3, <2>4
<1> QED BY <1>1, RingCorrect, PTL

(* The buffer the FPGA reads does not change under the transaction. *)
THEOREM BufferStableCorrect == Spec => BufferStable
<1>1. RingInv /\ [Next]_vars
        => [iopc = "transact" =>
              /\ data'[active] = data[active]
              /\ nWords'[active] = nWords[active]]_vars
  <2> SUFFICES ASSUME RingInv, [Next]_vars, iopc = "transact"
               PROVE  data'[active] = data[active] /\ nWords'[active] = nWords[active]
    OBVIOUS
  <2>1. CASE WriteCopy
    <3>1. curWriteWindow # active
      BY <2>1 DEF WriteCopy, RingInv, Ownership, WriterInside, TypeOK
    <3> QED BY <3>1, <2>1 DEF WriteCopy, RingInv, TypeOK
  <2>2. CASE ~ WriteCopy
    BY <2>2 DEF Next, Writer, IOThread, WriteCall, WriteLockTaken, WriteLockSkip,
         WriteFits, WriteFull, WriteUnlock, IOPrepare, IOTransact, IOTransactError,
         IOAck, IONack, IOSwap, IORelease, vars, ringVars
  <2> QED BY <2>1, <2>2
<1> QED BY <1>1, RingCorrect, PTL DEF Spec, BufferStable

-----------------------------------------------------------------------------
(* What the client wrote, as the abstract channel sees it. *)
Sent == [i \in 1 .. written |-> i]

(* Copying a message sends it, a good transaction delivers the whole       *)
(* window, and no other step is visible to the clients.                    *)
LEMMA StreamStep == RingInv /\ RingInv' /\ [Next]_vars => [Stream!Next]_(Stream!vars)
<1> SUFFICES ASSUME RingInv, RingInv', [Next]_vars
             PROVE  [Stream!Next]_(Stream!vars)
  OBVIOUS
<1>0. /\ written \in Nat /\ delivered \in Seq(Nat)
      /\ Len(delivered) <= written
      /\ \A i \in 1 .. Len(delivered) : delivered[i] = i
      /\ written' \in Nat /\ delivered' \in Seq(Nat)
      /\ Len(delivered') <= written'
      /\ \A i \in 1 .. Len(delivered') : delivered'[i] = i
  BY DEF RingInv, TypeOK, CoverageInv
<1>1. CASE WriteCopy
  <2>1. written' = written + 1 /\ written < MaxWrites /\ UNCHANGED delivered
    BY <1>1 DEF WriteCopy, ioVars, RingInv, WindowInv
  <2>2. written + 1 \in 1 .. MaxWrites
    BY <2>1, <1>0, RingAssumption
  <2>3. Sent' = Append(Sent, written + 1)
    BY <2>1, <1>0 DEF Sent
  <2> QED BY <2>1, <2>2, <2>3 DEF Stream!Next, Stream!Send, Sent
<1>2. CASE IOTransact
  <2>1. UNCHANGED written /\ delivered' = delivered \o data[active]
    BY <1>2 DEF IOTransact, writerVars
  <2>2. data[active] \in Seq(Nat)
    BY DEF RingInv, TypeOK
  <2>3. Sent' = Sent /\ Len(Sent) = written
    BY <2>1, <1>0 DEF Sent
  <2>4. CASE data[active] = << >>
    BY <2>1, <2>3, <2>4, <1>0 DEF Stream!vars, Sent
  <2>5. CASE data[active] # << >>
    <3>1. PICK n \in Nat : n = Len(delivered')
      BY <1>0
    <3>2. n \in Len(delivered) + 1 .. Len(Sent)
      BY <2>1, <2>2, <2>3, <2>5, <3>1, <1>0
    <3>3. delivered' = SubSeq(Sent, 1, n)
      BY <3>1, <3>2, <2>3, <1>0 DEF Sent
    <3> QED BY <3>2, <3>3, <2>3 DEF Stream!Next, Stream!Deliver, Sent
  <2> QED BY <2>4, <2>5
<1>3. CASE ~ WriteCopy /\ ~ IOTransact
  <2>1. UNCHANGED <<written, delivered>>
    BY <1>3 DEF Next, Writer, IOThread, WriteCall, WriteLockTaken, WriteLockSkip,
         WriteFits, WriteFull, WriteUnlock, IOPrepare, IOTransactError, IOAck,
         IONack, IOSwap, IORelease, vars, writerVars, ioVars
  <2> QED BY <2>1 DEF Stream!vars
<1> QED BY <1>1, <1>2, <1>3

(* The ring delivers every message once, in the order Write was called: it *)
(* implements the abstract channel.                                        *)
THEOREM DeliversInOrder == Spec => InOrderDelivery
<1>1. Init => Stream!Init
  BY DEF Init, Stream!Init
<1>2. RingInv /\ RingInv' /\ [Next]_vars => [Stream!Next]_(Stream!vars)
  BY StreamStep
<1> QED BY <1>1, <1>2, RingCorrect, PTL DEF Spec, InOrderDelivery, Stream!Spec
=============================================================================
