------------------------- MODULE EdgeDevice_proof --------------------------
(***************************************************************************)
(* Proofs about the host's handle on the module and the pair's devices for *)
(* one another, for any number of windows, any sizes, any depth of the     *)
(* queues and any number of words.                                         *)
(***************************************************************************)
EXTENDS EdgeDevice, SequenceTheorems, TLAPS

(* The step that gets the workspace. *)
AllocatedAt == IF variant = "v2" THEN 7 ELSE 10

Paired == variant # "v2"

(* FPGA 1 never runs without FPGA 0, for Init configures them in order. *)
ConfigurationInv ==
  /\ configured[1] => configured[0]
  /\ main = "init" /\ Paired /\ place > 5 => configured[0]

(* The word Ready is on its way to FPGA 0. *)
Awaits(f) == IF f = 0 /\ initialized[1] /\ ~initialized[0] THEN 1 ELSE 0

(* A device that is up has a configured FPGA, and FPGA 0's is never the    *)
(* first; while one is not up it has sent nothing, and nobody anything to  *)
(* receive.                                                                *)
BringUpInv ==
  /\ \A f \in FPGA : initialized[f] => configured[f]
  /\ initialized[0] => initialized[1]
  /\ \A f \in FPGA : ~initialized[f] =>
       /\ sent[f] = 0 /\ \A g \in FPGA : got[g] = << >>
       /\ writeQ[f] = << >> /\ readQ[Other(f)] = << >>

(* Words received, waiting at the receiver and waiting at the sender have  *)
(* the numbers that follow one another; a of them have numbers below 1.    *)
Numbered(received, near, far, a) ==
  /\ \A i \in DOMAIN received : received[i] = i
  /\ \A i \in DOMAIN near : near[i] = Len(received) - a + i
  /\ \A i \in DOMAIN far : far[i] = Len(received) - a + Len(near) + i

Flow(received, near, far, a, last) ==
  /\ Numbered(received, near, far, a)
  /\ Len(received) + Len(near) + Len(far) = last + a

(* Between the clients no word is missing, and none is there twice.        *)
StreamInv ==
  \A f \in FPGA : Flow(got[f], readQ[f], writeQ[Other(f)], Awaits(f), sent[Other(f)])

(* Where the handles still are as Init left them. *)
Kept ==
  \/ main \in {"init", "running", "exit", "cancel"}
  \/ variant = "v2" /\ main \in {"uninit", "delete"}

AllAre(state) == \A h \in Handles : lib[h] = state

(* The I/O thread is there from the end of Init on.  What a transaction    *)
(* sends lies in the write windows, what it receives in the read windows.  *)
ThreadInv ==
  /\ main = "init" => io = "none"
  /\ main \in {"running", "cancel", "delete"} => io # "none"
  /\ main \in {"delete", "deleted", "ended"} => io = "gone"
  /\ copy.out \subseteq 0 .. GetReadWindow(0) - 1
  /\ copy.in \subseteq GetReadWindow(0) .. WorkspaceWords - 1

(* The workspace is the last handle that Init gets: where it is there, the *)
(* others are, and where the I/O thread is, it is there.                   *)
HandlesInv ==
  /\ main = "init" /\ place > AllocatedAt => workspace
  /\ Kept => /\ ~didCleanup
             /\ workspace => AllAre("open")
             /\ io # "none" => workspace
  /\ variant = "debugger" /\ ~Kept => ~workspace
  /\ variant = "debugger" /\ main = "delete" => AllAre("closed")
  /\ variant # "null" /\ main = "deleted" => AllAre("closed")
  /\ variant # "null" => misuse = {}

DeviceInv ==
  /\ TypeOK /\ ConfigurationInv /\ BringUpInv /\ StreamInv /\ ThreadInv /\ HandlesInv
-----------------------------------------------------------------------------
(* The order of the steps of Init. *)
LEMMA StepOrder ==
  ASSUME variant \in Variants
  PROVE  /\ Len(InitSteps[variant]) \in Nat /\ Len(InitSteps[variant]) >= AllocatedAt
         /\ DOMAIN InitSteps[variant] = 1 .. Len(InitSteps[variant])
         /\ AllocatedAt \in Nat /\ InitSteps[variant][AllocatedAt] = "Allocate"
         /\ Paired => InitSteps[variant][5] = "Configure0"
         /\ \A i \in DOMAIN InitSteps[variant] :
              /\ InitSteps[variant][i] = "Configure1" => i > 5 /\ Paired
              /\ InitSteps[variant][i] = "Configure0" => i = 5
<1>1. CASE variant = "v2"
  BY <1>1 DEF InitSteps, InitV2, AllocatedAt, Paired
<1>2. CASE variant = "debugger"
  BY <1>2 DEF InitSteps, InitDebugger, AllocatedAt, Paired
<1>3. CASE variant = "null"
  BY <1>3 DEF InitSteps, InitNull, AllocatedAt, Paired
<1> QED BY <1>1, <1>2, <1>3, DeviceAssumption

(* A window of either kind lies among its own kind. *)
LEMMA WindowsApart ==
  ASSUME NEW w \in 0 .. NumWriteWindows - 1, NEW r \in 0 .. NumReadWindows - 1,
         NEW n \in LegalSizes, NEW m \in LegalSizes, Accepted(w, n, r, m)
  PROVE  /\ Words(GetWriteWindow(w), n) \subseteq 0 .. GetReadWindow(0) - 1
         /\ Words(GetReadWindow(r), m) \subseteq GetReadWindow(0) .. WorkspaceWords - 1
<1>1. n \in Nat /\ m \in Nat /\ n <= MaxMsgWords /\ m <= MaxMsgWords
  BY SizesAssumption DEF LegalSizes, LegalBufSize, Accepted
<1>2. ASSUME NEW i \in Nat, NEW k \in Nat, i + 1 <= k
      PROVE  /\ i * MaxMsgWords \in Nat /\ k * MaxMsgWords \in Nat
             /\ i * MaxMsgWords + MaxMsgWords <= k * MaxMsgWords
  BY <1>2, SizesAssumption
<1>3. w \in Nat /\ w + 1 <= NumWriteWindows /\ r \in Nat /\ r + 1 <= NumReadWindows
  BY DeviceAssumption
<1>4. /\ w * MaxMsgWords \in Nat
      /\ w * MaxMsgWords + MaxMsgWords <= NumWriteWindows * MaxMsgWords
  BY <1>2, <1>3, DeviceAssumption
<1>5. /\ (NumWriteWindows + r) * MaxMsgWords \in Nat
      /\ (NumWriteWindows + r) * MaxMsgWords + MaxMsgWords <= (NumWriteWindows + NumReadWindows) * MaxMsgWords
  BY <1>2, <1>3, DeviceAssumption
<1>6. NumWriteWindows * MaxMsgWords \in Nat /\ NumWriteWindows * MaxMsgWords <= (NumWriteWindows + r) * MaxMsgWords
  BY <1>3, DeviceAssumption, SizesAssumption
<1>7. /\ (NumWriteWindows + NumReadWindows) * MaxMsgWords \in Nat
      /\ (NumWriteWindows + 0) * MaxMsgWords = NumWriteWindows * MaxMsgWords
  BY DeviceAssumption, SizesAssumption
<1>8. ASSUME NEW first \in Int, NEW size \in Int, NEW low \in Int, NEW high \in Int,
             low <= first, first + size <= high
      PROVE  Words(first, size) \subseteq low .. high - 1
  BY <1>8 DEF Words
<1>9. Words(w * MaxMsgWords, n) \subseteq 0 .. NumWriteWindows * MaxMsgWords - 1
  <2>1. w * MaxMsgWords + n <= NumWriteWindows * MaxMsgWords
    BY <1>1, <1>4, <1>6, SizesAssumption
  <2> QED BY <2>1, <1>1, <1>4, <1>6, <1>8
<1>10. Words((NumWriteWindows + r) * MaxMsgWords, m) \subseteq
         NumWriteWindows * MaxMsgWords .. (NumWriteWindows + NumReadWindows) * MaxMsgWords - 1
  <2>1. (NumWriteWindows + r) * MaxMsgWords + m <= (NumWriteWindows + NumReadWindows) * MaxMsgWords
    BY <1>1, <1>5, <1>7, SizesAssumption
  <2> QED BY <2>1, <1>1, <1>5, <1>6, <1>7, <1>8
<1> QED
  BY <1>7, <1>9, <1>10 DEF GetWriteWindow, GetReadWindow, WorkspaceWords

-----------------------------------------------------------------------------
(* The read windows follow the write windows. *)
LEMMA SpaceIsNat ==
  /\ GetReadWindow(0) \in Nat /\ WorkspaceWords \in Nat /\ GetReadWindow(0) <= WorkspaceWords
  /\ 0 .. GetReadWindow(0) - 1 \subseteq Nat
  /\ GetReadWindow(0) .. WorkspaceWords - 1 \subseteq Nat
<1>1. NumWriteWindows + 0 \in Nat /\ NumWriteWindows + NumReadWindows \in Nat
  BY DeviceAssumption
<1>2. GetReadWindow(0) \in Nat /\ WorkspaceWords \in Nat
  BY <1>1, SizesAssumption DEF GetReadWindow, WorkspaceWords
<1>3. GetReadWindow(0) <= WorkspaceWords
  <2>1. \A a, b, m \in Nat : (a + 0) * m <= (a + b) * m
    OBVIOUS
  <2> QED BY <2>1, DeviceAssumption, SizesAssumption DEF GetReadWindow, WorkspaceWords
<1> QED BY <1>2, <1>3

(* A queue that loses its first word, and one that gets another. *)
LEMMA Dequeued ==
  ASSUME NEW S, NEW q \in Seq(S), q # << >>
  PROVE  /\ Head(q) \in S /\ Head(q) = q[1] /\ Tail(q) \in Seq(S)
         /\ Len(q) \in Nat /\ Len(q) > 0 /\ Len(Tail(q)) = Len(q) - 1
         /\ DOMAIN q = 1 .. Len(q) /\ DOMAIN Tail(q) = 1 .. Len(q) - 1
         /\ \A i \in 1 .. Len(q) - 1 : Tail(q)[i] = q[i + 1]
<1>1. Len(q) \in Nat /\ Len(q) > 0 /\ DOMAIN q = 1 .. Len(q)
  BY EmptySeq
<1>2. Tail(q) \in Seq(S) /\ Len(Tail(q)) = Len(q) - 1 /\ \A i \in 1 .. Len(q) - 1 : Tail(q)[i] = q[i + 1]
  BY HeadTailProperties
<1>3. Head(q) \in S
  BY HeadTailProperties
<1>4. Head(q) = q[1]
  OBVIOUS
<1> QED BY <1>1, <1>2, <1>3, <1>4

LEMMA Enqueued ==
  ASSUME NEW S, NEW q \in Seq(S), NEW e \in S
  PROVE  /\ Append(q, e) \in Seq(S)
         /\ Len(q) \in Nat /\ Len(Append(q, e)) = Len(q) + 1
         /\ DOMAIN q = 1 .. Len(q) /\ DOMAIN Append(q, e) = 1 .. Len(q) + 1
         /\ \A i \in 1 .. Len(q) : Append(q, e)[i] = q[i]
         /\ Append(q, e)[Len(q) + 1] = e
BY AppendProperties

(* Every step of the pair's devices preserves their types. *)
LEMMA IntraTypeStep ==
  ASSUME IntraTypeOK, IntraNext
  PROVE  IntraTypeOK'
<1> USE IntraAssumption DEF IntraTypeOK, FPGA, Ready
<1> SUFFICES ASSUME NEW f \in FPGA, Rule(f) \/ Enq(f), UNCHANGED configured
             PROVE  IntraTypeOK'
  BY DEF IntraNext
<1> DEFINE Word == 0 .. MaxWords
<1>1. CASE DoInit(f) /\ UNCHANGED <<sent, got>>
  <2>1. CASE UNCHANGED writeQ /\ readQ[f] # << >> /\ readQ' = [readQ EXCEPT ![f] = Tail(@)]
    <3>1. Tail(readQ[f]) \in Seq(Word) /\ Len(readQ[f]) \in Nat /\ Len(Tail(readQ[f])) = Len(readQ[f]) - 1
      BY <2>1, Dequeued
    <3> QED BY <1>1, <2>1, <3>1 DEF DoInit
  <2>2. CASE EnqWrite(f, Ready) /\ UNCHANGED readQ
    <3>1. Append(writeQ[f], Ready) \in Seq(Word)
          /\ Len(writeQ[f]) \in Nat /\ Len(Append(writeQ[f], Ready)) = Len(writeQ[f]) + 1
      BY Enqueued
    <3> QED BY SMTT(30), <1>1, <2>2, <3>1 DEF DoInit, EnqWrite
  <2> QED BY <1>1, <2>1, <2>2 DEF DoInit
<1>2. CASE Transfer(f) /\ UNCHANGED <<initialized, sent, got>>
  <2> DEFINE o == Other(f)
  <2>1. o \in FPGA
    BY DEF Other
  <2>2. writeQ[f] \in Seq(Word) /\ readQ[o] \in Seq(Word) /\ writeQ[f] # << >>
    BY <1>2, <2>1 DEF Transfer
  <2>3. Head(writeQ[f]) \in Word /\ Tail(writeQ[f]) \in Seq(Word)
        /\ Len(writeQ[f]) \in Nat /\ Len(Tail(writeQ[f])) = Len(writeQ[f]) - 1
    BY <2>2, Dequeued
  <2>4. writeQ' = [writeQ EXCEPT ![f] = Tail(@)]
    BY <1>2 DEF Transfer
  <2>5. CASE UNCHANGED readQ
    BY SMTT(30), <1>2, <2>3, <2>4, <2>5
  <2>6. CASE Len(readQ[o]) < QueueDepth /\ readQ' = [readQ EXCEPT ![o] = Append(@, Head(writeQ[f]))]
    <3>1. Append(readQ[o], Head(writeQ[f])) \in Seq(Word)
          /\ Len(readQ[o]) \in Nat /\ Len(Append(readQ[o], Head(writeQ[f]))) = Len(readQ[o]) + 1
      BY SMTT(30), <2>2, <2>3, Enqueued
    <3>2. readQ' \in [FPGA -> Seq(Word)] /\ \A g \in FPGA : Len(readQ'[g]) <= QueueDepth
      BY SMTT(30), <2>1, <2>6, <3>1
    <3>3. writeQ' \in [FPGA -> Seq(Word)] /\ \A g \in FPGA : Len(writeQ'[g]) <= QueueDepth
      BY SMTT(30), <2>3, <2>4
    <3> QED BY <1>2, <3>2, <3>3
  <2> QED BY <1>2, <2>5, <2>6 DEF Transfer
<1>3. CASE Deq(f)
  <2>1. Head(readQ[f]) \in Word /\ Tail(readQ[f]) \in Seq(Word)
        /\ Len(readQ[f]) \in Nat /\ Len(Tail(readQ[f])) = Len(readQ[f]) - 1
    BY <1>3, Dequeued DEF Deq
  <2>2. Append(got[f], Head(readQ[f])) \in Seq(Word)
    BY <2>1, Enqueued
  <2> QED BY SMTT(30), <1>3, <2>1, <2>2 DEF Deq
<1>4. CASE Enq(f)
  <2>1. sent[f] + 1 \in Word
    BY <1>4 DEF Enq
  <2>2. Append(writeQ[f], sent[f] + 1) \in Seq(Word)
        /\ Len(writeQ[f]) \in Nat /\ Len(Append(writeQ[f], sent[f] + 1)) = Len(writeQ[f]) + 1
    BY <2>1, Enqueued
  <2> QED BY <1>4, <2>1, <2>2 DEF Enq, EnqWrite
<1> QED BY <1>1, <1>2, <1>3, <1>4 DEF Rule

-----------------------------------------------------------------------------
(* What the steps of the devices do to the numbers. *)
LEMMA NumberedSteps ==
  ASSUME NEW S, NEW g \in Seq(S), NEW r \in Seq(S), NEW w \in Seq(S),
         NEW a \in 0 .. 1, Numbered(g, r, w, a)
  PROVE  /\ w # << >> => Numbered(g, Append(r, Head(w)), Tail(w), a)
         /\ r # << >> /\ a = 0 => Numbered(Append(g, Head(r)), Tail(r), w, a)
         /\ r # << >> /\ g = << >> /\ a = 1 => Numbered(g, Tail(r), w, 0)
         /\ \A e \in S : e = Len(g) - a + Len(r) + Len(w) + 1 => Numbered(g, r, Append(w, e), a)
<1> USE DEF Numbered
<1>0. a \in Int
  OBVIOUS
<1>1. /\ Len(g) \in Nat /\ DOMAIN g = 1 .. Len(g)
      /\ Len(r) \in Nat /\ DOMAIN r = 1 .. Len(r)
      /\ Len(w) \in Nat /\ DOMAIN w = 1 .. Len(w)
  BY LenProperties
<1>2. ASSUME w # << >> PROVE Numbered(g, Append(r, Head(w)), Tail(w), a)
  <2> DEFINE near == Append(r, Head(w))
             far == Tail(w)
  <2>1. /\ Head(w) = w[1] /\ Len(w) > 0 /\ Len(far) = Len(w) - 1 /\ DOMAIN far = 1 .. Len(w) - 1
        /\ \A i \in 1 .. Len(w) - 1 : far[i] = w[i + 1]
        /\ Head(w) \in S
    BY <1>2, Dequeued
  <2>2. /\ Len(near) = Len(r) + 1 /\ DOMAIN near = 1 .. Len(r) + 1
        /\ \A i \in 1 .. Len(r) : near[i] = r[i]
        /\ near[Len(r) + 1] = Head(w)
    BY <2>1, Enqueued
  <2> HIDE DEF near, far
  <2>3. ASSUME NEW i \in 1 .. Len(r) + 1 PROVE near[i] = Len(g) - a + i
    <3>1. CASE i \in 1 .. Len(r)
      BY <3>1, <1>0, <1>1, <2>1, <2>2
    <3>2. CASE i = Len(r) + 1
      BY <3>2, <1>0, <1>1, <2>1, <2>2
    <3> QED BY <3>1, <3>2, <1>1
  <2>4. ASSUME NEW i \in 1 .. Len(w) - 1 PROVE far[i] = Len(g) - a + Len(near) + i
    <3>1. far[i] = w[i + 1] /\ i + 1 \in DOMAIN w /\ i \in Int
      BY <1>1, <2>1
    <3>2. w[i + 1] = Len(g) - a + Len(r) + (i + 1)
      BY <3>1
    <3> QED BY <3>1, <3>2, <1>0, <1>1, <2>2
  <2> QED BY <2>1, <2>2, <2>3, <2>4 DEF near, far
<1>3. ASSUME r # << >>, a = 0 PROVE Numbered(Append(g, Head(r)), Tail(r), w, a)
  <2> DEFINE received == Append(g, Head(r))
             near == Tail(r)
  <2>1. /\ Head(r) = r[1] /\ Len(r) > 0 /\ Len(near) = Len(r) - 1 /\ DOMAIN near = 1 .. Len(r) - 1
        /\ \A i \in 1 .. Len(r) - 1 : near[i] = r[i + 1]
        /\ Head(r) \in S
    BY <1>3, Dequeued
  <2>2. /\ Len(received) = Len(g) + 1 /\ DOMAIN received = 1 .. Len(g) + 1
        /\ \A i \in 1 .. Len(g) : received[i] = g[i]
        /\ received[Len(g) + 1] = Head(r)
    BY <2>1, Enqueued
  <2> HIDE DEF near, received
  <2>3. ASSUME NEW i \in 1 .. Len(g) + 1 PROVE received[i] = i
    <3>1. CASE i \in 1 .. Len(g)
      BY <3>1, <1>0, <1>1, <1>3, <2>1, <2>2
    <3>2. CASE i = Len(g) + 1
      BY <3>2, <1>0, <1>1, <1>3, <2>1, <2>2
    <3> QED BY <3>1, <3>2, <1>1
  <2>4. ASSUME NEW i \in 1 .. Len(r) - 1 PROVE near[i] = Len(received) - a + i
    <3>1. near[i] = r[i + 1] /\ i + 1 \in DOMAIN r /\ i \in Int
      BY <1>1, <2>1
    <3>2. r[i + 1] = Len(g) - a + (i + 1)
      BY <3>1
    <3> QED BY <3>1, <3>2, <1>0, <1>1, <2>2
  <2>5. \A i \in DOMAIN w : w[i] = Len(received) - a + Len(near) + i
    BY <1>0, <1>1, <1>3, <2>1, <2>2
  <2> QED BY <2>1, <2>2, <2>3, <2>4, <2>5 DEF near, received
<1>4. ASSUME r # << >>, g = << >>, a = 1 PROVE Numbered(g, Tail(r), w, 0)
  <2> DEFINE near == Tail(r)
  <2>1. /\ Len(r) > 0 /\ Len(near) = Len(r) - 1 /\ DOMAIN near = 1 .. Len(r) - 1
        /\ \A i \in 1 .. Len(r) - 1 : near[i] = r[i + 1]
    BY <1>4, Dequeued
  <2> HIDE DEF near
  <2>2. \A i \in DOMAIN near : near[i] = Len(g) - 0 + i
    BY SMTT(30), <1>0, <1>1, <1>4, <2>1
  <2>3. \A i \in DOMAIN w : w[i] = Len(g) - 0 + Len(near) + i
    BY <1>0, <1>1, <1>4, <2>1
  <2> QED BY <2>2, <2>3 DEF near
<1>5. ASSUME NEW e \in S, e = Len(g) - a + Len(r) + Len(w) + 1 PROVE Numbered(g, r, Append(w, e), a)
  <2> DEFINE far == Append(w, e)
  <2>1. /\ DOMAIN far = 1 .. Len(w) + 1
        /\ \A i \in 1 .. Len(w) : far[i] = w[i]
        /\ far[Len(w) + 1] = e
    BY Enqueued
  <2> HIDE DEF far
  <2>2. ASSUME NEW i \in 1 .. Len(w) + 1 PROVE far[i] = Len(g) - a + Len(r) + i
    <3>1. CASE i \in 1 .. Len(w)
      BY <3>1, <1>0, <1>1, <1>5, <2>1
    <3>2. CASE i = Len(w) + 1
      BY <3>2, <1>0, <1>1, <1>5, <2>1
    <3> QED BY <3>1, <3>2, <1>1
  <2> QED BY <2>1, <2>2 DEF far
<1> QED BY <1>2, <1>3, <1>4, <1>5

(* What they do to a stream. *)
LEMMA FlowSteps ==
  ASSUME NEW S, NEW g \in Seq(S), NEW r \in Seq(S), NEW w \in Seq(S),
         NEW a \in 0 .. 1, NEW s \in Nat, Flow(g, r, w, a, s)
  PROVE  /\ w # << >> => Flow(g, Append(r, Head(w)), Tail(w), a, s)
         /\ r # << >> /\ a = 0 => Flow(Append(g, Head(r)), Tail(r), w, a, s)
         /\ r # << >> /\ g = << >> /\ a = 1 => Flow(g, Tail(r), w, 0, s)
         /\ s + 1 \in S => Flow(g, r, Append(w, s + 1), a, s + 1)
<1>1. /\ Numbered(g, r, w, a) /\ Len(g) + Len(r) + Len(w) = s + a
      /\ Len(g) \in Nat /\ Len(r) \in Nat /\ Len(w) \in Nat /\ a \in Nat
  BY LenProperties DEF Flow
<1>2. ASSUME w # << >> PROVE Flow(g, Append(r, Head(w)), Tail(w), a, s)
  <2> DEFINE near == Append(r, Head(w))
             far == Tail(w)
  <2>1. Len(near) = Len(r) + 1 /\ Len(far) = Len(w) - 1
    BY <1>2, Dequeued, Enqueued
  <2>2. Numbered(g, near, far, a)
    BY <1>1, <1>2, NumberedSteps
  <2> HIDE DEF near, far
  <2>3. Len(g) + Len(near) + Len(far) = s + a
    BY <1>1, <2>1
  <2> QED BY <2>2, <2>3 DEF Flow, near, far
<1>3. ASSUME r # << >>, a = 0 PROVE Flow(Append(g, Head(r)), Tail(r), w, a, s)
  <2> DEFINE received == Append(g, Head(r))
             near == Tail(r)
  <2>1. Len(received) = Len(g) + 1 /\ Len(near) = Len(r) - 1
    BY <1>3, Dequeued, Enqueued
  <2>2. Numbered(received, near, w, a)
    BY <1>1, <1>3, NumberedSteps
  <2> HIDE DEF received, near
  <2>3. (Len(g) + 1) + (Len(r) - 1) + Len(w) = s + a
    BY <1>1
  <2>4. Len(received) + Len(near) + Len(w) = s + a
    BY <2>1, <2>3
  <2> QED BY <2>2, <2>4 DEF Flow, received, near
<1>4. ASSUME r # << >>, g = << >>, a = 1 PROVE Flow(g, Tail(r), w, 0, s)
  <2>1. Len(Tail(r)) = Len(r) - 1
    BY <1>4, Dequeued
  <2>2. Numbered(g, Tail(r), w, 0)
    BY <1>1, <1>4, NumberedSteps
  <2> QED BY <1>1, <1>4, <2>1, <2>2 DEF Flow
<1>5. ASSUME s + 1 \in S PROVE Flow(g, r, Append(w, s + 1), a, s + 1)
  <2>1. Len(Append(w, s + 1)) = Len(w) + 1
    BY <1>5, Enqueued
  <2>2. s + 1 = Len(g) - a + Len(r) + Len(w) + 1
    BY SMTT(30), <1>1
  <2>3. Numbered(g, r, Append(w, s + 1), a)
    BY <1>1, <1>5, <2>2, NumberedSteps
  <2> QED BY <1>1, <2>1, <2>3 DEF Flow
<1> QED BY <1>2, <1>3, <1>4, <1>5

-----------------------------------------------------------------------------
(* The devices come up in order: FPGA 1, which says so, then FPGA 0. *)
LEMMA BringUpStep ==
  ASSUME IntraTypeOK, BringUpInv, configured[1] => configured[0], IntraNext
  PROVE  BringUpInv'
<1> USE DEF BringUpInv, IntraTypeOK, FPGA, Other
<1> SUFFICES ASSUME NEW f \in FPGA, Rule(f) \/ Enq(f), UNCHANGED configured
             PROVE  BringUpInv'
  BY DEF IntraNext
<1>1. CASE DoInit(f) /\ UNCHANGED <<sent, got>>
  <2>1. CASE f = 0
    BY <1>1, <2>1 DEF DoInit, EnqWrite
  <2>2. CASE f = 1
    BY <1>1, <2>2 DEF DoInit, EnqWrite
  <2> QED BY <2>1, <2>2
<1>2. CASE Transfer(f) /\ UNCHANGED <<initialized, sent, got>>
  <2>1. initialized[f]
    BY <1>2 DEF Transfer
  <2> QED BY <1>2, <2>1 DEF Transfer
<1>3. CASE Deq(f)
  <2>1. initialized[Other(f)]
    BY <1>3 DEF Deq
  <2> QED BY <1>3, <2>1 DEF Deq
<1>4. CASE Enq(f)
  BY <1>4 DEF Enq, EnqWrite
<1> QED BY <1>1, <1>2, <1>3, <1>4 DEF Rule

(* What the clients get stays in order. *)
LEMMA StreamStep ==
  ASSUME IntraTypeOK, BringUpInv, StreamInv, configured[1] => configured[0], IntraNext
  PROVE  StreamInv'
<1> DEFINE Word == 0 .. MaxWords
           A == Awaits(0)
<1>1. FPGA = {0, 1} /\ Other(0) = 1 /\ Other(1) = 0 /\ Awaits(1) = 0 /\ A \in 0 .. 1
  BY DEF FPGA, Other, Awaits
<1>2. Flow(got[0], readQ[0], writeQ[1], A, sent[1]) /\ Flow(got[1], readQ[1], writeQ[0], 0, sent[0])
  BY <1>1 DEF StreamInv
<1>3. \A f \in FPGA : /\ got[f] \in Seq(Word) /\ readQ[f] \in Seq(Word) /\ writeQ[f] \in Seq(Word)
                     /\ sent[f] \in Nat
  BY IntraAssumption DEF IntraTypeOK
<1> SUFFICES ASSUME NEW f \in FPGA, Rule(f) \/ Enq(f), UNCHANGED configured
             PROVE  /\ Flow(got'[0], readQ'[0], writeQ'[1], A', sent'[1])
                    /\ Flow(got'[1], readQ'[1], writeQ'[0], 0, sent'[0])
  <2>1. Awaits(1)' = 0
    BY DEF Awaits
  <2> QED BY <1>1, <2>1 DEF IntraNext, StreamInv, FPGA, Other
<1>4. CASE f = 0 /\ DoInit(f) /\ UNCHANGED <<sent, got>>
  <2>1. /\ ~initialized[0] /\ readQ[0] # << >> /\ got[0] = << >>
        /\ readQ' = [readQ EXCEPT ![0] = Tail(@)] /\ initialized' = [initialized EXCEPT ![0] = TRUE]
        /\ UNCHANGED <<writeQ, sent, got>>
    BY <1>1, <1>4 DEF DoInit, BringUpInv
  <2>2. initialized[1]
    BY <1>1, <2>1 DEF BringUpInv
  <2>3. A = 1 /\ A' = 0
    BY <2>1, <2>2 DEF Awaits, IntraTypeOK, FPGA
  <2>4. Flow(got[0], Tail(readQ[0]), writeQ[1], 0, sent[1])
    BY <1>1, <1>2, <1>3, <2>1, <2>3, FlowSteps
  <2>5. readQ'[0] = Tail(readQ[0]) /\ readQ'[1] = readQ[1]
    BY <1>1, <2>1 DEF IntraTypeOK
  <2> QED BY <1>2, <2>1, <2>3, <2>4, <2>5
<1>5. CASE f = 1 /\ DoInit(f) /\ UNCHANGED <<sent, got>>
  <2>1. /\ ~initialized[1] /\ ~initialized[0]
        /\ writeQ' = [writeQ EXCEPT ![1] = Append(@, Ready)] /\ initialized' = [initialized EXCEPT ![1] = TRUE]
        /\ UNCHANGED <<readQ, sent, got>>
    BY <1>1, <1>5 DEF DoInit, EnqWrite, BringUpInv
  <2>2. got[0] = << >> /\ readQ[0] = << >> /\ writeQ[1] = << >> /\ sent[1] = 0
    BY <1>1, <2>1 DEF BringUpInv
  <2>3. A' = 1
    BY <2>1 DEF Awaits, IntraTypeOK, FPGA
  <2>4. Flow(<< >>, << >>, <<0>>, 1, 0)
    BY DEF Flow, Numbered
  <2>5. writeQ'[1] = <<0>> /\ writeQ'[0] = writeQ[0]
    BY <1>1, <2>1, <2>2 DEF IntraTypeOK, Ready
  <2> QED BY <1>2, <2>1, <2>2, <2>3, <2>4, <2>5
<1>6. CASE Transfer(f) /\ UNCHANGED <<initialized, sent, got>>
  <2> DEFINE o == Other(f)
             near == Append(readQ[o], Head(writeQ[f]))
             far == Tail(writeQ[f])
  <2>1. o \in FPGA /\ Other(o) = f /\ o # f
    BY <1>1
  <2>2. writeQ[f] # << >> /\ initialized[f] /\ configured[o] /\ A' = A
    BY <1>1, <1>6 DEF Transfer, BringUpInv, Awaits
  <2>3. writeQ' = [writeQ EXCEPT ![f] = far] /\ readQ' = [readQ EXCEPT ![o] = near]
    BY <1>6, <2>2 DEF Transfer
  <2>4. /\ writeQ'[f] = far /\ writeQ'[o] = writeQ[o]
        /\ readQ'[o] = near /\ readQ'[f] = readQ[f]
    BY <2>1, <2>3 DEF IntraTypeOK
  <2>5. CASE f = 0
    <3>1. Flow(got[1], near, far, 0, sent[0])
      BY <1>1, <1>2, <1>3, <2>2, <2>5, FlowSteps
    <3> QED BY <1>1, <1>2, <1>6, <2>2, <2>4, <2>5, <3>1
  <2>6. CASE f = 1
    <3>1. Flow(got[0], near, far, A, sent[1])
      BY <1>1, <1>2, <1>3, <2>2, <2>6, FlowSteps
    <3> QED BY <1>1, <1>2, <1>6, <2>2, <2>4, <2>6, <3>1
  <2> QED BY <1>1, <2>5, <2>6
<1>7. CASE Deq(f)
  <2> DEFINE o == Other(f)
             received == Append(got[f], Head(readQ[f]))
             near == Tail(readQ[f])
  <2>1. o \in FPGA /\ Other(o) = f /\ o # f
    BY <1>1
  <2>2. readQ[f] # << >> /\ initialized[f] /\ A' = A /\ UNCHANGED <<initialized, writeQ, sent>>
    BY <1>1, <1>7 DEF Deq, Awaits
  <2>3. got' = [got EXCEPT ![f] = received] /\ readQ' = [readQ EXCEPT ![f] = near]
    BY <1>7 DEF Deq
  <2>4. /\ got'[f] = received /\ got'[o] = got[o]
        /\ readQ'[f] = near /\ readQ'[o] = readQ[o]
    BY <2>1, <2>3 DEF IntraTypeOK
  <2>5. CASE f = 0
    <3>1. A = 0
      BY <2>2, <2>5 DEF Awaits
    <3>2. Flow(received, near, writeQ[1], A, sent[1])
      BY <1>1, <1>2, <1>3, <2>2, <2>5, <3>1, FlowSteps
    <3> QED BY <1>1, <1>2, <2>2, <2>4, <2>5, <3>2
  <2>6. CASE f = 1
    <3>1. Flow(received, near, writeQ[0], 0, sent[0])
      BY <1>1, <1>2, <1>3, <2>2, <2>6, FlowSteps
    <3> QED BY <1>1, <1>2, <2>2, <2>4, <2>6, <3>1
  <2> QED BY <1>1, <2>5, <2>6
<1>8. CASE Enq(f)
  <2> DEFINE o == Other(f)
             far == Append(writeQ[f], sent[f] + 1)
  <2>1. o \in FPGA /\ Other(o) = f /\ o # f
    BY <1>1
  <2>2. sent[f] + 1 \in Word /\ A' = A /\ UNCHANGED <<initialized, readQ, got>>
    BY <1>3, <1>8, IntraAssumption DEF Enq, Awaits
  <2>3. writeQ' = [writeQ EXCEPT ![f] = far] /\ sent' = [sent EXCEPT ![f] = @ + 1]
    BY <1>8 DEF Enq, EnqWrite
  <2>4. /\ writeQ'[f] = far /\ writeQ'[o] = writeQ[o]
        /\ sent'[f] = sent[f] + 1 /\ sent'[o] = sent[o]
    BY <2>1, <2>3 DEF IntraTypeOK
  <2>5. CASE f = 0
    <3>1. sent[0] \in Nat /\ sent[0] + 1 \in Word /\ far = Append(writeQ[0], sent[0] + 1)
      BY <1>1, <1>3, <2>2, <2>5
    <3>2. got[1] \in Seq(Word) /\ readQ[1] \in Seq(Word) /\ writeQ[0] \in Seq(Word)
      BY <1>1, <1>3
    <3> HIDE DEF Word
    <3>3. Flow(got[1], readQ[1], Append(writeQ[0], sent[0] + 1), 0, sent[0] + 1)
      BY <1>2, <3>1, <3>2, FlowSteps, 0 \in 0 .. 1
    <3> QED BY <1>1, <1>2, <2>2, <2>4, <2>5, <3>1, <3>3
  <2>6. CASE f = 1
    <3>1. Flow(got[0], readQ[0], far, A, sent[1] + 1)
      BY <1>1, <1>2, <1>3, <2>2, <2>6, FlowSteps
    <3> QED BY <1>1, <1>2, <2>2, <2>4, <2>6, <3>1
  <2> QED BY <1>1, <2>5, <2>6
<1> QED BY <1>1, <1>4, <1>5, <1>6, <1>7, <1>8 DEF Rule

-----------------------------------------------------------------------------
(* The host's steps preserve the types. *)
LEMMA CleanupType ==
  ASSUME TypeOK, Cleanup
  PROVE  /\ lib' \in [Handles -> {"never", "open", "closed"}] /\ misuse' \subseteq Handles
         /\ workspace' \in BOOLEAN /\ didCleanup' \in BOOLEAN
<1> USE DEF TypeOK
<1>1. ASSUME NEW handles \in SUBSET Handles, Close(handles)
      PROVE  lib' \in [Handles -> {"never", "open", "closed"}] /\ misuse' \subseteq Handles
  BY <1>1 DEF Close
<1>2. {"socket", "afu"} \cup (IF workspace THEN {"pages"} ELSE {}) \subseteq Handles /\ Handles \subseteq Handles
  BY DEF Handles
<1>3. CASE variant = "v2" /\ CleanupV2
  BY <1>1, <1>2, <1>3 DEF CleanupV2
<1>4. CASE variant = "debugger" /\ CleanupDebugger
  BY <1>1, <1>2, <1>4 DEF CleanupDebugger
<1>5. CASE variant = "null" /\ CleanupNull
  BY <1>1, <1>2, <1>5 DEF CleanupNull
<1> QED BY <1>3, <1>4, <1>5 DEF Cleanup

LEMMA IntraUnchanged == IntraTypeOK /\ UNCHANGED intraVars => IntraTypeOK'
BY DEF IntraTypeOK, intraVars

LEMMA ConfigureType ==
  ASSUME IntraTypeOK, NEW f \in FPGA, Configure(f)
  PROVE  IntraTypeOK'
BY DEF IntraTypeOK, Configure

LEMMA TypeStep == TypeOK /\ [Next]_vars => TypeOK'
<1> SUFFICES ASSUME TypeOK, [Next]_vars PROVE TypeOK'
  OBVIOUS
<1> USE DEF TypeOK
<1>1. CASE InitStep
  <2>1. PICK s \in {InitSteps[variant][i] : i \in DOMAIN InitSteps[variant]} : StepDone(s) \/ StepFails(s)
    BY <1>1 DEF InitStep
  <2>2. place' \in 1 .. Len(InitSteps[variant]) + 1 /\ UNCHANGED <<variant, didCleanup, misuse, io, copy>>
    BY <2>1, StepOrder DEF Step, StepDone, StepFails
  <2>3. CASE StepDone(s)
    <3>1. lib' \in [Handles -> {"never", "open", "closed"}]
      BY <2>3 DEF StepDone
    <3>2. IntraTypeOK'
      <4>1. CASE s \in DOMAIN Configures
        <5>1. Configures[s] \in FPGA
          BY <4>1 DEF Configures, FPGA
        <5> QED BY <2>3, <4>1, <5>1, ConfigureType DEF StepDone
      <4>2. CASE s \notin DOMAIN Configures
        BY <2>3, <4>2, IntraUnchanged DEF StepDone
      <4> QED BY <4>1, <4>2
    <3> QED BY <2>2, <2>3, <3>1, <3>2 DEF StepDone
  <2>4. CASE StepFails(s)
    BY <2>2, <2>4, IntraUnchanged DEF StepFails
  <2> QED BY <2>1, <2>3, <2>4
<1>2. CASE StartIOThread
  BY <1>2, IntraUnchanged DEF StartIOThread
<1>3. CASE IOTest
  BY <1>3, IntraUnchanged DEF IOTest, IORest
<1>4. CASE DoAALTransaction
  <2>1. PICK w \in 0 .. NumWriteWindows - 1, r \in 0 .. NumReadWindows - 1, n \in LegalSizes, m \in LegalSizes :
          /\ Accepted(w, n, r, m)
          /\ copy' = [out |-> Words(GetWriteWindow(w), n), in |-> Words(GetReadWindow(r), m)]
    BY <1>4 DEF DoAALTransaction
  <2>2. Words(GetWriteWindow(w), n) \subseteq Nat /\ Words(GetReadWindow(r), m) \subseteq Nat
    BY <2>1, WindowsApart, SpaceIsNat
  <2>3. copy' \in [{"out", "in"} -> SUBSET Nat]
    BY <2>1, <2>2
  <2> QED BY <1>4, <2>3, IntraUnchanged DEF DoAALTransaction, IORest
<1>5. CASE EndTransaction
  BY <1>5, IntraUnchanged DEF EndTransaction, IORest, NoCopy
<1>6. CASE CallbackExit
  BY <1>6, IntraUnchanged DEF CallbackExit, WayOut
<1>7. CASE UninitChain
  BY <1>7, IntraUnchanged, CleanupType DEF UninitChain, Uninit, WayOut
<1>8. CASE Exit
  BY <1>8, IntraUnchanged DEF Exit, NoCopy
<1>9. CASE Cancel
  BY <1>9, IntraUnchanged DEF Cancel, WayOut
<1>10. CASE Join
  BY <1>10, IntraUnchanged, CleanupType DEF Join, Uninit, WayOut
<1>11. CASE Delete
  BY <1>11, IntraUnchanged, CleanupType DEF Delete, WayOut
<1>12. CASE IntraNext /\ UNCHANGED hostVars
  BY <1>12, IntraTypeStep DEF hostVars
<1>13. CASE UNCHANGED vars
  BY <1>13, IntraUnchanged DEF vars, hostVars
<1> QED BY <1>1, <1>2, <1>3, <1>4, <1>5, <1>6, <1>7, <1>8, <1>9, <1>10, <1>11, <1>12, <1>13
  DEF Next, IOThread, Destructor

-----------------------------------------------------------------------------
(* Init configures FPGA 0 first. *)
LEMMA ConfigurationStep ==
  TypeOK /\ ConfigurationInv /\ [Next]_vars => ConfigurationInv'
<1> SUFFICES ASSUME TypeOK, ConfigurationInv, [Next]_vars PROVE ConfigurationInv'
  OBVIOUS
<1> USE DEF ConfigurationInv, Paired
<1>1. CASE InitStep
  <2>1. PICK s \in {InitSteps[variant][i] : i \in DOMAIN InitSteps[variant]} : StepDone(s) \/ StepFails(s)
    BY <1>1 DEF InitStep
  <2>2. /\ main = "init" /\ InitSteps[variant][place] = s /\ place' = place + 1 /\ UNCHANGED variant
        /\ place \in DOMAIN InitSteps[variant] /\ place \in Nat
    BY <2>1, StepOrder DEF Step, StepDone, StepFails, TypeOK
  <2>3. /\ Paired /\ place = 5 => s = "Configure0"
        /\ s = "Configure1" => place > 5 /\ Paired
    BY <2>2, StepOrder DEF TypeOK
  <2>4. CASE StepDone(s)
    <3>1. CASE s = "Configure0"
      <4>1. configured'[0]
        BY <2>4, <3>1 DEF StepDone, Configures, Configure, TypeOK, IntraTypeOK, FPGA
      <4> QED BY <4>1
    <3>2. CASE s = "Configure1"
      <4>1. configured'[0] = configured[0]
        BY <2>4, <3>2 DEF StepDone, Configures, Configure, TypeOK, IntraTypeOK, FPGA
      <4> QED BY <2>2, <2>3, <3>2, <4>1
    <3>3. CASE s \notin {"Configure0", "Configure1"}
      <4>1. UNCHANGED configured
        BY <2>4, <3>3 DEF StepDone, Configures, intraVars
      <4> QED BY <2>2, <2>3, <3>3, <4>1
    <3> QED BY <3>1, <3>2, <3>3
  <2>5. CASE StepFails(s)
    <3>1. UNCHANGED configured
      BY <2>5 DEF StepFails, intraVars
    <3>2. Paired /\ place = 5 => main' = "exit"
      BY <2>3, <2>5 DEF StepFails, Ignored
    <3> QED BY <2>2, <3>1, <3>2
  <2> QED BY <2>1, <2>4, <2>5
<1>2. CASE StartIOThread \/ IOThread \/ CallbackExit \/ UninitChain \/ Exit \/ Cancel \/ Destructor
  <2>1. UNCHANGED <<configured, variant, place>> /\ (main' = "init" => main = "init")
    BY <1>2 DEF StartIOThread, IOThread, IOTest, DoAALTransaction, EndTransaction, IORest, CallbackExit,
                UninitChain, Exit, Cancel, Destructor, Join, Delete, WayOut, intraVars
  <2> QED BY <2>1
<1>3. CASE IntraNext /\ UNCHANGED hostVars
  BY <1>3 DEF IntraNext, hostVars
<1>4. CASE UNCHANGED vars
  BY <1>4 DEF vars, hostVars, intraVars
<1> QED BY <1>1, <1>2, <1>3, <1>4 DEF Next

(* The I/O thread is there between Init and the way out, and copies within *)
(* its windows.                                                            *)
LEMMA ThreadStep == TypeOK /\ ThreadInv /\ [Next]_vars => ThreadInv'
<1> SUFFICES ASSUME TypeOK, ThreadInv, [Next]_vars PROVE ThreadInv'
  OBVIOUS
<1> USE DEF ThreadInv
<1>1. CASE InitStep
  <2>1. main = "init" /\ main' \in {"init", "exit"} /\ UNCHANGED <<io, copy>>
    BY <1>1 DEF InitStep, StepDone, StepFails, Step
  <2> QED BY <2>1
<1>2. CASE StartIOThread
  BY <1>2 DEF StartIOThread
<1>3. CASE IOTest
  BY <1>3 DEF IOTest, IORest
<1>4. CASE DoAALTransaction
  BY <1>4, WindowsApart DEF DoAALTransaction, IORest
<1>5. CASE EndTransaction
  BY <1>5 DEF EndTransaction, IORest, NoCopy
<1>6. CASE CallbackExit
  BY <1>6 DEF CallbackExit, WayOut
<1>7. CASE UninitChain
  BY <1>7 DEF UninitChain, WayOut
<1>8. CASE Exit
  BY <1>8 DEF Exit, NoCopy
<1>9. CASE Cancel
  BY <1>9 DEF Cancel, WayOut
<1>10. CASE Join
  BY <1>10 DEF Join, WayOut
<1>11. CASE Delete
  BY <1>11 DEF Delete, WayOut
<1>12. CASE UNCHANGED hostVars
  BY <1>12 DEF hostVars
<1> QED BY <1>1, <1>2, <1>3, <1>4, <1>5, <1>6, <1>7, <1>8, <1>9, <1>10, <1>11, <1>12
  DEF Next, IOThread, Destructor, vars

(* Handles that are all open are closed together. *)
LEMMA CloseAll ==
  ASSUME AllAre("open"), Close(Handles)
  PROVE  AllAre("closed")' /\ misuse' = misuse
BY DEF AllAre, Close

(* The handles follow the I/O thread. *)
LEMMA HandlesStep == TypeOK /\ ThreadInv /\ HandlesInv /\ [Next]_vars => HandlesInv'
<1> SUFFICES ASSUME TypeOK, ThreadInv, HandlesInv, [Next]_vars PROVE HandlesInv'
  OBVIOUS
<1> USE DEF HandlesInv, Kept
<1>1. CASE InitStep
  <2>1. PICK s \in {InitSteps[variant][i] : i \in DOMAIN InitSteps[variant]} : StepDone(s) \/ StepFails(s)
    BY <1>1 DEF InitStep
  <2>2. /\ main = "init" /\ InitSteps[variant][place] = s /\ place' = place + 1
        /\ UNCHANGED <<variant, didCleanup, misuse, io>>
        /\ place \in Nat /\ io = "none" /\ main' \in {"init", "exit"}
    BY <2>1, StepOrder DEF Step, StepDone, StepFails, TypeOK, ThreadInv
  <2>3. /\ AllocatedAt \in Nat /\ AllocatedAt' = AllocatedAt
        /\ place = AllocatedAt => s = "Allocate"
    BY <2>2, StepOrder DEF TypeOK, AllocatedAt
  <2>4. CASE StepDone(s)
    <3>1. workspace' = (workspace \/ s = "Allocate")
      BY <2>4 DEF StepDone
    <3>2. ASSUME workspace' PROVE AllAre("open")'
      <4>1. CASE s = "Allocate"
        <5>1. lib["socket"] = "open" /\ lib["afu"] = "open" /\ lib' = [lib EXCEPT !["pages"] = "open"]
          BY <2>4, <4>1 DEF StepDone, Usable, Needs, Opens
        <5> QED BY <5>1 DEF AllAre, Handles, TypeOK
      <4>2. CASE s # "Allocate"
        <5>1. AllAre("open")
          BY <2>2, <3>1, <3>2, <4>2
        <5>2. \A h \in Handles : lib'[h] \in {lib[h], "open"}
          BY <2>4 DEF StepDone, Handles, TypeOK
        <5> QED BY <5>1, <5>2 DEF AllAre
      <4> QED BY <4>1, <4>2
    <3>3. main' = "init" /\ place' > AllocatedAt' => workspace'
      <4>1. place' > AllocatedAt' => place > AllocatedAt \/ place = AllocatedAt
        BY <2>2, <2>3
      <4>2. place > AllocatedAt => workspace
        BY <2>2
      <4> QED BY <2>3, <3>1, <4>1, <4>2, Zenon
    <3>4. Kept' /\ main' # "delete" /\ main' # "deleted"
      BY <2>2
    <3>5. ~didCleanup' /\ io' = "none" /\ (variant' # "null" => misuse' = {})
      BY <2>2
    <3> QED
      <4> HIDE DEF Kept
      <4> QED BY <3>2, <3>3, <3>4, <3>5
  <2>5. CASE StepFails(s)
    <3>1. UNCHANGED <<workspace, lib>> /\ (place = AllocatedAt => main' = "exit")
      BY <2>3, <2>5 DEF StepFails, Ignored
    <3> QED BY <2>2, <2>3, <3>1 DEF AllAre
  <2> QED BY <2>1, <2>4, <2>5
<1>2. CASE StartIOThread
  BY <1>2, StepOrder DEF StartIOThread, TypeOK, AllAre
<1>3. CASE IOThread
  BY <1>3 DEF IOThread, IOTest, DoAALTransaction, EndTransaction, IORest, AllAre, AllocatedAt
<1>4. CASE CallbackExit \/ Cancel
  BY <1>4 DEF CallbackExit, Cancel, WayOut, AllAre
<1>5. CASE Exit
  BY <1>5 DEF Exit
<1>6. CASE UninitChain
  <2>1. CASE variant = "v2"
    BY <1>6, <2>1 DEF UninitChain, Uninit, WayOut, AllAre
  <2>2. CASE variant = "debugger"
    BY <1>6, <2>2, CloseAll DEF UninitChain, Uninit, Cleanup, CleanupDebugger, WayOut
  <2>3. CASE variant = "null"
    BY <1>6, <2>3 DEF UninitChain, WayOut
  <2> QED BY <2>1, <2>2, <2>3, DeviceAssumption DEF TypeOK
<1>7. CASE Join
  <2>1. main = "cancel" /\ main' = "delete" /\ UNCHANGED <<variant, io>> /\ workspace /\ io = "gone"
    BY <1>7 DEF Join, WayOut
  <2>2. CASE variant = "v2"
    BY <1>7, <2>1, <2>2 DEF Join, Uninit, AllAre
  <2>3. CASE variant = "debugger"
    BY <1>7, <2>1, <2>3, CloseAll DEF Join, Uninit, Cleanup, CleanupDebugger
  <2>4. CASE variant = "null"
    BY <2>1, <2>4
  <2> QED BY <2>2, <2>3, <2>4, DeviceAssumption DEF TypeOK
<1>8. CASE Delete
  <2>1. main = "delete" /\ main' = "deleted" /\ UNCHANGED <<variant, io>> /\ io = "gone"
    BY <1>8 DEF Delete, WayOut, ThreadInv
  <2>2. CASE variant = "v2"
    <3>1. workspace /\ ~didCleanup /\ AllAre("open")
      BY <2>1, <2>2
    <3>2. Close(Handles)
      <4>1. {"socket", "afu"} \cup {"pages"} = Handles
        BY DEF Handles
      <4> QED BY <1>8, <2>2, <3>1, <4>1 DEF Delete, Cleanup, CleanupV2
    <3> QED BY <2>1, <2>2, <3>1, <3>2, CloseAll
  <2>3. CASE variant = "debugger"
    BY <1>8, <2>1, <2>3 DEF Delete, Cleanup, CleanupDebugger, AllAre
  <2>4. CASE variant = "null"
    BY <2>1, <2>4
  <2> QED BY <2>2, <2>3, <2>4, DeviceAssumption DEF TypeOK
<1>9. CASE UNCHANGED hostVars
  BY <1>9 DEF hostVars, AllAre, AllocatedAt
<1> QED BY <1>1, <1>2, <1>3, <1>4, <1>5, <1>6, <1>7, <1>8, <1>9 DEF Next, Destructor, vars

-----------------------------------------------------------------------------
LEMMA DeviceInit == Init => DeviceInv
<1> SUFFICES ASSUME Init PROVE DeviceInv
  OBVIOUS
<1>1. IntraTypeOK
  BY IntraAssumption DEF Init, IntraInit, IntraTypeOK, FPGA
<1>2. place \in 1 .. Len(InitSteps[variant]) + 1 /\ AllocatedAt >= 1
  BY StepOrder DEF Init, AllocatedAt
<1>3. copy \in [{"out", "in"} -> SUBSET Nat] /\ copy.out = {} /\ copy.in = {}
  BY DEF Init
<1>4. TypeOK
  BY <1>1, <1>2, <1>3 DEF Init, TypeOK
<1>5. ConfigurationInv
  BY DEF Init, IntraInit, ConfigurationInv, FPGA
<1>6. BringUpInv
  BY DEF Init, IntraInit, BringUpInv, FPGA, Other
<1>7. StreamInv
  <2>1. Flow(<< >>, << >>, << >>, 0, 0)
    BY DEF Flow, Numbered
  <2>2. ASSUME NEW f \in FPGA
        PROVE  got[f] = << >> /\ readQ[f] = << >> /\ writeQ[Other(f)] = << >> /\ sent[Other(f)] = 0 /\ Awaits(f) = 0
    BY DEF Init, IntraInit, FPGA, Other, Awaits
  <2> QED BY <2>1, <2>2 DEF StreamInv
<1>8. ThreadInv /\ HandlesInv
  BY <1>2, <1>3 DEF Init, ThreadInv, HandlesInv, AllAre, Kept, AllocatedAt
<1> QED BY <1>4, <1>5, <1>6, <1>7, <1>8 DEF DeviceInv

LEMMA DeviceStep == DeviceInv /\ [Next]_vars => DeviceInv'
<1> SUFFICES ASSUME DeviceInv, [Next]_vars PROVE DeviceInv'
  OBVIOUS
<1> USE DEF DeviceInv
<1>1. TypeOK' /\ ConfigurationInv' /\ ThreadInv' /\ HandlesInv'
  BY TypeStep, ConfigurationStep, ThreadStep, HandlesStep
<1>2. IntraTypeOK /\ (configured[1] => configured[0])
  BY DEF TypeOK, ConfigurationInv
<1>3. CASE IntraNext
  BY <1>1, <1>2, <1>3, BringUpStep, StreamStep
<1>4. CASE UNCHANGED <<initialized, writeQ, readQ, sent, got>> /\ \A f \in FPGA : configured[f] => configured'[f]
  BY <1>1, <1>4 DEF BringUpInv, StreamInv, Awaits
<1>5. [Next]_vars => IntraNext \/ (UNCHANGED <<initialized, writeQ, readQ, sent, got>> /\ \A f \in FPGA : configured[f] => configured'[f])
  <2>1. CASE InitStep
    <3>1. PICK s \in {InitSteps[variant][i] : i \in DOMAIN InitSteps[variant]} : StepDone(s) \/ StepFails(s)
      BY <2>1 DEF InitStep
    <3>2. CASE s \in DOMAIN Configures /\ StepDone(s)
      BY <3>2, <1>2 DEF StepDone, Configure, IntraTypeOK
    <3>3. CASE UNCHANGED intraVars
      BY <3>3 DEF intraVars
    <3> QED BY <3>1, <3>2, <3>3 DEF StepDone, StepFails
  <2>2. CASE UNCHANGED intraVars
    BY <2>2 DEF intraVars
  <2> QED BY <2>1, <2>2 DEF Next, StartIOThread, IOThread, IOTest, DoAALTransaction, EndTransaction, IORest,
        CallbackExit, UninitChain, Exit, Cancel, Destructor, Join, Delete, WayOut, vars
<1> QED BY <1>3, <1>4, <1>5

LEMMA DeviceInvariant == Spec => []DeviceInv
BY DeviceInit, DeviceStep, PTL DEF Spec

(* Variables keep their types. *)
THEOREM TypeCorrect == Spec => []TypeOK
BY DeviceInvariant, PTL DEF DeviceInv

(* The I/O thread of the channel runs only while the host has the          *)
(* workspace, and copies within it: every window that the size checks let  *)
(* through lies in the part of its kind.                                   *)
THEOREM WorkspaceLiveCorrect == Spec => []WorkspaceIsLive
<1>1. DeviceInv => WorkspaceIsLive
  <2> SUFFICES ASSUME DeviceInv, io \in {"test", "loop", "copy"}, ~(variant # "v2" /\ main = "uninit")
               PROVE  /\ \A h \in Handles : lib[h] = "open"
                      /\ copy.out \cup copy.in \subseteq 0 .. WorkspaceWords - 1
                      /\ copy.out \cap copy.in = {}
    BY DEF WorkspaceIsLive
  <2>1. Kept /\ io # "none"
    BY DEF DeviceInv, TypeOK, ThreadInv, Kept
  <2>2. AllAre("open")
    BY <2>1 DEF DeviceInv, HandlesInv
  <2>3. copy.out \subseteq 0 .. GetReadWindow(0) - 1 /\ copy.in \subseteq GetReadWindow(0) .. WorkspaceWords - 1
    BY DEF DeviceInv, ThreadInv
  <2>4. GetReadWindow(0) \in Nat /\ WorkspaceWords \in Nat /\ GetReadWindow(0) <= WorkspaceWords
    BY SpaceIsNat
  <2> QED BY <2>2, <2>3, <2>4 DEF AllAre
<1> QED BY <1>1, DeviceInvariant, PTL

(* v2 and debugger give back what they have, once. *)
THEOREM ClosedOnceCorrect == Spec => []ClosedOnce
<1>1. DeviceInv => ClosedOnce
  BY DEF DeviceInv, HandlesInv, ClosedOnce, AllAre
<1> QED BY <1>1, DeviceInvariant, PTL

(* The clients of the pair receive each other's words in order, none twice *)
(* and none of the device's own.                                           *)
THEOREM WordsInOrderCorrect == Spec => []WordsInOrder
<1>1. DeviceInv => WordsInOrder
  <2> SUFFICES ASSUME DeviceInv, NEW f \in FPGA
               PROVE  Len(got[f]) <= sent[Other(f)] /\ \A i \in DOMAIN got[f] : got[f][i] = i
    BY DEF WordsInOrder
  <2>1. Flow(got[f], readQ[f], writeQ[Other(f)], Awaits(f), sent[Other(f)])
    BY DEF DeviceInv, StreamInv
  <2>2. /\ Len(got[f]) \in Nat /\ Len(readQ[f]) \in Nat /\ Len(writeQ[Other(f)]) \in Nat /\ sent[Other(f)] \in Nat
        /\ Other(f) \in FPGA
    BY IntraAssumption DEF DeviceInv, TypeOK, IntraTypeOK, FPGA, Other
  <2>3. Len(got[f]) <= sent[Other(f)]
    <3>1. CASE Awaits(f) = 0
      <4>1. Len(got[f]) + Len(readQ[f]) + Len(writeQ[Other(f)]) = sent[Other(f)] + 0
        BY <2>1, <3>1 DEF Flow
      <4>2. \A x, y, z, t \in Nat : x + y + z = t + 0 => x <= t
        OBVIOUS
      <4> QED BY <2>2, <4>1, <4>2
    <3>2. CASE Awaits(f) # 0
      <4>1. got[f] = << >>
        BY <3>2 DEF DeviceInv, BringUpInv, Awaits, FPGA
      <4> QED BY <2>2, <4>1
    <3> QED BY <3>1, <3>2
  <2> QED BY <2>1, <2>3 DEF Flow, Numbered
<1> QED BY <1>1, DeviceInvariant, PTL
=============================================================================
