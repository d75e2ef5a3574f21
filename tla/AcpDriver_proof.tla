--------------------------- MODULE AcpDriver_proof ---------------------------
(***************************************************************************)
(* Proofs about the delay lines, for any number of lanes, groups and taps, *)
(* any delays that programs ask for and any number of loads; and that the  *)
(* driver does nothing to its buffers or its lines that AcpBuffers and     *)
(* AcpIodelays do not, so that what is proved of them holds of it.         *)
(***************************************************************************)
EXTENDS AcpDriver, SequenceTheorems, TLAPS

Delays == [Lines -> 0 .. Taps - 1]
(* Bytes; that they end at 255 plays no part here.                         *)
Records == [Lines -> Nat]

TypeInv ==
  /\ delay \in Delays /\ start \in Delays /\ iodelays \in Records /\ new \in Records
  /\ up \in [DphyLines -> BOOLEAN]
  /\ todo \in Seq(Lines) /\ steps \in Nat \cup {-1}

(* The line that moves: it has been started.                               *)
Moving(l) == ~ Idle /\ l = Head(todo) /\ steps # -1

(* Where a line is if it was where the record said: one that moves has as  *)
(* many steps left as it is away from its new delay, on the side it came   *)
(* from; the others are where the record says.                             *)
Believed(l) ==
  IF ~ Moving(l) THEN iodelays[l]
  ELSE IF new[l] > iodelays[l] THEN new[l] - steps ELSE new[l] + steps

(* A line of the data groups that still has to move will move the way that *)
(* its first command said.                                                 *)
DirectionInv ==
  ~ Idle => \A l \in DphyLines : iodelays[l] = new[l] \/ (up[l] <=> new[l] > iodelays[l])

StepsInv ==
  /\ Idle => steps = -1
  /\ ~ Idle => steps <= Distance(new[Head(todo)], iodelays[Head(todo)])

DelayInv == \A l \in FoundAtZero : delay[l] = Believed(l) % Taps

LinesInv == TypeInv /\ DirectionInv /\ StepsInv /\ DelayInv

-----------------------------------------------------------------------------
(* Counting taps.                                                          *)
LEMMA Quotient ==
  ASSUME NEW T \in Nat \ {0}, NEW x \in Nat
  PROVE  x = T * (x \div T) + (x % T) /\ x \div T \in Int /\ x % T \in 0 .. T - 1
<1>1. x = T * (x \div T) + (x % T)
  OBVIOUS
<1>2. x \div T \in Int
  OBVIOUS
<1>3. x % T \in 0 .. T - 1
  OBVIOUS
<1> QED BY <1>1, <1>2, <1>3

LEMMA Remainder ==
  ASSUME NEW T \in Nat \ {0}, NEW q \in Int, NEW a \in 0 .. T - 1 PROVE (T * q + a) % T = a
BY SMTT(30)

LEMMA Within == ASSUME NEW T \in Nat \ {0}, NEW a \in 0 .. T - 1 PROVE a % T = a
OBVIOUS

(* A step up and a step down from x, which the line has gone round to.     *)
LEMMA StepUp ==
  ASSUME NEW T \in Nat \ {0}, NEW x \in Nat PROVE ((x % T) + 1) % T = (x + 1) % T
<1> DEFINE q == x \div T
<1> DEFINE r == x % T
<1>1. x = T * q + r /\ q \in Int /\ r \in 0 .. T - 1
  BY Quotient
<1> HIDE DEF q, r
<1>2. CASE r + 1 < T
  <2>1. r + 1 \in 0 .. T - 1
    BY <1>1, <1>2
  <2>2. (r + 1) % T = r + 1
    BY <2>1, Within
  <2>3. x + 1 = T * q + (r + 1)
    BY <1>1
  <2>4. (T * q + (r + 1)) % T = r + 1
    BY <1>1, <2>1, Remainder
  <2> QED BY <2>2, <2>3, <2>4 DEF r
<1>3. CASE r + 1 = T
  <2>1. x + 1 = T * (q + 1) + 0
    BY <1>1, <1>3
  <2>2. (T * (q + 1) + 0) % T = 0 /\ T % T = 0
    BY <1>1, Remainder
  <2> QED BY <1>3, <2>1, <2>2 DEF r
<1> QED BY <1>1, <1>2, <1>3

LEMMA StepDown ==
  ASSUME NEW T \in Nat \ {0}, NEW x \in Nat \ {0} PROVE ((x % T) + (-1)) % T = (x - 1) % T
<1> DEFINE q == x \div T
<1> DEFINE r == x % T
<1>1. x = T * q + r /\ q \in Int /\ r \in 0 .. T - 1
  BY Quotient
<1> HIDE DEF q, r
<1>2. CASE r > 0
  <2>1. r - 1 \in 0 .. T - 1
    BY <1>1, <1>2
  <2>2. (r + (-1)) % T = r - 1
    <3>1. r + (-1) = r - 1
      BY <1>1
    <3> QED BY <2>1, <3>1, Within
  <2>3. x - 1 = T * q + (r - 1)
    BY <1>1
  <2>4. (T * q + (r - 1)) % T = r - 1
    BY <1>1, <2>1, Remainder
  <2> QED BY <2>2, <2>3, <2>4 DEF r
<1>3. CASE r = 0
  <2> DEFINE a == T - 1
  <2>1. a \in 0 .. T - 1
    OBVIOUS
  <2>2. x - 1 = T * (q - 1) + a /\ r + (-1) = T * (-1) + a
    BY <1>1, <1>3
  <2> HIDE DEF a
  <2>3. (T * (q - 1) + a) % T = a /\ (T * (-1) + a) % T = a
    <3>1. q - 1 \in Int /\ -1 \in Int
      BY <1>1
    <3> QED BY <2>1, <3>1, Remainder
  <2> QED BY <2>2, <2>3 DEF r
<1> QED BY <1>1, <1>2, <1>3

-----------------------------------------------------------------------------
LEMMA InOrderType ==
  /\ InOrder("dphydata", NumDataLanes) \in Seq(Lines)
  /\ InOrder("dphydbi", NumGroups) \in Seq(Lines)
  /\ InOrder("dphystroben", NumGroups) \in Seq(Lines)
  /\ InOrder("dphystrobep", NumGroups) \in Seq(Lines)
<1>1. ASSUME NEW k \in {"dphydata"} \cup GroupKinds,
             NEW n \in Nat, n = IF k = "dphydata" THEN NumDataLanes ELSE NumGroups
      PROVE  InOrder(k, n) \in Seq(Lines)
  <2>1. ASSUME NEW i \in 1 .. n PROVE Line(k, i - 1) \in Lines
    <3>1. i - 1 \in 0 .. n - 1
      OBVIOUS
    <3>2. CASE k = "dphydata"
      BY <1>1, <3>1, <3>2 DEF Line, Lines, DphyLines
    <3>3. CASE k \in GroupKinds
      <4>1. k # "dphydata"
        BY <3>3 DEF GroupKinds
      <4> QED BY <1>1, <3>1, <3>3, <4>1 DEF Line, Lines, DphyLines
    <3> QED BY <3>2, <3>3
  <2>2. InOrder(k, n) \in [1 .. n -> Lines]
    BY <2>1 DEF InOrder
  <2> QED BY <2>2
<1> QED BY <1>1, IodelaysAssumption DEF GroupKinds

LEMMA OrderType == Order \in Seq(Lines)
<1>1. <<WriteClock, Address, AddressStrobeN, AddressStrobeP>> \in Seq(Lines)
  BY DEF Lines, AphyLines
<1> QED BY <1>1, InOrderType, ConcatProperties DEF Order

(* A function that is defined for every line by where it is.               *)
LEMMA MoveType ==
  ASSUME TypeInv, NEW k \in Lines, NEW b \in {1, -1},
         delay' = [l \in Lines |-> IF l \notin {k} THEN delay[l] ELSE (delay[l] + b) % Taps]
  PROVE  delay' \in Delays
<1>1. Taps \in Nat \ {0} /\ delay \in Delays
  BY IodelaysAssumption DEF TypeInv
<1>2. ASSUME NEW a \in Int PROVE a % Taps \in 0 .. Taps - 1
  BY <1>1
<1>3. \A l \in Lines : delay[l] \in 0 .. Taps - 1 /\ delay[l] + b \in Int
  BY <1>1 DEF Delays
<1> QED BY <1>2, <1>3 DEF Delays

LEMMA ZeroDelays == NoDelays \in Delays /\ NoDelays \in Records /\ 0 % Taps = 0
<1>1. Taps \in Nat \ {0} /\ 0 \in 0 .. Taps - 1 
  BY IodelaysAssumption
<1> QED BY <1>1, Within DEF NoDelays, Delays, Records

LEMMA InitLines == IodelaysInit => LinesInv
<1> SUFFICES ASSUME IodelaysInit PROVE LinesInv
  OBVIOUS
<1>1. TypeInv
  BY ZeroDelays DEF IodelaysInit, TypeInv
<1>2. DirectionInv /\ StepsInv
  BY DEF IodelaysInit, DirectionInv, StepsInv, Idle
<1>3. DelayInv
  <2> SUFFICES ASSUME NEW l \in FoundAtZero PROVE delay[l] = Believed(l) % Taps
    BY DEF DelayInv
  <2>1. delay[l] = 0 /\ Believed(l) = 0
    BY DEF IodelaysInit, NoDelays, FoundAtZero, Others, Believed, Moving, Idle
  <2> QED BY <2>1, ZeroDelays
<1> QED BY <1>1, <1>2, <1>3 DEF LinesInv

(* Idle lines are where the record says; the call only looks at it.        *)
LEMMA SetStep == ASSUME LinesInv, NEW n \in Settings, SetIodelays(n) PROVE LinesInv'
<1>1. /\ Idle /\ new' = n /\ up' = [l \in DphyLines |-> n[l] > iodelays[l]]
      /\ todo' = Order /\ steps' = -1 /\ UNCHANGED <<delay, iodelays, loads, start>>
  BY DEF SetIodelays, IscDphyDirection
<1>2. n \in Records
  BY IodelaysAssumption DEF Records, UInt8
<1>3. TypeInv'
  BY <1>1, <1>2, OrderType DEF LinesInv, TypeInv
<1>4. DirectionInv'
  BY <1>1 DEF DirectionInv
<1>5. StepsInv'
  <2> SUFFICES ASSUME todo' # << >>
               PROVE  Distance(new'[Head(todo')], iodelays'[Head(todo')]) >= -1
    BY <1>1 DEF StepsInv, Idle
  <2>1. Head(todo') \in Lines
    BY <1>3 DEF TypeInv
  <2>2. new'[Head(todo')] \in Nat /\ iodelays'[Head(todo')] \in Nat
    BY <1>3, <2>1 DEF TypeInv, Records
  <2> QED BY <2>2 DEF Distance
<1>6. DelayInv'
  <2>1. \A l \in FoundAtZero : Believed(l)' = Believed(l)
    BY <1>1 DEF Believed, Moving
  <2>2. FoundAtZero' = FoundAtZero
    BY <1>1 DEF FoundAtZero
  <2> QED BY <1>1, <2>1, <2>2 DEF LinesInv, DelayInv
<1> QED BY <1>3, <1>4, <1>5, <1>6 DEF LinesInv

LEMMA StartStep == ASSUME LinesInv, StartLine PROVE LinesInv'
<1> DEFINE h == Head(todo)
<1>1. /\ ~ Idle /\ steps = -1 /\ steps' = Distance(new[h], iodelays[h])
      /\ UNCHANGED <<delay, up, iodelays, new, todo, loads, start>>
  BY DEF StartLine
<1>2. h \in Lines /\ new[h] \in Nat /\ iodelays[h] \in Nat
  BY <1>1 DEF LinesInv, TypeInv, Records, Idle
<1> HIDE DEF h
<1>3. TypeInv'
  <2>1. steps' \in Nat
    BY <1>1, <1>2 DEF Distance
  <2> QED BY <1>1, <1>2, <2>1 DEF LinesInv, TypeInv
<1>4. DirectionInv'
  BY <1>1 DEF LinesInv, DirectionInv, Idle
<1>5. StepsInv'
  <2>1. Distance(new[h], iodelays[h]) \in Int
    BY <1>2 DEF Distance
  <2>2. ~ Idle' /\ Head(todo') = h /\ steps' <= Distance(new'[h], iodelays'[h])
    BY <1>1, <2>1 DEF Idle, h, Distance
  <2> QED BY <2>2 DEF StepsInv
<1>6. DelayInv'
  <2> SUFFICES ASSUME NEW l \in FoundAtZero PROVE delay[l] = Believed(l)' % Taps
    BY <1>1 DEF DelayInv, FoundAtZero
  <2>1. Believed(l)' = Believed(l)
    <3>1. Believed(l) = iodelays[l]
      BY <1>1 DEF Believed, Moving
    <3>2. CASE l = h
      BY <1>1, <1>2, <3>1, <3>2 DEF Believed, Distance
    <3>3. CASE l # h
      BY <1>1, <3>1, <3>3 DEF Believed, Moving, h
    <3> QED BY <3>2, <3>3
  <2> QED BY <2>1 DEF LinesInv, DelayInv
<1> QED BY <1>3, <1>4, <1>5, <1>6 DEF LinesInv

(* What a step does: the line goes one tap, up if its new delay is above   *)
(* the recorded one; strobe p of the address goes down in any case.        *)
LEMMA StepEffect ==
  ASSUME LinesInv, StepLine
  PROVE  /\ ~ Idle /\ Head(todo) \in Lines
         /\ \E b \in {1, -1} :
              /\ delay' = [l \in Lines |->
                             IF l \notin {Head(todo)} THEN delay[l] ELSE (delay[l] + b) % Taps]
              /\ Head(todo) \in Others => b = IF new[Head(todo)] > iodelays[Head(todo)] THEN 1 ELSE -1
<1> DEFINE h == Head(todo)
<1>1. ~ Idle /\ steps > 0 /\ h \in Lines /\ todo # << >>
  BY DEF StepLine, LinesInv, TypeInv, Idle
<1>2. steps <= Distance(new[h], iodelays[h])
  BY <1>1 DEF LinesInv, StepsInv
<1>3. new[h] # iodelays[h]
  <2>1. new[h] \in Int /\ iodelays[h] \in Int /\ steps \in Int
    BY <1>1 DEF LinesInv, TypeInv, Records
  <2> QED BY <1>1, <1>2, <2>1 DEF Distance
<1> HIDE DEF h
<1>5. CASE h \in DphyLines /\ IscDphyStep(h)
  <2>1. up[h] <=> new[h] > iodelays[h]
    BY <1>1, <1>3, <1>5 DEF LinesInv, DirectionInv
  <2>2. delay' = [l \in Lines |-> IF l \notin {h} THEN delay[l]
                                  ELSE (delay[l] + (IF up[l] THEN 1 ELSE -1)) % Taps]
    BY <1>5 DEF IscDphyStep, Move
  <2>3. delay' = [l \in Lines |-> IF l \notin {h} THEN delay[l]
                                  ELSE (delay[l] + (IF new[h] > iodelays[h] THEN 1 ELSE -1)) % Taps]
    BY <2>1, <2>2
  <2> QED BY <1>1, <2>3 DEF h
<1>6. CASE h = WriteClock /\ IscDphyWc(Direction(h))
  <2>1. delay' = [l \in Lines |-> IF l \notin {h} THEN delay[l]
                                  ELSE (delay[l] + (IF new[h] > iodelays[h] THEN 1 ELSE -1)) % Taps]
    BY <1>6 DEF IscDphyWc, Move, Direction
  <2> QED BY <1>1, <2>1 DEF h
<1>7. CASE h \in AphyLines /\ \E d \in BOOLEAN, s \in BOOLEAN, p \in BOOLEAN :
             /\ IscAphy({h}, d, s, p)
             /\ h = Address => d = Direction(h)
             /\ h = AddressStrobeN => s = Direction(h)
  <2>1. PICK d \in BOOLEAN, s \in BOOLEAN, p \in BOOLEAN :
          /\ IscAphy({h}, d, s, p)
          /\ h = Address => d = Direction(h)
          /\ h = AddressStrobeN => s = Direction(h)
    BY <1>7
  <2> DEFINE c == IF h = Address THEN d ELSE s
  <2>2. delay' = [l \in Lines |-> IF l \notin {h} THEN delay[l]
                                  ELSE (delay[l] + (IF c THEN 1 ELSE -1)) % Taps]
    BY <1>7, <2>1 DEF IscAphy, Move
  <2>3. h \in Others => c = Direction(h)
    BY <1>7, <2>1 DEF Others, AphyLines
  <2> HIDE DEF c
  <2> DEFINE b == IF c THEN 1 ELSE -1
  <2>4. b \in {1, -1}
    OBVIOUS
  <2>5. delay' = [l \in Lines |-> IF l \notin {h} THEN delay[l] ELSE (delay[l] + b) % Taps]
    BY <2>2
  <2>6. h \in Others => b = IF new[h] > iodelays[h] THEN 1 ELSE -1
    BY <2>3 DEF Direction
  <2> HIDE DEF b
  <2> QED BY <1>1, <2>4, <2>5, <2>6 DEF h
<1>8. \/ h \in DphyLines /\ IscDphyStep(h)
      \/ h = WriteClock /\ IscDphyWc(Direction(h))
      \/ h = Address /\ IscAphy({h}, Direction(h), FALSE, FALSE)
      \/ h = AddressStrobeN /\ IscAphy({h}, FALSE, Direction(h), FALSE)
      \/ h = AddressStrobeP /\ IscAphy({h}, FALSE, FALSE, Direction(h))
  BY DEF StepLine, h
<1>9. Direction(h) \in BOOLEAN /\ Address \in AphyLines /\ AddressStrobeN \in AphyLines
      /\ AddressStrobeP \in AphyLines
      /\ Address # AddressStrobeN /\ Address # AddressStrobeP /\ AddressStrobeN # AddressStrobeP
  BY DEF Direction, AphyLines, Address, AddressStrobeN, AddressStrobeP, Line
<1> QED BY <1>5, <1>6, <1>7, <1>8, <1>9

LEMMA StepStep == ASSUME LinesInv, StepLine PROVE LinesInv'
<1> DEFINE h == Head(todo)
<1>1. PICK b \in {1, -1} :
        /\ delay' = [l \in Lines |-> IF l \notin {h} THEN delay[l] ELSE (delay[l] + b) % Taps]
        /\ h \in Others => b = IF new[h] > iodelays[h] THEN 1 ELSE -1
  BY StepEffect
<1>2. /\ ~ Idle /\ todo # << >> /\ steps > 0 /\ steps' = steps - 1 /\ h \in Lines
      /\ UNCHANGED <<up, iodelays, new, todo, loads, start>>
  BY StepEffect DEF StepLine, Idle
<1>3. /\ Taps \in Nat \ {0} /\ steps \in Nat \cup {-1}
      /\ \A l \in Lines : new[l] \in Nat /\ iodelays[l] \in Nat
  BY IodelaysAssumption DEF LinesInv, TypeInv, Records
<1>4. steps <= Distance(new[h], iodelays[h])
  BY <1>2 DEF LinesInv, StepsInv
<1> HIDE DEF h
<1>5. TypeInv'
  <2>1. delay' \in Delays
    BY <1>1, <1>2, MoveType DEF LinesInv
  <2>2. steps' \in Nat \cup {-1}
    BY <1>2, <1>3
  <2> QED BY <1>2, <2>1, <2>2 DEF LinesInv, TypeInv
<1>6. DirectionInv'
  BY <1>2 DEF LinesInv, DirectionInv, Idle
<1>7. StepsInv'
  <2>1. Distance(new[h], iodelays[h]) \in Int
    BY <1>2, <1>3 DEF Distance
  <2>2. ~ Idle' /\ Head(todo') = h /\ steps' <= Distance(new'[h], iodelays'[h])
    BY <1>2, <1>3, <1>4, <2>1 DEF Idle, h, Distance
  <2> QED BY <2>2 DEF StepsInv
<1>8. DelayInv'
  <2> SUFFICES ASSUME NEW l \in FoundAtZero PROVE delay'[l] = Believed(l)' % Taps
    BY <1>2 DEF DelayInv, FoundAtZero
  <2>1. l \in Lines /\ l \in Others /\ delay[l] = Believed(l) % Taps
    BY DEF FoundAtZero, Others, LinesInv, DelayInv
  <2>2. CASE l # h
    <3>1. Believed(l)' = Believed(l)
      BY <1>2, <2>2 DEF Believed, Moving, h
    <3>2. delay'[l] = delay[l]
      BY <1>1, <2>1, <2>2
    <3> QED BY <2>1, <3>1, <3>2
  <2>3. CASE l = h
    <3>1. Moving(l) /\ Moving(l)'
      BY <1>2, <1>3, <2>3 DEF Moving, h, Idle
    <3>2. delay'[l] = (delay[l] + b) % Taps /\ b = IF new[l] > iodelays[l] THEN 1 ELSE -1
      BY <1>1, <2>1, <2>3
    <3>3. CASE new[l] > iodelays[l]
      <4>1. /\ Believed(l) = new[l] - steps /\ Believed(l)' = new[l] - (steps - 1)
            /\ new[l] - steps \in Nat
        BY <1>2, <1>3, <1>4, <2>1, <2>3, <3>1, <3>3 DEF Believed, Distance
      <4> DEFINE x == new[l] - steps
      <4>2. x \in Nat /\ Believed(l) = x /\ Believed(l)' = x + 1
        BY <1>3, <2>1, <4>1
      <4> HIDE DEF x
      <4>3. ((x % Taps) + 1) % Taps = (x + 1) % Taps
        BY <1>3, <4>2, StepUp
      <4> QED BY <2>1, <3>2, <3>3, <4>2, <4>3
    <3>4. CASE ~ (new[l] > iodelays[l])
      <4> DEFINE x == new[l] + steps
      <4>1. /\ Believed(l) = new[l] + steps /\ Believed(l)' = new[l] + (steps - 1)
            /\ new[l] \in Nat /\ steps \in Nat \ {0}
        BY <1>2, <1>3, <2>1, <3>1, <3>4 DEF Believed
      <4>2. x \in Nat \ {0} /\ Believed(l) = x /\ Believed(l)' = x - 1
        BY <4>1
      <4> HIDE DEF x
      <4>3. ((x % Taps) + (-1)) % Taps = (x - 1) % Taps
        BY <1>3, <4>2, StepDown
      <4> QED BY <2>1, <3>2, <3>4, <4>2, <4>3
    <3> QED BY <3>3, <3>4
  <2> QED BY <2>2, <2>3
<1> QED BY <1>5, <1>6, <1>7, <1>8 DEF LinesInv

LEMMA EndStep == ASSUME LinesInv, EndLine PROVE LinesInv'
<1> DEFINE h == Head(todo)
<1>1. /\ ~ Idle /\ todo # << >> /\ steps = 0 /\ steps' = -1 /\ todo' = Tail(todo)
      /\ iodelays' = [iodelays EXCEPT ![h] = new[h]]
      /\ UNCHANGED <<delay, up, new, loads, start>>
  BY DEF EndLine, Idle
<1>2. h \in Lines /\ Tail(todo) \in Seq(Lines) /\ iodelays \in Records /\ new \in Records
  BY <1>1 DEF LinesInv, TypeInv
<1>3. \A l \in Lines : /\ new[l] \in Nat /\ iodelays[l] \in Nat
                       /\ iodelays'[l] = IF l = h THEN new[l] ELSE iodelays[l]
  BY <1>1, <1>2 DEF Records
<1> HIDE DEF h
<1>4. TypeInv'
  <2>1. iodelays' \in Records
    BY <1>1, <1>2, <1>3 DEF Records
  <2> QED BY <1>1, <1>2, <2>1 DEF LinesInv, TypeInv
<1>5. DirectionInv'
  <2>1. ASSUME NEW l \in DphyLines
        PROVE  iodelays'[l] = new[l] \/ (up[l] <=> new[l] > iodelays'[l])
    <3>1. l \in Lines
      BY DEF Lines
    <3>2. iodelays[l] = new[l] \/ (up[l] <=> new[l] > iodelays[l])
      BY <1>1 DEF LinesInv, DirectionInv
    <3> QED BY <1>3, <3>1, <3>2
  <2> QED BY <1>1, <2>1 DEF DirectionInv
<1>6. StepsInv'
  <2> SUFFICES ASSUME todo' # << >>
               PROVE  steps' <= Distance(new'[Head(todo')], iodelays'[Head(todo')])
    BY <1>1 DEF StepsInv, Idle
  <2>1. Head(todo') \in Lines
    BY <1>4 DEF TypeInv
  <2>2. new'[Head(todo')] \in Nat /\ iodelays'[Head(todo')] \in Nat
    BY <1>4, <2>1 DEF TypeInv, Records
  <2> QED BY <1>1, <2>2 DEF Distance
<1>7. DelayInv'
  <2> SUFFICES ASSUME NEW l \in FoundAtZero PROVE delay[l] = Believed(l)' % Taps
    BY <1>1 DEF DelayInv, FoundAtZero
  <2>1. l \in Lines
    BY DEF FoundAtZero, Others
  <2>2. Believed(l)' = Believed(l)
    <3>1. Believed(l)' = iodelays'[l]
      BY <1>1 DEF Believed, Moving
    <3>2. CASE l = h
      BY <1>1, <1>3, <2>1, <3>1, <3>2 DEF Believed, Moving, h
    <3>3. CASE l # h
      BY <1>3, <2>1, <3>1, <3>3 DEF Believed, Moving, h
    <3> QED BY <3>2, <3>3
  <2> QED BY <2>2 DEF LinesInv, DelayInv
<1> QED BY <1>4, <1>5, <1>6, <1>7 DEF LinesInv

(* The record starts at 0, and so do the lines that are found there.       *)
LEMMA LoadStep == ASSUME LinesInv, LoadIodelays PROVE LinesInv'
<1>1. /\ Idle /\ todo = << >> /\ iodelays' = NoDelays /\ new' = NoDelays /\ start' = delay
      /\ UNCHANGED <<delay, up, todo, steps>>
  BY DEF LoadIodelays, Idle
<1>2. TypeInv'
  BY <1>1, ZeroDelays DEF LinesInv, TypeInv
<1>3. DirectionInv' /\ StepsInv'
  BY <1>1 DEF LinesInv, DirectionInv, StepsInv, Idle
<1>4. DelayInv'
  <2> SUFFICES ASSUME NEW l \in Others, start'[l] = 0 PROVE delay'[l] = Believed(l)' % Taps
    BY DEF DelayInv, FoundAtZero
  <2>1. delay'[l] = 0 /\ Believed(l)' = 0
    BY <1>1 DEF Believed, Moving, NoDelays, Others, Idle
  <2> QED BY <2>1, ZeroDelays
<1> QED BY <1>2, <1>3, <1>4 DEF LinesInv

LEMMA StepLines == LinesInv /\ [IodelaysNext]_delayVars => LinesInv'
<1> SUFFICES ASSUME LinesInv, [IodelaysNext]_delayVars PROVE LinesInv'
  OBVIOUS
<1>1. CASE UNCHANGED delayVars
  BY <1>1 DEF delayVars, LinesInv, TypeInv, DirectionInv, StepsInv, DelayInv, FoundAtZero,
              Believed, Moving, Idle
<1> QED BY <1>1, SetStep, StartStep, StepStep, EndStep, LoadStep DEF IodelaysNext

(***************************************************************************)
(* Whatever uint8_t values setiodelays is called with, the lines that were *)
(* at 0 when the driver was loaded, strobe p of the address left out, are  *)
(* where the record and the steps left say, round the end of their range:  *)
(* the inductive invariant from which the next two theorems follow.        *)
(***************************************************************************)
THEOREM LinesCorrect == IodelaysSpec => []LinesInv
BY InitLines, StepLines, PTL DEF IodelaysSpec

(* Between two moves setiodelays knows where those lines are: its record,  *)
(* written when a line has arrived, is the line's own delay.               *)
THEOREM RecordCorrect == IodelaysSpec => []RecordIsDelay
<1>1. LinesInv => RecordIsDelay
  BY DEF LinesInv, DelayInv, RecordIsDelay, Believed, Moving
<1> QED BY <1>1, LinesCorrect, PTL

(* Asked for delays up to the last tap, setiodelays takes no such line     *)
(* away from its new delay or round the ends of its range.                 *)
THEOREM StraightCorrect == IodelaysSpec => StraightToTarget
<1> DEFINE Straight ==
      \A l \in FoundAtZero : ~ Idle /\ iodelays[l] < Taps /\ new[l] < Taps
        => Distance(delay'[l], new[l]) <= Distance(delay[l], new[l])
<1>1. LinesInv /\ [IodelaysNext]_delayVars => [Straight]_delay
  <2> SUFFICES ASSUME LinesInv, [IodelaysNext]_delayVars, delay' # delay, ~ Idle,
                      NEW l \in FoundAtZero, iodelays[l] < Taps, new[l] < Taps
               PROVE  Distance(delay'[l], new[l]) <= Distance(delay[l], new[l])
    OBVIOUS
  <2>1. StepLine
    BY DEF IodelaysNext, delayVars, SetIodelays, StartLine, EndLine, LoadIodelays
  <2>2. LinesInv'
    BY StepLines
  <2>3. /\ l \in Lines /\ UNCHANGED <<new, iodelays, todo, start>>
        /\ steps' = steps - 1 /\ steps > 0 /\ steps \in Int /\ Taps \in Nat \ {0}
    BY <2>1, IodelaysAssumption DEF StepLine, FoundAtZero, Others, LinesInv, TypeInv
  <2>4. new[l] \in 0 .. Taps - 1 /\ iodelays[l] \in 0 .. Taps - 1
    <3>1. new[l] \in Nat /\ iodelays[l] \in Nat
      BY <2>3 DEF LinesInv, TypeInv, Records
    <3> QED BY <2>3, <3>1
  <2>5. delay[l] = Believed(l) % Taps /\ delay'[l] = Believed(l)' % Taps
    BY <2>2, <2>3 DEF LinesInv, DelayInv, FoundAtZero
  <2>6. CASE l # Head(todo)
    <3>1. Believed(l) = iodelays[l] /\ Believed(l)' = iodelays[l]
      BY <2>3, <2>6 DEF Believed, Moving
    <3>2. delay[l] = iodelays[l] /\ delay'[l] = iodelays[l]
      BY <2>3, <2>4, <2>5, <3>1, Within
    <3> QED BY <2>4, <3>2 DEF Distance
  <2>7. CASE l = Head(todo)
    <3>1. Moving(l) /\ Moving(l)'
      BY <2>3, <2>7 DEF Moving, Idle
    <3>2. steps <= Distance(new[l], iodelays[l])
      BY <2>7 DEF LinesInv, StepsInv
    <3>3. CASE new[l] > iodelays[l]
      <4>1. /\ Believed(l) = new[l] - steps /\ Believed(l)' = new[l] - (steps - 1)
            /\ new[l] - steps \in 0 .. Taps - 1 /\ new[l] - (steps - 1) \in 0 .. Taps - 1
        BY <2>3, <2>4, <3>1, <3>2, <3>3 DEF Believed, Distance
      <4>2. delay[l] = new[l] - steps /\ delay'[l] = new[l] - (steps - 1)
        BY <2>3, <2>5, <4>1, Within
      <4> QED BY <2>3, <2>4, <4>2 DEF Distance
    <3>4. CASE ~ (new[l] > iodelays[l])
      <4>1. /\ Believed(l) = new[l] + steps /\ Believed(l)' = new[l] + (steps - 1)
            /\ new[l] + steps \in 0 .. Taps - 1 /\ new[l] + (steps - 1) \in 0 .. Taps - 1
        BY <2>3, <2>4, <3>1, <3>2, <3>4 DEF Believed, Distance
      <4>2. delay[l] = new[l] + steps /\ delay'[l] = new[l] + (steps - 1)
        BY <2>3, <2>5, <4>1, Within
      <4> QED BY <2>3, <2>4, <4>2 DEF Distance
    <3> QED BY <3>3, <3>4
  <2> QED BY <2>6, <2>7
<1> QED BY <1>1, LinesCorrect, PTL DEF IodelaysSpec, StraightToTarget

-----------------------------------------------------------------------------
Has(s, l) == \E i \in DOMAIN s : s[i] = l

LEMMA ConcatHas ==
  ASSUME NEW s \in Seq(Lines), NEW t \in Seq(Lines), NEW l, Has(s, l) \/ Has(t, l)
  PROVE  s \o t \in Seq(Lines) /\ Has(s \o t, l)
<1>1. /\ s \o t \in Seq(Lines) /\ Len(s \o t) = Len(s) + Len(t)
      /\ Len(s) \in Nat /\ Len(t) \in Nat
      /\ \A i \in 1 .. Len(s) + Len(t) : (s \o t)[i] = IF i <= Len(s) THEN s[i] ELSE t[i - Len(s)]
  BY ConcatProperties
<1>2. CASE Has(s, l)
  <2>1. PICK i \in 1 .. Len(s) : s[i] = l
    BY <1>2 DEF Has
  <2>2. i \in 1 .. Len(s) + Len(t) /\ (s \o t)[i] = l
    BY <1>1, <2>1
  <2> QED BY <1>1, <2>2 DEF Has
<1>3. CASE Has(t, l)
  <2>1. PICK i \in 1 .. Len(t) : t[i] = l
    BY <1>3 DEF Has
  <2> DEFINE j == Len(s) + i
  <2>2. j \in 1 .. Len(s) + Len(t) /\ ~ (j <= Len(s)) /\ j - Len(s) = i
    BY <1>1, <2>1
  <2>3. (s \o t)[j] = l
    BY <1>1, <2>1, <2>2
  <2> QED BY <1>1, <2>2, <2>3 DEF Has
<1> QED BY <1>2, <1>3

(* No line is left out of a call. *)
LEMMA OrderHas == \A l \in Lines : Has(Order, l)
<1> SUFFICES ASSUME NEW l \in Lines PROVE Has(Order, l)
  OBVIOUS
<1> DEFINE d == InOrder("dphydata", NumDataLanes)
<1> DEFINE b == InOrder("dphydbi", NumGroups)
<1> DEFINE n == InOrder("dphystroben", NumGroups)
<1> DEFINE p == InOrder("dphystrobep", NumGroups)
<1> DEFINE a == <<WriteClock, Address, AddressStrobeN, AddressStrobeP>>
<1>1. d \in Seq(Lines) /\ b \in Seq(Lines) /\ n \in Seq(Lines) /\ p \in Seq(Lines)
  BY InOrderType
<1>2. a \in Seq(Lines)
  BY DEF Lines, AphyLines
<1>3. ASSUME NEW k, NEW m \in Nat, l \in {k} \X (0 .. m - 1) PROVE Has(InOrder(k, m), l)
  <2>1. PICK i \in 0 .. m - 1 : l = <<k, i>>
    BY <1>3
  <2>2. i + 1 \in 1 .. m /\ (i + 1) - 1 = i
    OBVIOUS
  <2>3. DOMAIN InOrder(k, m) = 1 .. m /\ InOrder(k, m)[i + 1] = l
    BY <2>1, <2>2 DEF InOrder, Line
  <2> QED BY <2>2, <2>3 DEF Has
<1>4. \/ Has(d, l) \/ Has(b, l) \/ Has(n, l) \/ Has(p, l) \/ Has(a, l)
  <2>1. CASE l \in {"dphydata"} \X (0 .. NumDataLanes - 1)
    BY <2>1, <1>3, IodelaysAssumption
  <2>2. CASE l \in GroupKinds \X (0 .. NumGroups - 1)
    <3>1. \/ l \in {"dphydbi"} \X (0 .. NumGroups - 1)
          \/ l \in {"dphystroben"} \X (0 .. NumGroups - 1)
          \/ l \in {"dphystrobep"} \X (0 .. NumGroups - 1)
      BY <2>2 DEF GroupKinds
    <3> QED BY <3>1, <1>3, IodelaysAssumption
  <2>3. CASE l \in {WriteClock} \cup AphyLines
    <3>1. DOMAIN a = 1 .. 4 /\ a[1] = WriteClock /\ a[2] = Address /\ a[3] = AddressStrobeN
          /\ a[4] = AddressStrobeP
      OBVIOUS
    <3> HIDE DEF a
    <3>2. Has(a, l)
      BY <2>3, <3>1 DEF AphyLines, Has
    <3> QED BY <3>2
  <2> QED BY <2>1, <2>2, <2>3 DEF Lines, DphyLines
<1> HIDE DEF d, b, n, p, a
<1>5. d \o b \in Seq(Lines) /\ (d \o b) \o n \in Seq(Lines) /\ ((d \o b) \o n) \o p \in Seq(Lines)
  BY <1>1, ConcatProperties
<1>6. Has((((d \o b) \o n) \o p) \o a, l)
  BY <1>1, <1>2, <1>4, <1>5, ConcatHas
<1> QED BY <1>6 DEF Order, d, b, n, p, a

(* Loaded for the first time, the driver finds every line at 0.  A line    *)
(* whose record is not yet its new delay is still to be dealt with.        *)
FirstInv ==
  /\ loads \in Nat \ {0} /\ (loads = 1 => start = NoDelays)
  /\ ~ Idle => \A l \in Others : iodelays[l] = new[l] \/ Has(todo, l)

LEMMA StepFirst == LinesInv /\ FirstInv /\ [IodelaysNext]_delayVars => FirstInv'
<1> SUFFICES ASSUME LinesInv, FirstInv, [IodelaysNext]_delayVars PROVE FirstInv'
  OBVIOUS
<1>1. CASE UNCHANGED delayVars \/ StartLine \/ StepLine
  BY <1>1 DEF delayVars, StartLine, StepLine, FirstInv, Idle
<1>2. ASSUME NEW n \in Settings, SetIodelays(n) PROVE FirstInv'
  <2>1. \A l \in Others : Has(Order, l)
    BY OrderHas DEF Others
  <2> QED BY <1>2, <2>1 DEF SetIodelays, FirstInv
<1>3. CASE EndLine
  <2>1. /\ todo # << >> /\ todo \in Seq(Lines) /\ todo' = Tail(todo) /\ new' = new
        /\ iodelays' = [iodelays EXCEPT ![Head(todo)] = new[Head(todo)]]
        /\ loads' = loads /\ start' = start /\ iodelays \in Records
    BY <1>3 DEF EndLine, Idle, LinesInv, TypeInv
  <2>2. ASSUME NEW l \in Others, iodelays'[l] # new[l] PROVE Has(Tail(todo), l)
    <3>1. l \in Lines
      BY DEF Others
    <3>2. l # Head(todo) /\ iodelays[l] # new[l]
      BY <2>1, <2>2, <3>1 DEF Records
    <3>3. PICK i \in 1 .. Len(todo) : todo[i] = l
      BY <2>1, <3>2 DEF FirstInv, Has, Idle
    <3>4. i # 1 /\ Len(todo) \in Nat
      BY <2>1, <3>2, <3>3
    <3>5. i - 1 \in 1 .. Len(Tail(todo)) /\ Tail(todo)[i - 1] = todo[i]
      BY <2>1, <3>3, <3>4
    <3>6. DOMAIN Tail(todo) = 1 .. Len(Tail(todo))
      BY <2>1
    <3> QED BY <3>3, <3>5, <3>6 DEF Has
  <2> QED BY <2>1, <2>2 DEF FirstInv
<1>4. CASE LoadIodelays
  BY <1>4 DEF LoadIodelays, FirstInv, Idle
<1> QED BY <1>1, <1>2, <1>3, <1>4 DEF IodelaysNext

(***************************************************************************)
(* Until the driver is loaded again IOCTL_SETIODELAYS does set the delays  *)
(* that it is asked for, strobe p left out.                                *)
(***************************************************************************)
THEOREM FirstLoadCorrect == IodelaysSpec => [](loads = 1 => AskedIsSet)
<1>1. IodelaysInit => FirstInv
  BY DEF IodelaysInit, FirstInv, Idle
<1>2. LinesInv /\ FirstInv => (loads = 1 => AskedIsSet)
  <2> SUFFICES ASSUME LinesInv, FirstInv, loads = 1, ~ Idle,
                      NEW l \in Others, \A i \in DOMAIN todo : todo[i] # l
               PROVE  delay[l] = new[l] % Taps
    BY DEF AskedIsSet
  <2>1. l \in FoundAtZero
    BY DEF FirstInv, FoundAtZero, Others, NoDelays
  <2>2. iodelays[l] = new[l]
    BY DEF FirstInv, Has
  <2>3. l # Head(todo)
    <3>1. todo # << >> /\ todo \in Seq(Lines)
      BY DEF Idle, LinesInv, TypeInv
    <3> QED BY <3>1
  <2>4. Believed(l) = iodelays[l]
    BY <2>3 DEF Believed, Moving
  <2> QED BY <2>1, <2>2, <2>4 DEF LinesInv, DelayInv
<1> QED BY <1>1, <1>2, StepFirst, StepLines, LinesCorrect, PTL DEF IodelaysSpec

-----------------------------------------------------------------------------
(***************************************************************************)
(* acp_ioctl, acp_open, acp_release, d_init and d_exit together, files     *)
(* closing while a call moves the lines, are for the tables a behaviour of *)
(* AcpBuffers and for the lines one of AcpIodelays.                        *)
(***************************************************************************)
THEOREM DriverImplements == DriverSpec => Spec /\ IodelaysSpec
<1>1. DriverInit => Init /\ IodelaysInit
  BY DEF DriverInit
<1>2. [DriverNext]_driverVars => [Next]_vars
  <2> SUFFICES ASSUME [DriverNext]_driverVars PROVE Next \/ UNCHANGED vars
    OBVIOUS
  <2> QED BY DEF DriverNext, driverVars, OpenFile, CloseFile, BufferIoctl, DelayIoctl, MoveLines,
                 Remove, Insert, Next
<1>3. [DriverNext]_driverVars => [IodelaysNext]_delayVars
  <2> SUFFICES ASSUME [DriverNext]_driverVars PROVE IodelaysNext \/ UNCHANGED delayVars
    OBVIOUS
  <2> QED BY DEF DriverNext, driverVars, OpenFile, CloseFile, BufferIoctl, DelayIoctl, MoveLines,
                 Remove, Insert, IodelaysNext
<1> QED BY <1>1, <1>2, <1>3, PTL DEF DriverSpec, Spec, IodelaysSpec
=============================================================================
