----------------------------- MODULE AcpIodelays -----------------------------
(***************************************************************************)
(* The delay lines of the physical interface.  The driver cannot read      *)
(* them: it records the delays it believes are set, and IOCTL_SETIODELAYS  *)
(* moves every line from there to its new delay, one tap at a time, with   *)
(* commands over the interrupt side channel (ISC).  A data group's lines   *)
(* get their directions in one command before the first step; the others   *)
(* get them with each step.                                                *)
(*                                                                         *)
(* A command is one action.  The FPGA takes each bit of it for what the    *)
(* comment beside the bit says it is.  A delay line has Taps taps, wraps   *)
(* round and starts at 0 when the FPGA is configured, which is before the  *)
(* driver is first loaded.  Programs may ask for any uint8_t, also for     *)
(* more than the last tap.  resetiodelays does nothing as nothing in the   *)
(* driver sets socketoccupied.  One board: each has a record and a channel *)
(* of its own.                                                             *)
(***************************************************************************)
EXTENDS Integers, Sequences

CONSTANTS
  NumDataLanes, (* data lanes: 64                                          *)
  NumGroups,    (* groups of lanes: 4                                      *)
  Taps,         (* taps of a delay line                                    *)
  Settings,     (* delays that programs ask for                            *)
  MaxLoads      (* times the driver is loaded (model bound)                *)

Line(kind, i) == <<kind, i>>
GroupKinds == {"dphydbi", "dphystroben", "dphystrobep"}
DphyLines ==
  ({"dphydata"} \X (0 .. NumDataLanes - 1)) \cup (GroupKinds \X (0 .. NumGroups - 1))
WriteClock    == Line("dphywc", 0)
Address       == Line("aphydata", 0)
AddressStrobeN == Line("aphystroben", 0)
AddressStrobeP == Line("aphystrobep", 0)
AphyLines == {Address, AddressStrobeN, AddressStrobeP}
Lines == DphyLines \cup {WriteClock} \cup AphyLines

UInt8 == 0 .. 255

ASSUME IodelaysAssumption ==
  /\ NumDataLanes \in Nat /\ NumGroups \in Nat
  /\ Taps \in Nat \ {0}
  /\ Settings \subseteq [Lines -> UInt8]
  /\ MaxLoads \in Nat

VARIABLES
  delay,        (* where the lines are                                     *)
  up,           (* directions of the data groups' lines                    *)
  iodelays,     (* the driver's record                                     *)
  new,          (* newacp_iodelays of the call under way                   *)
  todo,         (* lines the call has not dealt with, in its order         *)
  steps,        (* steps left for the first of them; -1 before it starts   *)
  loads,        (* how often the driver was loaded                         *)
  start         (* where the lines were when it was last loaded            *)

delayVars == <<delay, up, iodelays, new, todo, steps, loads, start>>

InOrder(kind, n) == [i \in 1 .. n |-> Line(kind, i - 1)]

(* The order in which setiodelays deals with the lines. *)
Order ==
  InOrder("dphydata", NumDataLanes)
  \o InOrder("dphydbi", NumGroups)
  \o InOrder("dphystroben", NumGroups)
  \o InOrder("dphystrobep", NumGroups)
  \o <<WriteClock, Address, AddressStrobeN, AddressStrobeP>>

NoDelays == [l \in Lines |-> 0]

IodelaysInit ==
  /\ delay = NoDelays /\ up = [l \in DphyLines |-> FALSE]
  /\ iodelays = NoDelays /\ new = NoDelays
  /\ todo = << >> /\ steps = -1 /\ loads = 1 /\ start = NoDelays

Idle == todo = << >>

Distance(a, b) == IF a > b THEN a - b ELSE b - a

(* A step of the lines in set, up or down. *)
Move(set, isUp(_)) ==
  delay' = [l \in Lines |-> IF l \notin set THEN delay[l]
                            ELSE (delay[l] + (IF isUp(l) THEN 1 ELSE -1)) % Taps]

-----------------------------------------------------------------------------
(* Commands of the ISC. *)

(* Bug: the command is not sent. *)
IscDphyDirectionLost(direction) == UNCHANGED up

IscDphyDirection(direction) == up' = direction

IscDphyStep(l) == Move({l}, LAMBDA k : up[k])

IscDphyWc(direction) == Move({WriteClock}, LAMBDA k : direction)

(* iscaphy: the last bit of its parameter, the direction of strobe p, is   *)
(* sent from aphystrobendirection.                                         *)
IscAphy(step, datadirection, strobendirection, strobepdirection) ==
  LET sent == [l \in AphyLines |-> IF l = Address THEN datadirection ELSE strobendirection]
  IN  Move(step, LAMBDA k : sent[k])

-----------------------------------------------------------------------------
Direction(l) == new[l] > iodelays[l]

(* IOCTL_SETIODELAYS: the directions of all lines of the data groups.      *)
SetIodelays(n) ==
  /\ Idle
  /\ new' = n
  /\ IscDphyDirection([l \in DphyLines |-> n[l] > iodelays[l]])
  /\ todo' = Order /\ steps' = -1
  /\ UNCHANGED <<delay, iodelays, loads, start>>

(* The steps to the next line's delay. *)
StartLine ==
  /\ ~ Idle /\ steps = -1
  /\ steps' = Distance(new[Head(todo)], iodelays[Head(todo)])
  /\ UNCHANGED <<delay, up, iodelays, new, todo, loads, start>>

StepLine ==
  /\ ~ Idle /\ steps > 0
  /\ LET l == Head(todo) IN
       \/ l \in DphyLines /\ IscDphyStep(l)
       \/ l = WriteClock /\ IscDphyWc(Direction(l))
       \/ l = Address /\ IscAphy({l}, Direction(l), FALSE, FALSE)
       \/ l = AddressStrobeN /\ IscAphy({l}, FALSE, Direction(l), FALSE)
       \/ l = AddressStrobeP /\ IscAphy({l}, FALSE, FALSE, Direction(l))
  /\ steps' = steps - 1
  /\ UNCHANGED <<up, iodelays, new, todo, loads, start>>

(* Bug: the record is not kept. *)
EndLineForgets ==
  /\ ~ Idle /\ steps = 0
  /\ todo' = Tail(todo) /\ steps' = -1
  /\ UNCHANGED <<delay, up, iodelays, new, loads, start>>

EndLine ==
  /\ ~ Idle /\ steps = 0
  /\ iodelays' = [iodelays EXCEPT ![Head(todo)] = new[Head(todo)]]
  /\ todo' = Tail(todo) /\ steps' = -1
  /\ UNCHANGED <<delay, up, new, loads, start>>

(* The driver is removed and loaded again: its record starts at 0, the     *)
(* lines stay where they are.                                              *)
LoadIodelays ==
  /\ Idle /\ loads < MaxLoads
  /\ loads' = loads + 1
  /\ iodelays' = NoDelays /\ new' = NoDelays
  /\ start' = delay
  /\ UNCHANGED <<delay, up, todo, steps>>

IodelaysNext ==
  (\E n \in Settings : SetIodelays(n)) \/ StartLine \/ StepLine \/ EndLine \/ LoadIodelays

IodelaysSpec == IodelaysInit /\ [][IodelaysNext]_delayVars

-----------------------------------------------------------------------------
(* Properties.  Strobe p of the address is left out of all of them:        *)
(* iscaphy sends it the direction of strobe n (line 111), so that it       *)
(* always moves down and is wrong after the first call that moves it up.   *)

Others == Lines \ {AddressStrobeP}

(* Lines that were at 0, where the record starts, when the driver was      *)
(* loaded: all of them the first time, but not when it is loaded again.    *)
FoundAtZero == {l \in Others : start[l] = 0}

(***************************************************************************)
(* A line that was at 0 when the driver was loaded is where the record     *)
(* says, unless it is just being moved, over any calls of SETIODELAYS: so  *)
(* the next call, which only knows the record, ends at the delay that its  *)
(* caller asked for.  A delay past the last tap goes round.                *)
(***************************************************************************)
RecordIsDelay ==
  \A l \in FoundAtZero : Idle \/ l # Head(todo) => delay[l] = iodelays[l] % Taps

(***************************************************************************)
(* Between two delays in its range such a line moves straight: no step     *)
(* takes it away from its new delay, not even round the end of the range,  *)
(* where the delay would jump.                                             *)
(***************************************************************************)
StraightToTarget ==
  [][\A l \in FoundAtZero :
       ~ Idle /\ iodelays[l] < Taps /\ new[l] < Taps
         => Distance(delay'[l], new[l]) <= Distance(delay[l], new[l])]_delay

(***************************************************************************)
(* The lines that SETIODELAYS has dealt with have the delays it was asked  *)
(* for.  d_init means to ensure that, whenever the driver is loaded, by    *)
(* bringing the lines to 0 with the record ("reset PHY and IO delays",     *)
(* line 1025).                                                             *)
(***************************************************************************)
AskedIsSet ==
  ~ Idle => \A l \in Others : (\A i \in DOMAIN todo : todo[i] # l) => delay[l] = new[l] % Taps

=============================================================================
