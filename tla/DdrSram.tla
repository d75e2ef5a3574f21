------------------------------- MODULE DdrSram -------------------------------
(***************************************************************************)
(* The DDR2 SRAM device: a memory whose requests and data cross from the   *)
(* model's clock to the controller's in separate queues, and whose read    *)
(* data come back on a path that has no way to hold the controller up.     *)
(* Credits (nInflightReads) keep that path free.  At start the device      *)
(* reads and writes back one burst, then writes a pattern to all of the    *)
(* memory.                                                                 *)
(*                                                                         *)
(* Rules and methods are actions in any order.  The controller and the     *)
(* merging queue are not part of this code: Controller does requests in    *)
(* order once it is calibrated, and mergeReqQ keeps the order of arrival.  *)
(* An address is that of a burst; a beat of data is its number among the   *)
(* beats the client writes.                                                *)
(***************************************************************************)
EXTENDS Integers, Sequences, FiniteSets

CONSTANTS
  MaxReads,        (* DRAM_MAX_OUTSTANDING_READS                           *)
  BurstLength,     (* FPGA_DDR_BURST_LENGTH                                *)
  NumAddrs,        (* bursts in the memory                                 *)
  SyncDepth,       (* entries of the sync FIFOs for requests and writes: 8 *)
  MergeDepth,      (* entries of mergeReqQ                                 *)
  CtrlDepth,       (* entries of the controller's address FIFO             *)
  MaxReadSettings, (* arguments of setMaxReads; none without DRAM_DEBUG    *)
  MaxRequests      (* requests of the client (model bound)                 *)

ASSUME SramAssumption ==
  /\ {MaxReads, BurstLength, NumAddrs, SyncDepth, MergeDepth, CtrlDepth} \subseteq Nat \ {0}
  /\ MaxReadSettings \subseteq 0 .. MaxReads
  /\ MaxRequests \in Nat

Addrs == 0 .. NumAddrs - 1
Beats == 0 .. BurstLength - 1

VARIABLES
  state, initPhase, init0Stage, initBurstIdx, initAddr,
  mergeReqQ, syncRequestQ, syncWriteDataQ,
  writeBuffer, writeValue, writePending, writeBurstIdx,
  readBuffer, syncReadDataQ, nInflightReads, readBurstCnt,
  calibrateMaxReads,
  ramClkLocked,    (* the clocks of the RAM are stable                     *)
  calDone,         (* the controller is calibrated (ddr_device_RDY)        *)
  addrQ, dataQ,    (* the controller's FIFOs                               *)
  mem,             (* the memory                                           *)
  requests,        (* requests of the client, in order                     *)
  masks,           (* masks of the beats it wrote, in order                *)
  responses        (* beats it read, in order                              *)

initVars  == <<state, initPhase, init0Stage, initBurstIdx, initAddr>>
writeVars == <<writeBuffer, writeValue, writePending, writeBurstIdx>>
countVars == <<nInflightReads, readBurstCnt, calibrateMaxReads>>
ctrlVars  == <<ramClkLocked, calDone, mem>>
userVars  == <<requests, masks, responses>>
vars == <<initVars, mergeReqQ, syncRequestQ, syncWriteDataQ, writeVars, readBuffer,
          syncReadDataQ, countVars, ctrlVars, addrQ, dataQ, userVars>>

Read(a)  == [op |-> "READ", addr |-> a]
Write(a) == [op |-> "WRITE", addr |-> a]

(* A beat with its mask: masked beats leave the memory as it is. *)
Beat(v, masked) == [value |-> v, masked |-> masked]

Unknown == -1      \* what the memory holds at power on
Pattern == 0       \* init_data

LastBeat == BurstLength - 1

Init ==
  /\ state = "INIT" /\ initPhase = 0 /\ init0Stage = 0
  /\ initBurstIdx = 0 /\ initAddr = 0
  /\ mergeReqQ = << >> /\ syncRequestQ = << >> /\ syncWriteDataQ = << >>
  /\ writeBuffer = << >> /\ writePending = FALSE /\ writeBurstIdx = 0
  /\ writeValue = [b \in Beats |-> Beat(Unknown, FALSE)]
  /\ readBuffer = << >> /\ syncReadDataQ = << >>
  /\ nInflightReads = 0 /\ readBurstCnt = LastBeat /\ calibrateMaxReads = MaxReads
  /\ ramClkLocked = FALSE /\ calDone = FALSE /\ addrQ = << >> /\ dataQ = << >>
  /\ mem = [a \in Addrs |-> [b \in Beats |-> Unknown]]
  /\ requests = << >> /\ masks = << >> /\ responses = << >>

(* Bug: the queue may be full. *)
EnqRequestFull(r) == syncRequestQ' = Append(syncRequestQ, r)

EnqRequest(r) ==
  /\ Len(syncRequestQ) < SyncDepth
  /\ syncRequestQ' = Append(syncRequestQ, r)

EnqWriteData(beat) ==
  /\ Len(syncWriteDataQ) < SyncDepth
  /\ syncWriteDataQ' = Append(syncWriteDataQ, beat)

-----------------------------------------------------------------------------
(* Initialisation. *)

(* Bug: the write first. *)
InitRequestSwapped ==
  /\ state = "INIT" /\ initPhase = 0 /\ ramClkLocked
  /\ init0Stage \in {0, 1}
  /\ EnqRequest(IF init0Stage = 0 THEN Write(0) ELSE Read(0))
  /\ init0Stage' = init0Stage + 1
  /\ UNCHANGED <<state, initPhase, initBurstIdx, initAddr, mergeReqQ, syncWriteDataQ,
                 writeVars, readBuffer, syncReadDataQ, countVars, ctrlVars, addrQ, dataQ, userVars>>

(* Stages 0 and 1 of initPhase0: a read and a write of the first burst.    *)
InitRequest ==
  /\ state = "INIT" /\ initPhase = 0 /\ ramClkLocked
  /\ init0Stage \in {0, 1}
  /\ EnqRequest(IF init0Stage = 0 THEN Read(0) ELSE Write(0))
  /\ init0Stage' = init0Stage + 1
  /\ UNCHANGED <<state, initPhase, initBurstIdx, initAddr, mergeReqQ, syncWriteDataQ,
                 writeVars, readBuffer, syncReadDataQ, countVars, ctrlVars, addrQ, dataQ, userVars>>

(* Stage 2: what was read is written. *)
InitLoopBack ==
  /\ state = "INIT" /\ initPhase = 0 /\ ramClkLocked
  /\ init0Stage = 2
  /\ syncReadDataQ # << >>
  /\ syncReadDataQ' = Tail(syncReadDataQ)
  /\ EnqWriteData(Beat(Head(syncReadDataQ), FALSE))
  /\ IF initBurstIdx = LastBeat
     THEN initBurstIdx' = 0 /\ initPhase' = 1
     ELSE initBurstIdx' = initBurstIdx + 1 /\ UNCHANGED initPhase
  /\ UNCHANGED <<state, init0Stage, initAddr, mergeReqQ, syncRequestQ, writeVars,
                 readBuffer, countVars, ctrlVars, addrQ, dataQ, userVars>>

(* Write the pattern to every burst; the address wraps at the end.         *)
InitPhase1 ==
  /\ state = "INIT" /\ initPhase = 1
  /\ IF initBurstIdx = 0 THEN EnqRequest(Write(initAddr)) ELSE UNCHANGED syncRequestQ
  /\ EnqWriteData(Beat(Pattern, FALSE))
  /\ IF initBurstIdx = LastBeat
     THEN /\ initBurstIdx' = 0
          /\ initAddr' = (initAddr + 1) % NumAddrs
          /\ state' = IF (initAddr + 1) % NumAddrs = 0 THEN "READY" ELSE "INIT"
     ELSE initBurstIdx' = initBurstIdx + 1 /\ UNCHANGED <<initAddr, state>>
  /\ UNCHANGED <<initPhase, init0Stage, mergeReqQ, writeVars, readBuffer, syncReadDataQ,
                 countVars, ctrlVars, addrQ, dataQ, userVars>>

-----------------------------------------------------------------------------
(* The methods. *)

(* readReq takes a credit. *)
ReadReq(a) ==
  /\ state = "READY"
  /\ nInflightReads < calibrateMaxReads /\ nInflightReads < MaxReads
  /\ Len(mergeReqQ) < MergeDepth
  /\ Len(requests) < MaxRequests
  /\ mergeReqQ' = Append(mergeReqQ, Read(a))
  /\ nInflightReads' = nInflightReads + 1
  /\ requests' = Append(requests, Read(a))
  /\ UNCHANGED <<initVars, syncRequestQ, syncWriteDataQ, writeVars, readBuffer, syncReadDataQ,
                 readBurstCnt, calibrateMaxReads, ctrlVars, addrQ, dataQ, masks, responses>>

(* Bug: a credit per beat. *)
ReadRspPerBeat ==
  /\ state = "READY"
  /\ syncReadDataQ # << >>
  /\ syncReadDataQ' = Tail(syncReadDataQ)
  /\ nInflightReads' = IF nInflightReads = 0 THEN 0 ELSE nInflightReads - 1
  /\ readBurstCnt' = IF readBurstCnt = 0 THEN LastBeat ELSE readBurstCnt - 1
  /\ responses' = Append(responses, Head(syncReadDataQ))
  /\ UNCHANGED <<initVars, mergeReqQ, syncRequestQ, syncWriteDataQ, writeVars, readBuffer,
                 calibrateMaxReads, ctrlVars, addrQ, dataQ, requests, masks>>

(* readRsp gives it back with the last beat of the burst. *)
ReadRsp ==
  /\ state = "READY"
  /\ syncReadDataQ # << >>
  /\ syncReadDataQ' = Tail(syncReadDataQ)
  /\ IF readBurstCnt = 0
     THEN nInflightReads' = nInflightReads - 1 /\ readBurstCnt' = LastBeat
     ELSE readBurstCnt' = readBurstCnt - 1 /\ UNCHANGED nInflightReads
  /\ responses' = Append(responses, Head(syncReadDataQ))
  /\ UNCHANGED <<initVars, mergeReqQ, syncRequestQ, syncWriteDataQ, writeVars, readBuffer,
                 calibrateMaxReads, ctrlVars, addrQ, dataQ, requests, masks>>

WriteReq(a) ==
  /\ state = "READY"
  /\ Len(mergeReqQ) < MergeDepth
  /\ Len(requests) < MaxRequests
  /\ mergeReqQ' = Append(mergeReqQ, Write(a))
  /\ requests' = Append(requests, Write(a))
  /\ UNCHANGED <<initVars, syncRequestQ, syncWriteDataQ, writeVars, readBuffer, syncReadDataQ,
                 countVars, ctrlVars, addrQ, dataQ, masks, responses>>

Writes == SelectSeq(requests, LAMBDA r : r.op = "WRITE")

(* The client may give data before the request or after it. *)
WriteData(masked) ==
  /\ state = "READY"
  /\ Len(masks) < (Len(Writes) + 1) * BurstLength
  /\ Len(requests) = MaxRequests => Len(masks) < Len(Writes) * BurstLength
  /\ EnqWriteData(Beat(Len(masks) + 1, masked))
  /\ masks' = Append(masks, masked)
  /\ UNCHANGED <<initVars, mergeReqQ, syncRequestQ, writeVars, readBuffer, syncReadDataQ,
                 countVars, ctrlVars, addrQ, dataQ, requests, responses>>

(* setMaxReads, in builds with DRAM_DEBUG. *)
SetMaxReads(n) ==
  /\ calibrateMaxReads # n
  /\ calibrateMaxReads' = n
  /\ UNCHANGED <<initVars, mergeReqQ, syncRequestQ, syncWriteDataQ, writeVars, readBuffer,
                 syncReadDataQ, nInflightReads, readBurstCnt, ctrlVars, addrQ, dataQ, userVars>>

-----------------------------------------------------------------------------
(* The rules. *)

ForwardIncomingReq ==
  /\ state = "READY"
  /\ mergeReqQ # << >>
  /\ mergeReqQ' = Tail(mergeReqQ)
  /\ EnqRequest(Head(mergeReqQ))
  /\ UNCHANGED <<initVars, syncWriteDataQ, writeVars, readBuffer, syncReadDataQ, countVars,
                 ctrlVars, addrQ, dataQ, userVars>>

(* The request at the head goes to the controller. *)
EnqueueAddress(op) ==
  /\ syncRequestQ # << >> /\ Head(syncRequestQ).op = op
  /\ Len(addrQ) < CtrlDepth
  /\ addrQ' = Append(addrQ, Head(syncRequestQ))
  /\ syncRequestQ' = Tail(syncRequestQ)

ProcessReadRequest ==
  /\ calDone
  /\ EnqueueAddress("READ")
  /\ UNCHANGED <<initVars, mergeReqQ, syncWriteDataQ, writeVars, readBuffer, syncReadDataQ,
                 countVars, ctrlVars, dataQ, userVars>>

WriteDataToBuffer ==
  /\ syncWriteDataQ # << >> /\ writeBuffer = << >>
  /\ writeBuffer' = <<Head(syncWriteDataQ)>>
  /\ syncWriteDataQ' = Tail(syncWriteDataQ)
  /\ UNCHANGED <<initVars, mergeReqQ, syncRequestQ, writeValue, writePending, writeBurstIdx,
                 readBuffer, syncReadDataQ, countVars, ctrlVars, addrQ, dataQ, userVars>>

(* Collect a burst. *)
CopyWriteData ==
  /\ writeBurstIdx # BurstLength /\ ~ writePending
  /\ writeBuffer # << >>
  /\ writeBuffer' = << >>
  /\ writeValue' = [writeValue EXCEPT ![writeBurstIdx] = Head(writeBuffer)]
  /\ writeBurstIdx' = writeBurstIdx + 1
  /\ UNCHANGED <<initVars, mergeReqQ, syncRequestQ, syncWriteDataQ, writePending, readBuffer,
                 syncReadDataQ, countVars, ctrlVars, addrQ, dataQ, userVars>>

(* Bug: the first beat is sent again. *)
ProcessWriteRequest0Again ==
  /\ ~ writePending /\ writeBurstIdx = BurstLength
  /\ EnqueueAddress("WRITE")
  /\ dataQ' = Append(dataQ, writeValue[0])
  /\ writeBurstIdx' = 0 /\ writePending' = TRUE
  /\ UNCHANGED <<initVars, mergeReqQ, syncWriteDataQ, writeBuffer, writeValue, readBuffer,
                 syncReadDataQ, countVars, ctrlVars, userVars>>

(* Bug: the burst need not be complete. *)
ProcessWriteRequest0Early ==
  /\ ~ writePending
  /\ EnqueueAddress("WRITE")
  /\ dataQ' = Append(dataQ, writeValue[0])
  /\ IF LastBeat = 0
     THEN writeBurstIdx' = 0 /\ UNCHANGED writePending
     ELSE writeBurstIdx' = 1 /\ writePending' = TRUE
  /\ UNCHANGED <<initVars, mergeReqQ, syncWriteDataQ, writeBuffer, writeValue, readBuffer,
                 syncReadDataQ, countVars, ctrlVars, userVars>>

(* The request and the first beat of a complete burst; writeBurstIdx now   *)
(* counts the beats that have gone out.                                    *)
ProcessWriteRequest0 ==
  /\ ~ writePending /\ writeBurstIdx = BurstLength
  /\ EnqueueAddress("WRITE")
  /\ dataQ' = Append(dataQ, writeValue[0])
  /\ IF LastBeat = 0
     THEN writeBurstIdx' = 0 /\ UNCHANGED writePending
     ELSE writeBurstIdx' = 1 /\ writePending' = TRUE
  /\ UNCHANGED <<initVars, mergeReqQ, syncWriteDataQ, writeBuffer, writeValue, readBuffer,
                 syncReadDataQ, countVars, ctrlVars, userVars>>

(* The other beats. *)
ProcessWriteRequest1 ==
  /\ writePending
  /\ dataQ' = Append(dataQ, writeValue[writeBurstIdx])
  /\ IF writeBurstIdx = LastBeat
     THEN writeBurstIdx' = 0 /\ writePending' = FALSE
     ELSE writeBurstIdx' = writeBurstIdx + 1 /\ UNCHANGED writePending
  /\ UNCHANGED <<initVars, mergeReqQ, syncRequestQ, syncWriteDataQ, writeBuffer, writeValue,
                 readBuffer, syncReadDataQ, countVars, ctrlVars, addrQ, userVars>>

ReadRAMBufferToModel ==
  /\ readBuffer # << >>
  /\ Len(syncReadDataQ) < MaxReads * BurstLength
  /\ syncReadDataQ' = Append(syncReadDataQ, Head(readBuffer))
  /\ readBuffer' = Tail(readBuffer)
  /\ UNCHANGED <<initVars, mergeReqQ, syncRequestQ, syncWriteDataQ, writeVars, countVars,
                 ctrlVars, addrQ, dataQ, userVars>>

-----------------------------------------------------------------------------
(* The controller. *)

ClockLocks ==
  /\ ~ ramClkLocked
  /\ ramClkLocked' = TRUE
  /\ UNCHANGED <<initVars, mergeReqQ, syncRequestQ, syncWriteDataQ, writeVars, readBuffer,
                 syncReadDataQ, countVars, calDone, mem, addrQ, dataQ, userVars>>

Calibrated ==
  /\ ~ calDone
  /\ calDone' = TRUE
  /\ UNCHANGED <<initVars, mergeReqQ, syncRequestQ, syncWriteDataQ, writeVars, readBuffer,
                 syncReadDataQ, countVars, ramClkLocked, mem, addrQ, dataQ, userVars>>

Burst(a) == [i \in 1 .. BurstLength |-> mem[a][i - 1]]

(* A read.  Its beats come out one by one and go into readBuffer as they   *)
(* do (readRAMDataToBuffer); they are its queue here.                      *)
ControllerRead ==
  /\ calDone /\ addrQ # << >> /\ Head(addrQ).op = "READ"
  /\ addrQ' = Tail(addrQ)
  /\ readBuffer' = readBuffer \o Burst(Head(addrQ).addr)
  /\ UNCHANGED <<initVars, mergeReqQ, syncRequestQ, syncWriteDataQ, writeVars, syncReadDataQ,
                 countVars, ctrlVars, dataQ, userVars>>

(* A write with its data. *)
ControllerWrite ==
  /\ calDone /\ addrQ # << >> /\ Head(addrQ).op = "WRITE"
  /\ Len(dataQ) >= BurstLength
  /\ addrQ' = Tail(addrQ)
  /\ dataQ' = SubSeq(dataQ, BurstLength + 1, Len(dataQ))
  /\ mem' = [mem EXCEPT ![Head(addrQ).addr] =
               [b \in Beats |-> IF dataQ[b + 1].masked THEN @[b] ELSE dataQ[b + 1].value]]
  /\ UNCHANGED <<initVars, mergeReqQ, syncRequestQ, syncWriteDataQ, writeVars, readBuffer,
                 syncReadDataQ, countVars, ramClkLocked, calDone, userVars>>

-----------------------------------------------------------------------------
InitRules == InitRequest \/ InitLoopBack \/ InitPhase1

Rules ==
  \/ ForwardIncomingReq \/ ProcessReadRequest \/ WriteDataToBuffer \/ CopyWriteData
  \/ ProcessWriteRequest0 \/ ProcessWriteRequest1 \/ ReadRAMBufferToModel

Controller == ClockLocks \/ Calibrated \/ ControllerRead \/ ControllerWrite

Client ==
  \/ \E a \in Addrs : ReadReq(a) \/ WriteReq(a)
  \/ \E masked \in BOOLEAN : WriteData(masked)
  \/ ReadRsp
  \/ \E n \in MaxReadSettings : SetMaxReads(n)

Next == InitRules \/ Rules \/ Controller \/ Client

Spec == Init /\ [][Next]_vars

(***************************************************************************)
(* Fairness.  Rules that can fire do, and so does the controller; the      *)
(* client gives the data of the writes it asked for.  Nothing is assumed   *)
(* of when it takes what it read.                                          *)
(***************************************************************************)
Fairness ==
  /\ WF_vars(InitRules) /\ WF_vars(ForwardIncomingReq)
  /\ WF_vars(ProcessReadRequest) /\ WF_vars(WriteDataToBuffer) /\ WF_vars(CopyWriteData)
  /\ WF_vars(ProcessWriteRequest0 \/ ProcessWriteRequest1)
  /\ WF_vars(ReadRAMBufferToModel) /\ WF_vars(Controller)
  /\ WF_vars(Len(masks) < Len(Writes) * BurstLength /\ \E masked \in BOOLEAN : WriteData(masked))

FairSpec == Spec /\ Fairness

-----------------------------------------------------------------------------
(* Properties. *)

Requests == [op : {"READ", "WRITE"}, addr : Addrs]
BeatType == [value : Nat \cup {Unknown}, masked : BOOLEAN]

(* Types of the variables, the queues with their capacities. *)
TypeOK ==
  /\ state \in {"INIT", "READY"} /\ initPhase \in {0, 1} /\ init0Stage \in 0 .. 2
  /\ initBurstIdx \in Beats /\ initAddr \in Addrs
  /\ mergeReqQ \in Seq(Requests) /\ Len(mergeReqQ) <= MergeDepth
  /\ syncRequestQ \in Seq(Requests) /\ Len(syncRequestQ) <= SyncDepth
  /\ syncWriteDataQ \in Seq(BeatType) /\ Len(syncWriteDataQ) <= SyncDepth
  /\ writeBuffer \in Seq(BeatType) /\ Len(writeBuffer) <= 1
  /\ writeValue \in [Beats -> BeatType] /\ writePending \in BOOLEAN
  /\ writeBurstIdx \in 0 .. BurstLength
  /\ readBuffer \in Seq(Nat \cup {Unknown}) /\ syncReadDataQ \in Seq(Nat \cup {Unknown})
  /\ nInflightReads \in 0 .. MaxReads /\ readBurstCnt \in Beats
  /\ calibrateMaxReads \in 0 .. MaxReads
  /\ ramClkLocked \in BOOLEAN /\ calDone \in BOOLEAN
  /\ addrQ \in Seq(Requests) /\ Len(addrQ) <= CtrlDepth /\ dataQ \in Seq(BeatType)
  /\ mem \in [Addrs -> [Beats -> Nat \cup {Unknown}]]
  /\ requests \in Seq(Requests) /\ masks \in Seq(BOOLEAN)
  /\ responses \in Seq(Nat \cup {Unknown})

(***************************************************************************)
(* What the controller has read always finds room in syncReadDataQ, which  *)
(* is sized for that: the controller cannot be held up, and readRAMData-   *)
(* ToBuffer would lose data.                                               *)
(***************************************************************************)
ReadPathNeverBlocks ==
  Len(readBuffer) + Len(syncReadDataQ) <= MaxReads * BurstLength

(* Beats never wait for a request: the rules look at the controller's room *)
(* for addresses only (enqueue_address_RDY), and this bounds its data.     *)
DataFollowsRequest == Len(dataQ) <= BurstLength * Len(addrQ)

(* The beats that go with the reads or writes among the first n requests.  *)
BeatsOf(op, rs, n) == BurstLength * Cardinality({i \in 1 .. n : rs[i].op = op})

(* The memory after each of the requests rs: a write puts its own beats    *)
(* there, but for those that are masked in ms.                             *)
MemoryOf(rs, ms) ==
  LET Memory[i \in 0 .. Len(rs)] ==
        IF i = 0 THEN [a \in Addrs |-> [b \in Beats |-> Pattern]]
        ELSE IF rs[i].op = "READ" THEN Memory[i - 1]
        ELSE [Memory[i - 1] EXCEPT ![rs[i].addr] =
                [b \in Beats |-> LET k == BeatsOf("WRITE", rs, i - 1) + b + 1
                                 IN  IF k > Len(ms) \/ ms[k] THEN @[b] ELSE k]]
  IN  Memory

(***************************************************************************)
(* The device is a memory: a read returns what the last write before it,   *)
(* in the order of the requests, put there, or the initial pattern; the    *)
(* data of writes, which come in a queue of their own, go with the right   *)
(* requests, and masked beats are not written.  Nothing else is returned.  *)
(***************************************************************************)
ReadsSeeEarlierWrites ==
  /\ Len(responses) <= BeatsOf("READ", requests, Len(requests))
  /\ \A i \in 1 .. Len(requests), b \in Beats :
       LET k == BeatsOf("READ", requests, i - 1) + b + 1
       IN  requests[i].op = "READ" /\ k <= Len(responses)
             => responses[k] = MemoryOf(requests, masks)[i][requests[i].addr][b]

(* Initialisation ends, and what was asked for then is read, even if the   *)
(* client does not take it: again and again no read is outstanding.        *)
(* (Requests are bounded.)                                                 *)
ReadsComplete ==
  /\ <>(state = "READY")
  /\ []<>(Len(responses) + Len(syncReadDataQ) = BeatsOf("READ", requests, Len(requests)))
=============================================================================
