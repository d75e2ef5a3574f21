------------------------------ MODULE ArchesMpi ------------------------------
(***************************************************************************)
(* The Arches MPI channel, both ends.  The host calls MPI from one thread  *)
(* (MPI_Init promises it no more) and keeps one receive posted.  The FPGA  *)
(* drives a message passing engine (MPE) through command and data queues   *)
(* that cross clocks separately.  It always has a receive requested, and   *)
(* sends a chunk only when the host has acknowledged the one before; the   *)
(* acknowledgement is a message with a tag of its own, among the data that *)
(* the host sends.                                                         *)
(*                                                                         *)
(* Rules are actions in any order, each waiting only for the queues of the *)
(* branch it takes, as in EdgeFPGA.  MPE and MPI library are not part of   *)
(* this code: messages arrive in order, MPI_Send returns when the network  *)
(* has room, and a send is done while a receive is outstanding.            *)
(***************************************************************************)
EXTENDS Naturals, Sequences, FiniteSets

CONSTANTS
  QueueDepth,   (* entries of the sync FIFOs, readBuffer and writeBuffer: 2 *)
  NetDepth,     (* messages to the FPGA that the network holds              *)
  H2FPayloads,  (* payload chunks of the messages the host writes           *)
  F2HPayloads,  (* payload chunks of those the FPGA's client writes         *)
  MaxH2F,       (* messages the host writes (model bound)                   *)
  MaxF2H        (* messages the FPGA's client writes (model bound)          *)

ASSUME MpiAssumption ==
  /\ QueueDepth \in Nat \ {0} /\ NetDepth \in Nat \ {0}
  /\ H2FPayloads \cup F2HPayloads \subseteq Nat /\ MaxH2F \in Nat /\ MaxF2H \in Nat

VARIABLES
  (* Host. *)
  hpc,              (* what the host's thread is doing                      *)
  blocking,         (* a read in progress is Read, not TryRead              *)
  outgoing,         (* chunks that Write still has to send                  *)
  incomingMessage,  (* chunks of the unfinished message, none for NULL      *)
  outstandingReq,   (* outstandingReqBuffer, when the posted receive is done *)
  h2f,              (* payload sizes of the messages written, in order      *)
  f2hGot,           (* messages returned to the client                      *)
  (* Network and engine. *)
  toHost, toFPGA,   (* messages on their way                                *)
  mpeCmd, mpeData,  (* command words and data the engine has been given     *)
  mpeRecv,          (* the receive it works on                              *)
  respCmd, respData, (* what it answers                                     *)
  (* FPGA's device: the sync FIFOs. *)
  cmdOut, dataOut, cmdIn, dataIn,
  (* FPGA's channel. *)
  state, initStage, recvReqStage, recvRespStage, sendStage,
  sendServerState, recvServerState, queueOwner,
  readBuffer, writeBuffer,
  partial,          (* chunks the client read of an unfinished message      *)
  h2fGot,           (* messages it has read                                 *)
  f2h,              (* payload sizes of the messages it writes, in order    *)
  f2hSent           (* chunks it has written                                *)

hostVars   == <<hpc, blocking, outgoing, incomingMessage, h2f, f2hGot>>
netVars    == <<outstandingReq, toHost, toFPGA>>
mpeVars    == <<mpeCmd, mpeData, mpeRecv, respCmd, respData>>
outVars    == <<cmdOut, dataOut>>
inVars     == <<cmdIn, dataIn>>
stageVars  == <<state, initStage, recvReqStage, recvRespStage, sendStage>>
serverVars == <<sendServerState, recvServerState, queueOwner>>
clientVars == <<partial, h2fGot, f2h, f2hSent>>
fpgaVars   == <<stageVars, serverVars, readBuffer, writeBuffer, clientVars>>
vars       == <<hostVars, netVars, mpeVars, outVars, inVars, fpgaVars>>

(* A message is its number and the chunks it has in the order they go over *)
(* the wire: 0 is the header, which holds their number.                    *)
MessageChunks(m, payload) == [i \in 1 .. payload + 1 |-> <<m, i - 1>>]

(* What a message's header says of its length. *)
Payload(sizes, chunks) ==
  LET m == chunks[1][1] IN IF m \in DOMAIN sizes THEN sizes[m] ELSE 0

FortyTwo == <<0, 0>>       \* the payload of an acknowledgement

Msg(tag, chunk) == [tag |-> tag, chunk |-> chunk]

Init ==
  /\ hpc = "idle" /\ blocking = FALSE /\ outgoing = << >>
  /\ incomingMessage = << >> /\ outstandingReq = << >>
  /\ h2f = << >> /\ f2hGot = << >>
  /\ toHost = << >> /\ toFPGA = << >>
  /\ mpeCmd = << >> /\ mpeData = << >> /\ mpeRecv = "none"
  /\ respCmd = << >> /\ respData = << >>
  /\ cmdOut = << >> /\ dataOut = << >> /\ cmdIn = << >> /\ dataIn = << >>
  /\ state = "init" /\ initStage = 0 /\ recvReqStage = 0 /\ recvRespStage = 0
  /\ sendStage = 0 /\ sendServerState = "idle" /\ recvServerState = "idle"
  /\ queueOwner = "none" /\ readBuffer = << >> /\ writeBuffer = << >>
  /\ partial = << >> /\ h2fGot = << >> /\ f2h = << >> /\ f2hSent = << >>

-----------------------------------------------------------------------------
(* The host. *)

HostRest == UNCHANGED <<mpeVars, outVars, inVars, fpgaVars>>

(* Bug: nobody looks for room. *)
MpiSendFull(m) == toFPGA' = Append(toFPGA, m)

MpiSend(m) == Len(toFPGA) < NetDepth /\ toFPGA' = Append(toFPGA, m)

Write ==
  /\ hpc = "idle" /\ Len(h2f) < MaxH2F
  /\ \E payload \in H2FPayloads :
       LET chunks == MessageChunks(Len(h2f) + 1, payload)
       IN  /\ h2f' = Append(h2f, payload)
           /\ outgoing' = chunks
  /\ hpc' = "write"
  /\ UNCHANGED <<blocking, incomingMessage, f2hGot, netVars>> /\ HostRest

(* One chunk at a time; Write returns after the last. *)
WriteChunk ==
  /\ hpc = "write"
  /\ MpiSend(Msg("DATA", Head(outgoing)))
  /\ outgoing' = Tail(outgoing)
  /\ hpc' = IF Len(outgoing) = 1 THEN "idle" ELSE "write"
  /\ UNCHANGED <<blocking, incomingMessage, h2f, f2hGot, outstandingReq, toHost>>
  /\ HostRest

(* MPI_Test succeeds; when it fails TryRead gives NULL and nothing changes. *)
TryRead ==
  /\ hpc = "idle" /\ outstandingReq # << >>
  /\ hpc' = "ack" /\ blocking' = FALSE
  /\ UNCHANGED <<outgoing, incomingMessage, h2f, f2hGot, netVars>> /\ HostRest

(* Read does not return without a message: the client calls it for one     *)
(* that is on its way.                                                     *)
Read ==
  /\ hpc = "idle" /\ Len(f2hGot) < Len(f2h)
  /\ hpc' = "read" /\ blocking' = TRUE
  /\ UNCHANGED <<outgoing, incomingMessage, h2f, f2hGot, netVars>> /\ HostRest

(* The loop on MPI_Test ends. *)
ReadTest ==
  /\ hpc = "read" /\ outstandingReq # << >>
  /\ hpc' = "ack"
  /\ UNCHANGED <<blocking, outgoing, incomingMessage, h2f, f2hGot, netVars>>
  /\ HostRest

(* Bug: the chunk is not acknowledged. *)
SendAckNot ==
  /\ hpc = "ack"
  /\ hpc' = "copy"
  /\ UNCHANGED <<blocking, outgoing, incomingMessage, h2f, f2hGot, netVars>>
  /\ HostRest

SendAck ==
  /\ hpc = "ack"
  /\ MpiSend(Msg("ACK", FortyTwo))
  /\ hpc' = "copy"
  /\ UNCHANGED <<blocking, outgoing, incomingMessage, h2f, f2hGot,
                 outstandingReq, toHost>>
  /\ HostRest

(* Bug: a message is complete with its first chunk. *)
CompleteAny(chunks) == chunks # << >>

(* incomingMessage is complete: ~ CanAppend(). *)
Complete(chunks) == Len(chunks) > Payload(f2h, chunks)

(* Copy the chunk out of outstandingReqBuffer and post the next receive.   *)
(* The channel starts a message with it or appends it; a complete one is   *)
(* returned, else TryRead gives NULL and Read goes on.                     *)
CopyChunk ==
  /\ hpc = "copy"
  /\ outstandingReq' = << >>
  /\ LET chunks == incomingMessage \o outstandingReq
     IN  IF Complete(chunks)
         THEN /\ f2hGot' = Append(f2hGot, chunks)
              /\ incomingMessage' = << >> /\ hpc' = "idle"
         ELSE /\ incomingMessage' = chunks
              /\ hpc' = IF blocking THEN "read" ELSE "idle"
              /\ UNCHANGED f2hGot
  /\ UNCHANGED <<blocking, outgoing, h2f, toHost, toFPGA>> /\ HostRest

Host == WriteChunk \/ TryRead \/ ReadTest \/ SendAck \/ CopyChunk

-----------------------------------------------------------------------------
(* Network and engine. *)

(* A chunk lands in the buffer of the posted receive. *)
Arrive ==
  /\ toHost # << >> /\ outstandingReq = << >>
  /\ outstandingReq' = <<Head(toHost)>>
  /\ toHost' = Tail(toHost)
  /\ UNCHANGED <<hostVars, toFPGA, mpeVars, outVars, inVars, fpgaVars>>

(* A command: operation and tag; a send takes its data.                    *)
MpeCommand ==
  /\ Len(mpeCmd) >= 2
  /\ mpeCmd' = SubSeq(mpeCmd, 3, Len(mpeCmd))
  /\ IF mpeCmd[1] = "SEND"
     THEN /\ mpeData # << >>
          /\ toHost' = Append(toHost, Head(mpeData))
          /\ mpeData' = Tail(mpeData)
          /\ UNCHANGED mpeRecv
     ELSE /\ mpeRecv = "none"
          /\ mpeRecv' = mpeCmd[1]
          /\ UNCHANGED <<toHost, mpeData>>
  /\ UNCHANGED <<hostVars, outstandingReq, toFPGA, respCmd, respData, outVars, inVars, fpgaVars>>

(* The receive of size zero is answered by the engine: rank and so on.     *)
MpeRank ==
  /\ mpeRecv = "RECV0"
  /\ respCmd' = respCmd \o <<"HEADER", "RANK">>
  /\ mpeRecv' = "none"
  /\ UNCHANGED <<hostVars, netVars, mpeCmd, mpeData, respData, outVars, inVars, fpgaVars>>

(* The others with the next message of the host: header, tag and data.     *)
MpeReceive ==
  /\ mpeRecv = "RECV" /\ toFPGA # << >>
  /\ respCmd' = respCmd \o <<"HEADER", Head(toFPGA).tag>>
  /\ respData' = Append(respData, Head(toFPGA).chunk)
  /\ toFPGA' = Tail(toFPGA)
  /\ mpeRecv' = "none"
  /\ UNCHANGED <<hostVars, outstandingReq, toHost, mpeCmd, mpeData, outVars, inVars, fpgaVars>>

Engine == Arrive \/ MpeCommand \/ MpeRank \/ MpeReceive

-----------------------------------------------------------------------------
(* The FPGA's device. *)

SyncDataIn ==
  /\ respData # << >> /\ Len(dataIn) < QueueDepth
  /\ dataIn' = Append(dataIn, Head(respData))
  /\ respData' = Tail(respData)
  /\ UNCHANGED <<hostVars, netVars, mpeCmd, mpeData, mpeRecv, respCmd, cmdIn, outVars, fpgaVars>>

SyncCmdIn ==
  /\ respCmd # << >> /\ Len(cmdIn) < QueueDepth
  /\ cmdIn' = Append(cmdIn, Head(respCmd))
  /\ respCmd' = Tail(respCmd)
  /\ UNCHANGED <<hostVars, netVars, mpeCmd, mpeData, mpeRecv, respData, dataIn, outVars, fpgaVars>>

(* A command word, with its data if it has some. *)
SyncCmdOut ==
  /\ cmdOut # << >>
  /\ cmdOut' = Tail(cmdOut)
  /\ mpeCmd' = Append(mpeCmd, Head(cmdOut).word)
  /\ IF Head(cmdOut).withData
     THEN /\ dataOut # << >>
          /\ dataOut' = Tail(dataOut)
          /\ mpeData' = Append(mpeData, Head(dataOut))
     ELSE UNCHANGED <<dataOut, mpeData>>
  /\ UNCHANGED <<hostVars, netVars, mpeRecv, respCmd, respData, inVars, fpgaVars>>

CmdEnq(word, withData) ==
  /\ Len(cmdOut) < QueueDepth
  /\ cmdOut' = Append(cmdOut, [word |-> word, withData |-> withData])

CmdDeq == cmdIn # << >> /\ cmdIn' = Tail(cmdIn)

-----------------------------------------------------------------------------
(* The FPGA's channel. *)

FpgaRest == UNCHANGED <<hostVars, netVars, mpeVars>>

(* Stages 0 and 1 of cmd_init request, 2 and 3 take the answer.            *)
CmdInitRequest ==
  /\ state = "init" /\ initStage \in {0, 1}
  /\ CmdEnq(IF initStage = 0 THEN "RECV0" ELSE "ANY", FALSE)
  /\ initStage' = initStage + 1
  /\ UNCHANGED <<dataOut, inVars, state, recvReqStage, recvRespStage, sendStage,
                 serverVars, readBuffer, writeBuffer, clientVars>>
  /\ FpgaRest

CmdInitResponse ==
  /\ state = "init" /\ initStage \in {2, 3}
  /\ CmdDeq
  /\ initStage' = initStage + 1
  /\ state' = IF initStage = 3 THEN "ready" ELSE "init"
  /\ UNCHANGED <<dataIn, outVars, recvReqStage, recvRespStage, sendStage,
                 serverVars, readBuffer, writeBuffer, clientVars>>
  /\ FpgaRest

(* A receive is requested; the command queue is locked between its words.  *)
CmdRecvReq ==
  /\ state = "ready" /\ recvServerState = "idle" /\ queueOwner # "send"
  /\ IF recvReqStage = 0
     THEN /\ CmdEnq("RECV", FALSE)
          /\ recvReqStage' = 1 /\ queueOwner' = "recv"
          /\ UNCHANGED recvServerState
     ELSE /\ CmdEnq("ANY", FALSE)
          /\ recvReqStage' = 0 /\ queueOwner' = "none"
          /\ recvServerState' = "busy"
  /\ UNCHANGED <<dataOut, inVars, state, initStage, recvRespStage, sendStage,
                 sendServerState, readBuffer, writeBuffer, clientVars>>
  /\ FpgaRest

CmdRecvRespHeader ==
  /\ state = "ready" /\ recvServerState = "busy" /\ recvRespStage = 0
  /\ CmdDeq
  /\ recvRespStage' = 1
  /\ UNCHANGED <<dataIn, outVars, state, initStage, recvReqStage, sendStage,
                 serverVars, readBuffer, writeBuffer, clientVars>>
  /\ FpgaRest

(* Bug: the payload of an acknowledgement is left in its queue. *)
CmdRecvRespTagAckOnly ==
  /\ state = "ready" /\ recvServerState = "busy" /\ recvRespStage = 1
  /\ CmdDeq
  /\ dataIn # << >>
  /\ IF Head(cmdIn) = "ACK"
     THEN sendServerState' = "idle" /\ UNCHANGED <<dataIn, readBuffer>>
     ELSE /\ Len(readBuffer) < QueueDepth
          /\ readBuffer' = Append(readBuffer, Head(dataIn))
          /\ dataIn' = Tail(dataIn)
          /\ UNCHANGED sendServerState
  /\ recvRespStage' = 0 /\ recvServerState' = "idle"
  /\ UNCHANGED <<outVars, state, initStage, recvReqStage, sendStage, queueOwner,
                 writeBuffer, clientVars>>
  /\ FpgaRest

(* The tag tells an acknowledgement, whose payload is dropped, from data.  *)
CmdRecvRespTag ==
  /\ state = "ready" /\ recvServerState = "busy" /\ recvRespStage = 1
  /\ CmdDeq
  /\ dataIn # << >> /\ dataIn' = Tail(dataIn)
  /\ IF Head(cmdIn) = "ACK"
     THEN sendServerState' = "idle" /\ UNCHANGED readBuffer
     ELSE /\ Len(readBuffer) < QueueDepth
          /\ readBuffer' = Append(readBuffer, Head(dataIn))
          /\ UNCHANGED sendServerState
  /\ recvRespStage' = 0 /\ recvServerState' = "idle"
  /\ UNCHANGED <<outVars, state, initStage, recvReqStage, sendStage, queueOwner,
                 writeBuffer, clientVars>>
  /\ FpgaRest

(* Bug: the queue is not locked. *)
CmdSendUnlocked ==
  /\ state = "ready" /\ sendServerState = "idle"
  /\ IF sendStage = 0
     THEN /\ writeBuffer # << >> /\ Len(dataOut) < QueueDepth
          /\ CmdEnq("SEND", TRUE)
          /\ dataOut' = Append(dataOut, Head(writeBuffer))
          /\ writeBuffer' = Tail(writeBuffer)
          /\ sendStage' = 1 /\ UNCHANGED sendServerState
     ELSE /\ CmdEnq("DATA", FALSE)
          /\ sendStage' = 0 /\ sendServerState' = "busy"
          /\ UNCHANGED <<dataOut, writeBuffer>>
  /\ UNCHANGED <<inVars, state, initStage, recvReqStage, recvRespStage, queueOwner,
                 recvServerState, readBuffer, clientVars>>
  /\ FpgaRest

(* Bug: the second word does not make the server busy. *)
CmdSendAgain ==
  /\ state = "ready" /\ sendServerState = "idle" /\ queueOwner # "recv"
  /\ IF sendStage = 0
     THEN /\ writeBuffer # << >> /\ Len(dataOut) < QueueDepth
          /\ CmdEnq("SEND", TRUE)
          /\ dataOut' = Append(dataOut, Head(writeBuffer))
          /\ writeBuffer' = Tail(writeBuffer)
          /\ sendStage' = 1 /\ queueOwner' = "send"
     ELSE /\ CmdEnq("DATA", FALSE)
          /\ sendStage' = 0 /\ queueOwner' = "none"
          /\ UNCHANGED <<dataOut, writeBuffer>>
  /\ UNCHANGED <<inVars, state, initStage, recvReqStage, recvRespStage, sendServerState,
                 recvServerState, readBuffer, clientVars>>
  /\ FpgaRest

(* A chunk is sent; the server is busy until it is acknowledged. *)
CmdSend ==
  /\ state = "ready" /\ sendServerState = "idle" /\ queueOwner # "recv"
  /\ IF sendStage = 0
     THEN /\ writeBuffer # << >> /\ Len(dataOut) < QueueDepth
          /\ CmdEnq("SEND", TRUE)
          /\ dataOut' = Append(dataOut, Head(writeBuffer))
          /\ writeBuffer' = Tail(writeBuffer)
          /\ sendStage' = 1 /\ queueOwner' = "send"
          /\ UNCHANGED sendServerState
     ELSE /\ CmdEnq("DATA", FALSE)
          /\ sendStage' = 0 /\ queueOwner' = "none"
          /\ sendServerState' = "busy"
          /\ UNCHANGED <<dataOut, writeBuffer>>
  /\ UNCHANGED <<inVars, state, initStage, recvReqStage, recvRespStage,
                 recvServerState, readBuffer, clientVars>>
  /\ FpgaRest

(* The methods read and write. *)
ClientRead ==
  /\ readBuffer # << >>
  /\ readBuffer' = Tail(readBuffer)
  /\ LET chunks == Append(partial, Head(readBuffer))
     IN  IF Len(chunks) > Payload(h2f, chunks)
         THEN h2fGot' = Append(h2fGot, chunks) /\ partial' = << >>
         ELSE partial' = chunks /\ UNCHANGED h2fGot
  /\ UNCHANGED <<f2h, f2hSent, inVars, outVars, stageVars, serverVars, writeBuffer>>
  /\ FpgaRest

ClientWrite ==
  /\ Len(writeBuffer) < QueueDepth
  /\ LET last == f2hSent[Len(f2hSent)]
         chunk == IF f2hSent = << >> THEN <<1, 0>>
                  ELSE IF last[2] < f2h[last[1]] THEN <<last[1], last[2] + 1>>
                  ELSE <<last[1] + 1, 0>>
     IN  /\ IF chunk[2] # 0 THEN UNCHANGED f2h
            ELSE /\ chunk[1] <= MaxF2H
                 /\ \E payload \in F2HPayloads : f2h' = Append(f2h, payload)
         /\ writeBuffer' = Append(writeBuffer, chunk)
         /\ f2hSent' = Append(f2hSent, chunk)
  /\ UNCHANGED <<partial, h2fGot, inVars, outVars, stageVars, serverVars, readBuffer>>
  /\ FpgaRest

Rules ==
  \/ SyncDataIn \/ SyncCmdIn \/ SyncCmdOut
  \/ CmdInitRequest \/ CmdInitResponse \/ CmdRecvReq
  \/ CmdRecvRespHeader \/ CmdRecvRespTag \/ CmdSend

Next ==
  \/ Write \/ Read \/ Host
  \/ Engine \/ Rules \/ ClientRead \/ ClientWrite

Spec == Init /\ [][Next]_vars

(***************************************************************************)
(* Fairness.  Rules that can fire do, network and engine move on, the host *)
(* finishes its calls and keeps calling TryRead, and the FPGA's client     *)
(* reads what comes and finishes the messages it starts.                   *)
(***************************************************************************)
Fairness ==
  /\ WF_vars(Host) /\ WF_vars(Arrive)
  /\ WF_vars(MpeCommand) /\ WF_vars(MpeRank \/ MpeReceive)
  /\ WF_vars(SyncDataIn) /\ WF_vars(SyncCmdIn) /\ WF_vars(SyncCmdOut)
  /\ WF_vars(CmdInitRequest \/ CmdInitResponse) /\ WF_vars(CmdRecvReq)
  /\ WF_vars(CmdRecvRespHeader \/ CmdRecvRespTag) /\ WF_vars(CmdSend)
  /\ WF_vars(ClientRead) /\ WF_vars(ClientWrite /\ f2h' = f2h)

FairSpec == Spec /\ Fairness

-----------------------------------------------------------------------------
(* Properties. *)

Operations == {"RECV0", "RECV", "SEND"}
Tags       == {"ANY", "DATA"}
Responses  == {"HEADER", "RANK", "DATA", "ACK"}
Chunks     == (0 .. MaxH2F + MaxF2H) \X Nat

(* Types of the variables, the queues with their capacities. *)
TypeOK ==
  /\ hpc \in {"idle", "write", "read", "ack", "copy"} /\ blocking \in BOOLEAN
  /\ outgoing \in Seq(Chunks) /\ incomingMessage \in Seq(Chunks)
  /\ outstandingReq \in Seq(Chunks) /\ Len(outstandingReq) <= 1
  /\ h2f \in Seq(H2FPayloads) /\ f2hGot \in Seq(Seq(Chunks))
  /\ toHost \in Seq(Chunks)
  /\ toFPGA \in Seq([tag : {"DATA", "ACK"}, chunk : Chunks]) /\ Len(toFPGA) <= NetDepth
  /\ mpeCmd \in Seq(Operations \cup Tags) /\ mpeData \in Seq(Chunks)
  /\ mpeRecv \in {"none", "RECV0", "RECV"}
  /\ respCmd \in Seq(Responses) /\ respData \in Seq(Chunks)
  /\ cmdOut \in Seq([word : Operations \cup Tags, withData : BOOLEAN])
  /\ dataOut \in Seq(Chunks) /\ cmdIn \in Seq(Responses) /\ dataIn \in Seq(Chunks)
  /\ {Len(cmdOut), Len(dataOut), Len(cmdIn), Len(dataIn), Len(readBuffer), Len(writeBuffer)}
       \subseteq 0 .. QueueDepth
  /\ state \in {"init", "ready"} /\ initStage \in 0 .. 4
  /\ {recvReqStage, recvRespStage, sendStage} \subseteq {0, 1}
  /\ {sendServerState, recvServerState} \subseteq {"idle", "busy"}
  /\ queueOwner \in {"none", "send", "recv"}
  /\ readBuffer \in Seq(Chunks) /\ writeBuffer \in Seq(Chunks)
  /\ partial \in Seq(Chunks) /\ h2fGot \in Seq(Seq(Chunks)) /\ f2h \in Seq(F2HPayloads) /\ f2hSent \in Seq(Chunks)

(* The words of commands between the rules and the engine. *)
CommandWords == mpeCmd \o [i \in DOMAIN cmdOut |-> cmdOut[i].word]

Count(q, x) == Cardinality({i \in DOMAIN q : q[i] = x})

(***************************************************************************)
(* The engine reads the command words in pairs: requests to receive and to *)
(* send are never interleaved, nobody but the holder of queueOwner is      *)
(* between two words, and every SEND finds its chunk at the same place.    *)
(***************************************************************************)
CommandsWhole ==
  /\ \A i \in DOMAIN CommandWords :
       IF i % 2 = 1 THEN CommandWords[i] \in Operations
       ELSE CommandWords[i] = IF CommandWords[i - 1] = "SEND" THEN "DATA" ELSE "ANY"
  /\ Len(CommandWords) % 2 = 1 <=> initStage = 1 \/ recvReqStage = 1 \/ sendStage = 1
  /\ queueOwner = "send" <=> sendStage = 1
  /\ queueOwner = "recv" <=> recvReqStage = 1
  /\ Count(mpeCmd, "SEND") = Len(mpeData)
  /\ Count(CommandWords, "SEND") = Len(mpeData) + Len(dataOut)

(***************************************************************************)
(* While the send server is busy, exactly one chunk or its acknowledgement *)
(* is somewhere on the round trip, and while the receive server is, exactly *)
(* one request or its answer: no acknowledgement is lost or counted twice, *)
(* and the host never meets a second chunk before it took the first.       *)
(***************************************************************************)
Handshake ==
  /\ Count(CommandWords, "SEND") + Len(toHost)
       + (IF hpc = "copy" THEN 0 ELSE Len(outstandingReq))
       + Cardinality({i \in DOMAIN toFPGA : toFPGA[i].tag = "ACK"})
       + Count(respCmd, "ACK") + Count(cmdIn, "ACK")
     = IF sendServerState = "busy" \/ sendStage = 1 THEN 1 ELSE 0
  /\ Count(CommandWords, "RECV") + (IF mpeRecv = "RECV" THEN 1 ELSE 0)
       + Count(respCmd, "DATA") + Count(respCmd, "ACK")
       + Count(cmdIn, "DATA") + Count(cmdIn, "ACK")
     = IF recvServerState = "busy" \/ recvReqStage = 1 THEN 1 ELSE 0

(* The messages there may be, and those of given sizes that were written.  *)
WholeMessages(max, payloads) == {MessageChunks(m, p) : m \in 1 .. max, p \in payloads}

Written(sizes) == [m \in DOMAIN sizes |-> MessageChunks(m, sizes[m])]

(***************************************************************************)
(* The FPGA's client reads the messages that the host wrote, each once,    *)
(* whole and in order, although acknowledgements travel between the chunks *)
(* and tags and chunks cross clocks in separate queues.                    *)
(***************************************************************************)
H2FStream == INSTANCE ReliableStream
               WITH Items <- WholeMessages(MaxH2F, H2FPayloads), sent <- Written(h2f), received <- h2fGot

H2FInOrder == H2FStream!Spec

(* The host's client gets the messages that the FPGA's client wrote, each  *)
(* once, whole and in order, over any mix of Read and TryRead.             *)
F2HStream == INSTANCE ReliableStream
               WITH Items <- WholeMessages(MaxF2H, F2HPayloads), sent <- Written(f2h), received <- f2hGot

F2HInOrder == F2HStream!Spec

(* Every message arrives, with traffic both ways, acknowledgements behind  *)
(* data in a network that may be full, and the host's only thread in Write *)
(* while chunks wait for it.                                               *)
MessagesArrive ==
  /\ \A m \in 1 .. MaxH2F : Len(h2f) >= m ~> Len(h2fGot) >= m
  /\ \A m \in 1 .. MaxF2H : Len(f2h) >= m ~> Len(f2hGot) >= m
=============================================================================
