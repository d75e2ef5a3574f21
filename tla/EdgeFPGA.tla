------------------------------ MODULE EdgeFPGA ------------------------------
(***************************************************************************)
(* The FPGA side of the Nallatech edge channel, and the part of the host's *)
(* I/O thread it converses with: the command word, the buffer with its     *)
(* check bits, the reply with its ACK or NACK, the resend after an error.  *)
(*                                                                         *)
(* Every rule is an action, and rules fire in any order, which is what     *)
(* Bluespec says of them; a compiled schedule is one of those orders.  A   *)
(* rule waits only for the queues of the branch it takes, as with          *)
(* -aggressive-conditions.  There is one write window: EdgeWriteRing has   *)
(* the ring.  The link moves raw chunks in order and may corrupt one; it   *)
(* never corrupts the first (acceptRequest relies on that), and the        *)
(* checksum notices.                                                       *)
(***************************************************************************)
EXTENDS EdgeSizes, Sequences

CONSTANTS
  H2FPayloads,     (* payload sizes of messages the host writes            *)
  F2HPayloads,     (* payload sizes of messages the FPGA's client writes   *)
  ReadSizes,       (* values of raw_read_buffer_size                       *)
  StaleSums,       (* may stale chunks have good check bits? bad ones?     *)
  SpinCycles,      (* NALLATECH_HW_TO_SW_SPIN_CYCLES                       *)
  MaxH2F,          (* messages the host writes (model bound)               *)
  MaxF2H,          (* messages the FPGA's client writes (model bound)      *)
  MaxErrors        (* chunks the link corrupts (model bound)               *)

ASSUME LinkAssumption ==
  /\ FixErrors
  /\ H2FPayloads \subseteq 0 .. MaxWriteWords - 3
  /\ F2HPayloads \subseteq Nat
  /\ ReadSizes \subseteq {LegalBufSize(n) : n \in 1 .. MaxMsgWords}
  /\ StaleSums \subseteq BOOLEAN /\ SpinCycles \in Nat
  /\ MaxH2F \in Nat /\ MaxF2H \in Nat /\ MaxErrors \in Nat

VARIABLES
  (* Host. *)
  h2f,             (* payload sizes of the messages written, in order      *)
  acked,           (* how many of them the host counts as delivered        *)
  buf,             (* sharedBuf of the window without the check bits       *)
  sums,            (* which chunks of sharedBuf have good check bits       *)
  cmd,             (* the command in the buffer's first word               *)
  resend,          (* h2f_resend                                           *)
  hpc,             (* prepare a transaction, or wait for it                *)
  f2hGot,          (* words handed to the thread that reads messages       *)
  (* Link and marshaller. *)
  sentChunks,      (* chunks of the buffer on their way to the FPGA        *)
  errors,          (* chunks corrupted so far                              *)
  corrupt,         (* those of the transaction                             *)
  inQ,             (* the chunk in the marshaller's inQ, if any            *)
  idx,             (* the marshaller's idx                                 *)
  outQ,            (* its outQ                                             *)
  error,           (* its error register                                   *)
  (* Read side of the FPGA. *)
  readState, rawReadChunksRemaining, readDataChunksRemaining,
  noMoreReadData, h2fErrRecovery, readBuffer,
  partial,         (* words the client read of an unfinished message       *)
  h2fGot,          (* messages the client has read                         *)
  (* Write side of the FPGA. *)
  writeState, rawWriteChunksRemaining, writeDataChunksRemaining,
  numUsefulWriteChunks, numWrittenChunks, spinCycles, writeDataQ,
  f2h,             (* payload sizes of the messages written, in order      *)
  f2hSent,         (* words the client wrote                               *)
  reply            (* words of the reply so far                            *)

hostVars   == <<h2f, acked, buf, sums, cmd, resend, hpc, f2hGot>>
linkVars   == <<sentChunks, errors, corrupt>>
marshVars  == <<inQ, idx, outQ, error>>
readVars   == <<readState, rawReadChunksRemaining, readDataChunksRemaining,
                noMoreReadData, h2fErrRecovery, readBuffer>>
clientVars == <<partial, h2fGot>>
writeVars  == <<writeState, rawWriteChunksRemaining, writeDataChunksRemaining,
                numUsefulWriteChunks, numWrittenChunks, spinCycles, reply>>
f2hVars    == <<writeDataQ, f2h, f2hSent>>
vars       == <<hostVars, linkVars, marshVars, readVars, clientVars, writeVars, f2hVars>>

(* A word is known by its message and its place in it: 0 for the header,   *)
(* the only words with phyChannelPvt set.                                  *)
Zero    == <<0, 0>>      \* no message
Command == <<0, 1>>
Garbage == <<0, 2>>      \* what the link makes of a word it corrupts
Stale   == <<MaxH2F + 1, 0>>  \* a header left over from an earlier use

MessageWords(m, chunks) == [i \in 1 .. chunks + 1 |-> <<m, i - 1>>]

(* The words of the host's messages behind the first n. *)
WordsBehind(n) ==
  LET words[i \in 0 .. Len(h2f) - n] ==
        IF i = 0 THEN << >> ELSE words[i - 1] \o MessageWords(n + i, h2f[n + i])
  IN  words[Len(h2f) - n]

(* The messages in the window: those not acknowledged. *)
WindowWords == WordsBehind(acked)

NoRecovery == [readState |-> "NONE"]

Init ==
  /\ h2f = << >> /\ acked = 0 /\ buf = << >> /\ sums = << >>
  /\ cmd = [h2f |-> 0, f2h |-> 0, permitted |-> FALSE, spin |-> 0]
  /\ resend = FALSE /\ hpc = "prepare" /\ f2hGot = << >>
  /\ sentChunks = 0 /\ errors = 0 /\ corrupt = {}
  /\ inQ = << >> /\ idx = 0 /\ outQ = << >> /\ error = FALSE
  /\ readState = "READY" /\ rawReadChunksRemaining = 0
  /\ readDataChunksRemaining = 0 /\ noMoreReadData = FALSE
  /\ h2fErrRecovery = NoRecovery /\ readBuffer = << >>
  /\ partial = << >> /\ h2fGot = << >>
  /\ writeState = "READY" /\ rawWriteChunksRemaining = 0
  /\ writeDataChunksRemaining = 0 /\ numUsefulWriteChunks = 0
  /\ numWrittenChunks = 0 /\ spinCycles = 0 /\ writeDataQ = << >>
  /\ f2h = << >> /\ f2hSent = << >> /\ reply = << >>

-----------------------------------------------------------------------------
(* The host. *)

NWords == 1 + Len(WindowWords)

(* Write copies a message into the window, if it fits. *)
HostWrite ==
  /\ hpc = "prepare" /\ ~ resend
  /\ Len(h2f) < MaxH2F
  /\ \E chunks \in H2FPayloads :
       /\ NWords + chunks + 1 < MaxWriteWords
       /\ h2f' = Append(h2f, chunks)
  /\ UNCHANGED <<acked, buf, sums, cmd, resend, hpc, f2hGot, linkVars,
                 marshVars, readVars, clientVars, writeVars, f2hVars>>

(* A fresh buffer: the command, the messages, the end mark, padding to the *)
(* end of the raw chunk, and whatever the rest of the window held.         *)
Filled(raw) ==
  LET used == DataWords(PreparedSize(NWords + 1))
      words == <<Command>> \o WindowWords \o <<Zero>>
  IN  [i \in 1 .. DataWords(raw) |->
         IF i <= Len(words) THEN words[i] ELSE IF i <= used THEN Zero ELSE Stale]

(* A transaction: with a free read window, or only to write.               *)
HostPrepare ==
  /\ hpc = "prepare"
  /\ \E permitted \in BOOLEAN, size \in ReadSizes \cup {MinMsgWords} :
       /\ ~ permitted => NWords > 1 /\ size = MinMsgWords
       /\ LET words == IF resend THEN (Len(buf) * RawChunkWords) \div DataPerChunk
                       ELSE PreparedSize(NWords + 1)
              raw == LegalBufSize(words)
          IN  /\ cmd' = [h2f |-> DataWords(raw) - 1, f2h |-> size - 1,
                         permitted |-> permitted,
                         spin |-> IF permitted /\ words <= 1 THEN SpinCycles ELSE 0]
              /\ IF resend
                 THEN /\ buf' = [buf EXCEPT ![1] = Command]
                      /\ sums' = [sums EXCEPT ![1] = TRUE]
                 ELSE /\ buf' = Filled(raw)
                      /\ \E stale \in StaleSums :
                           sums' = [c \in 1 .. raw \div RawChunkWords |->
                                      c * RawChunkWords <= words \/ stale]
  /\ sentChunks' = 0 /\ corrupt' = {} /\ reply' = << >>
  /\ hpc' = "wait"
  /\ UNCHANGED <<h2f, acked, resend, f2hGot, errors, marshVars, readVars, clientVars,
                 writeState, rawWriteChunksRemaining, writeDataChunksRemaining,
                 numUsefulWriteChunks, numWrittenChunks, spinCycles, f2hVars>>

(* ClearSentWords zeroes the data words before the errant one and mends    *)
(* the check bits of the chunks it touches.                                *)
ClearSentWords(unsent) ==
  LET clear == Len(buf) - unsent
  IN  /\ buf' = [i \in DOMAIN buf |-> IF i <= clear THEN Zero ELSE buf[i]]
      /\ sums' = [c \in DOMAIN sums |-> (c - 1) * DataPerChunk < clear \/ sums[c]]

Replied == hpc = "wait" /\ Len(reply) = cmd.f2h + 1

(* The words of messages among the first n of a reply. *)
UsefulWords(words, n) ==
  LET useful[i \in 0 .. n] ==
        IF i = 0 THEN << >>
        ELSE IF words[i] = Zero THEN useful[i - 1] ELSE Append(useful[i - 1], words[i])
  IN  useful[n]

(* The reply is there: hand over what came in, then look at the ACK.       *)
HostReceive ==
  /\ Replied
  /\ LET last == reply[Len(reply)]
     IN  /\ f2hGot' = IF cmd.permitted THEN f2hGot \o UsefulWords(reply, last[1]) ELSE f2hGot
         /\ IF last[2] = 0
            THEN /\ acked' = Len(h2f)
                 /\ buf' = << >> /\ sums' = << >>
                 /\ resend' = FALSE
            ELSE /\ ClearSentWords(last[2])
                 /\ resend' = TRUE
                 /\ UNCHANGED acked
  /\ hpc' = "prepare"
  /\ UNCHANGED <<h2f, cmd, linkVars, marshVars, readVars, clientVars, writeVars, f2hVars>>

-----------------------------------------------------------------------------
(* The link and the error detecting marshaller. *)

ChunkWords(c) == SubSeq(buf, (c - 1) * DataPerChunk + 1, c * DataPerChunk)

(* marshallFromDevice: the next raw chunk, intact or corrupted. *)
LinkChunk ==
  /\ hpc = "wait" /\ sentChunks < Len(sums) /\ inQ = << >>
  /\ sentChunks' = sentChunks + 1
  /\ inQ' = <<[words |-> ChunkWords(sentChunks + 1), good |-> sums[sentChunks + 1]]>>
  /\ UNCHANGED <<errors, corrupt, idx, outQ, error, hostVars, readVars,
                 clientVars, writeVars, f2hVars>>

LinkError ==
  /\ hpc = "wait" /\ sentChunks < Len(sums) /\ inQ = << >>
  /\ sentChunks > 0 /\ errors < MaxErrors
  /\ sentChunks' = sentChunks + 1
  /\ errors' = errors + 1
  /\ corrupt' = corrupt \cup {sentChunks + 1}
  /\ inQ' = <<[words |-> [i \in 1 .. DataPerChunk |-> Garbage], good |-> FALSE]>>
  /\ UNCHANGED <<idx, outQ, error, hostVars, readVars, clientVars, writeVars, f2hVars>>

(* marshallData: one data word; its chunk's checksum goes into the sticky  *)
(* error register at the same time.                                        *)
MarshallData ==
  /\ inQ # << >> /\ Len(outQ) < 2
  /\ error' = (error \/ ~ inQ[1].good)
  /\ outQ' = Append(outQ, inQ[1].words[idx + 1])
  /\ IF idx = DataPerChunk - 1
     THEN inQ' = << >> /\ idx' = 0
     ELSE idx' = idx + 1 /\ UNCHANGED inQ
  /\ UNCHANGED <<hostVars, linkVars, readVars, clientVars, writeVars, f2hVars>>

(* dataFromHost.first() and deq(). *)
Word == Head(outQ)

Deq ==
  /\ outQ # << >>
  /\ outQ' = Tail(outQ)
  /\ UNCHANGED <<inQ, idx, error>>

-----------------------------------------------------------------------------
(* Accepting a request starts both sides. *)
AcceptRequest ==
  /\ readState = "READY" /\ writeState = "READY"
  /\ Deq
  /\ rawReadChunksRemaining' = cmd.h2f
  /\ rawWriteChunksRemaining' = cmd.f2h
  /\ spinCycles' = cmd.spin
  /\ readState' = IF h2fErrRecovery = NoRecovery THEN "START" ELSE "RECOVER"
  /\ writeState' = IF cmd.permitted THEN "TRY" ELSE "DUMMY"
  /\ UNCHANGED <<readDataChunksRemaining, noMoreReadData, h2fErrRecovery, readBuffer,
                 writeDataChunksRemaining, numUsefulWriteChunks, numWrittenChunks,
                 reply, hostVars, linkVars, clientVars, f2hVars>>

-----------------------------------------------------------------------------
(* Host to FPGA. *)

(* What the rules of this side leave alone. *)
ReadRule == UNCHANGED <<hostVars, linkVars, clientVars, writeVars, f2hVars>>

(* A word of the buffer is taken. *)
TakeWord ==
  /\ Deq
  /\ rawReadChunksRemaining' = rawReadChunksRemaining - 1

(* Bug: a full queue takes another word. *)
EnqReadBufferFull(w) == readBuffer' = Append(readBuffer, w)

EnqReadBuffer(w) == Len(readBuffer) < 2 /\ readBuffer' = Append(readBuffer, w)

(* Bug: the errant word counts as taken. *)
RecoveryNext(state) ==
  [readState |-> state, dataChunksRemaining |-> readDataChunksRemaining,
   rawChunksRemaining |-> rawReadChunksRemaining - 1]

Recovery(state) ==
  [readState |-> state, dataChunksRemaining |-> readDataChunksRemaining,
   rawChunksRemaining |-> rawReadChunksRemaining]

NumChunks(header) == IF header[1] \in DOMAIN h2f THEN h2f[header[1]] ELSE 1

(* The last word of the buffer is no header. *)
H2FStartLast ==
  /\ readState = "START" /\ rawReadChunksRemaining = 1
  /\ TakeWord
  /\ readState' = "DONE"
  /\ noMoreReadData' = FALSE
  /\ UNCHANGED <<readDataChunksRemaining, h2fErrRecovery, readBuffer>> /\ ReadRule

(* Words behind the end mark are ignored. *)
H2FStartIgnore ==
  /\ readState = "START" /\ rawReadChunksRemaining # 1
  /\ noMoreReadData
  /\ TakeWord
  /\ UNCHANGED <<readState, readDataChunksRemaining, noMoreReadData, h2fErrRecovery, readBuffer>>
  /\ ReadRule

(* Bug: the error is not recorded. *)
H2FStartErrorLost ==
  /\ readState = "START" /\ rawReadChunksRemaining # 1
  /\ ~ noMoreReadData
  /\ error
  /\ TakeWord
  /\ readState' = "ERROR"
  /\ UNCHANGED <<readDataChunksRemaining, noMoreReadData, h2fErrRecovery, readBuffer>>
  /\ ReadRule

H2FStartError ==
  /\ readState = "START" /\ rawReadChunksRemaining # 1
  /\ ~ noMoreReadData
  /\ error
  /\ TakeWord
  /\ readState' = "ERROR"
  /\ h2fErrRecovery' = Recovery("START")
  /\ UNCHANGED <<readDataChunksRemaining, noMoreReadData, readBuffer>> /\ ReadRule

H2FStartMessage ==
  /\ readState = "START" /\ rawReadChunksRemaining # 1
  /\ ~ noMoreReadData
  /\ ~ error
  /\ TakeWord
  /\ IF Word # Zero
     THEN /\ EnqReadBuffer(Word)
          /\ readDataChunksRemaining' = NumChunks(Word)
          /\ readState' = IF NumChunks(Word) # 0 THEN "CONT" ELSE "START"
          /\ UNCHANGED noMoreReadData
     ELSE /\ noMoreReadData' = TRUE
          /\ UNCHANGED <<readState, readDataChunksRemaining, readBuffer>>
  /\ UNCHANGED h2fErrRecovery /\ ReadRule

H2FContRead ==
  /\ readState = "CONT"
  /\ TakeWord
  /\ IF ~ error
     THEN /\ EnqReadBuffer(Word)
          /\ readState' = IF rawReadChunksRemaining = 1 THEN "DONE"
                          ELSE IF readDataChunksRemaining = 1 THEN "START" ELSE "CONT"
          /\ UNCHANGED h2fErrRecovery
     ELSE /\ readState' = IF rawReadChunksRemaining = 1 THEN "DONE" ELSE "ERROR"
          /\ h2fErrRecovery' = Recovery("CONT")
          /\ UNCHANGED readBuffer
  /\ readDataChunksRemaining' = readDataChunksRemaining - 1
  /\ UNCHANGED noMoreReadData /\ ReadRule

(* Bug: one word too many. *)
ConsumeErrantReadDataPast ==
  /\ readState = "ERROR"
  /\ TakeWord
  /\ readState' = IF rawReadChunksRemaining = 0 THEN "DONE" ELSE "ERROR"
  /\ UNCHANGED <<readDataChunksRemaining, noMoreReadData, h2fErrRecovery, readBuffer>>
  /\ ReadRule

ConsumeErrantReadData ==
  /\ readState = "ERROR"
  /\ TakeWord
  /\ readState' = IF rawReadChunksRemaining = 1 THEN "DONE" ELSE "ERROR"
  /\ UNCHANGED <<readDataChunksRemaining, noMoreReadData, h2fErrRecovery, readBuffer>>
  /\ ReadRule

(* Skip what was taken before the error, then go on from there.            *)
RecoverSkip ==
  /\ readState = "RECOVER"
  /\ h2fErrRecovery.rawChunksRemaining # rawReadChunksRemaining
  /\ TakeWord
  /\ UNCHANGED <<readState, readDataChunksRemaining, noMoreReadData, h2fErrRecovery, readBuffer>>
  /\ ReadRule

(* Bug: the message's count is not restored. *)
RecoverResumeCount ==
  /\ readState = "RECOVER"
  /\ h2fErrRecovery.rawChunksRemaining = rawReadChunksRemaining
  /\ readState' = h2fErrRecovery.readState
  /\ h2fErrRecovery' = NoRecovery
  /\ UNCHANGED <<rawReadChunksRemaining, readDataChunksRemaining, noMoreReadData,
                 readBuffer, marshVars>>
  /\ ReadRule

RecoverResume ==
  /\ readState = "RECOVER"
  /\ h2fErrRecovery.rawChunksRemaining = rawReadChunksRemaining
  /\ readState' = h2fErrRecovery.readState
  /\ readDataChunksRemaining' = h2fErrRecovery.dataChunksRemaining
  /\ h2fErrRecovery' = NoRecovery
  /\ UNCHANGED <<rawReadChunksRemaining, noMoreReadData, readBuffer, marshVars>>
  /\ ReadRule

(* The method read: the client takes a word.                               *)
ClientRead ==
  /\ readBuffer # << >>
  /\ readBuffer' = Tail(readBuffer)
  /\ LET words == Append(partial, Head(readBuffer))
     IN  IF Len(words) > NumChunks(words[1])
         THEN h2fGot' = Append(h2fGot, words) /\ partial' = << >>
         ELSE partial' = words /\ UNCHANGED h2fGot
  /\ UNCHANGED <<readState, rawReadChunksRemaining, readDataChunksRemaining,
                 noMoreReadData, h2fErrRecovery, hostVars, linkVars, marshVars,
                 writeVars, f2hVars>>

-----------------------------------------------------------------------------
(* FPGA to host. *)

WriteRule == UNCHANGED <<hostVars, linkVars, marshVars, readVars, clientVars, f2h, f2hSent>>

(* dataToHost.enq(w), which takes the place of a chunk in the reply. *)
Emit(w) ==
  /\ reply' = Append(reply, w)
  /\ rawWriteChunksRemaining' = rawWriteChunksRemaining - 1

(* The state after a chunk, given the one for when there is room for more. *)
Room(state) == writeState' = IF rawWriteChunksRemaining = 1 THEN "LAST" ELSE state

DeqWriteData == writeDataQ # << >> /\ writeDataQ' = Tail(writeDataQ)

F2HTryWrite ==
  /\ writeState = "TRY"
  /\ writeState' = IF writeDataChunksRemaining # 0 THEN "CONT"
                   ELSE IF writeDataQ # << >> THEN "START"
                   ELSE IF spinCycles = 0 THEN "CONT" ELSE "TRY"
  /\ numWrittenChunks' = 0
  /\ numUsefulWriteChunks' = 0
  /\ spinCycles' = (spinCycles - 1) % 2 ^ 24
  /\ UNCHANGED <<rawWriteChunksRemaining, writeDataChunksRemaining, reply, writeDataQ>>
  /\ WriteRule

F2HStartWrite ==
  /\ writeState = "START"
  /\ DeqWriteData
  /\ Emit(Head(writeDataQ))
  /\ writeDataChunksRemaining' = f2h[Head(writeDataQ)[1]]
  /\ Room("CONT")
  /\ numUsefulWriteChunks' = numWrittenChunks + 1
  /\ numWrittenChunks' = numWrittenChunks + 1
  /\ UNCHANGED spinCycles /\ WriteRule

(* A new message is ready. *)
F2HContStart ==
  /\ writeState = "CONT"
  /\ writeDataChunksRemaining = 0 /\ writeDataQ # << >>
  /\ writeState' = "START"
  /\ UNCHANGED <<rawWriteChunksRemaining, writeDataChunksRemaining, numUsefulWriteChunks,
                 numWrittenChunks, spinCycles, reply, writeDataQ>>
  /\ WriteRule

(* Bug: the word does not count as useful. *)
F2HContWriteUseless ==
  /\ writeState = "CONT"
  /\ writeDataChunksRemaining # 0
  /\ DeqWriteData
  /\ Emit(Head(writeDataQ))
  /\ writeDataChunksRemaining' = writeDataChunksRemaining - 1
  /\ Room("CONT")
  /\ numWrittenChunks' = numWrittenChunks + 1
  /\ UNCHANGED <<numUsefulWriteChunks, spinCycles>> /\ WriteRule

F2HContWrite ==
  /\ writeState = "CONT"
  /\ writeDataChunksRemaining # 0
  /\ DeqWriteData
  /\ Emit(Head(writeDataQ))
  /\ writeDataChunksRemaining' = writeDataChunksRemaining - 1
  /\ Room("CONT")
  /\ numUsefulWriteChunks' = numWrittenChunks + 1
  /\ numWrittenChunks' = numWrittenChunks + 1
  /\ UNCHANGED spinCycles /\ WriteRule

(* Nothing to send: fill the reply. *)
F2HContFill ==
  /\ writeState = "CONT"
  /\ writeDataChunksRemaining = 0 /\ writeDataQ = << >>
  /\ Emit(Zero)
  /\ Room("CONT")
  /\ numWrittenChunks' = numWrittenChunks + 1
  /\ UNCHANGED <<writeDataChunksRemaining, numUsefulWriteChunks, spinCycles, writeDataQ>>
  /\ WriteRule

(* Bug: the count of the last reply stays. *)
H2FWriteDummyCount ==
  /\ writeState = "DUMMY"
  /\ Emit(Zero)
  /\ Room("DUMMY")
  /\ UNCHANGED <<numUsefulWriteChunks, writeDataChunksRemaining, numWrittenChunks,
                 spinCycles, writeDataQ>>
  /\ WriteRule

H2FWriteDummy ==
  /\ writeState = "DUMMY"
  /\ Emit(Zero)
  /\ Room("DUMMY")
  /\ numUsefulWriteChunks' = 0
  /\ UNCHANGED <<writeDataChunksRemaining, numWrittenChunks, spinCycles, writeDataQ>>
  /\ WriteRule

(* Bug: the error register is not reset. *)
F2HCompleteWriteSticky ==
  /\ writeState = "LAST" /\ readState = "DONE"
  /\ reply' = Append(reply, <<numUsefulWriteChunks,
                              IF h2fErrRecovery = NoRecovery THEN 0
                              ELSE h2fErrRecovery.rawChunksRemaining>>)
  /\ writeState' = "READY"
  /\ readState' = "READY"
  /\ UNCHANGED <<rawReadChunksRemaining, readDataChunksRemaining, noMoreReadData,
                 h2fErrRecovery, readBuffer, rawWriteChunksRemaining,
                 writeDataChunksRemaining, numUsefulWriteChunks, numWrittenChunks,
                 spinCycles, marshVars, hostVars, linkVars, clientVars, f2hVars>>

(* Both sides are done: the last chunk says what was useful, and how much  *)
(* of the host's buffer was not read because of an error.                  *)
F2HCompleteWrite ==
  /\ writeState = "LAST" /\ readState = "DONE"
  /\ reply' = Append(reply, <<numUsefulWriteChunks,
                              IF h2fErrRecovery = NoRecovery THEN 0
                              ELSE h2fErrRecovery.rawChunksRemaining>>)
  /\ error' = FALSE
  /\ writeState' = "READY"
  /\ readState' = "READY"
  /\ UNCHANGED <<rawReadChunksRemaining, readDataChunksRemaining, noMoreReadData,
                 h2fErrRecovery, readBuffer, rawWriteChunksRemaining,
                 writeDataChunksRemaining, numUsefulWriteChunks, numWrittenChunks,
                 spinCycles, inQ, idx, outQ, hostVars, linkVars, clientVars, f2hVars>>

(* The method write: the client sends a header or the next payload chunk.  *)
ClientWrite ==
  /\ Len(writeDataQ) < 2
  /\ LET last == f2hSent[Len(f2hSent)]
         word == IF f2hSent = << >> THEN <<1, 0>>
                 ELSE IF last[2] < f2h[last[1]] THEN <<last[1], last[2] + 1>>
                 ELSE <<last[1] + 1, 0>>
     IN  /\ IF word[2] # 0 THEN UNCHANGED f2h
            ELSE /\ word[1] <= MaxF2H
                 /\ \E chunks \in F2HPayloads : f2h' = Append(f2h, chunks)
         /\ writeDataQ' = Append(writeDataQ, word)
         /\ f2hSent' = Append(f2hSent, word)
  /\ UNCHANGED <<hostVars, linkVars, marshVars, readVars, clientVars, writeVars>>

-----------------------------------------------------------------------------
Host == HostPrepare \/ HostReceive

ReadSide ==
  \/ H2FStartLast \/ H2FStartIgnore \/ H2FStartError \/ H2FStartMessage
  \/ H2FContRead \/ ConsumeErrantReadData \/ RecoverSkip \/ RecoverResume

WriteSide ==
  \/ F2HTryWrite \/ F2HStartWrite \/ F2HContStart \/ F2HContWrite
  \/ F2HContFill \/ H2FWriteDummy

Rules == MarshallData \/ AcceptRequest \/ F2HCompleteWrite

Next ==
  \/ HostWrite \/ Host \/ LinkChunk \/ LinkError
  \/ Rules \/ ReadSide \/ WriteSide \/ ClientRead \/ ClientWrite

Spec == Init /\ [][Next]_vars

(***************************************************************************)
(* Fairness.  The I/O thread and the link work, rules that can fire do     *)
(* (both sides are driven by the clock), and the client reads what comes   *)
(* and finishes the messages it starts.                                    *)
(***************************************************************************)
Fairness ==
  /\ WF_vars(Host) /\ WF_vars(LinkChunk \/ LinkError) /\ WF_vars(Rules)
  /\ WF_vars(ReadSide) /\ WF_vars(WriteSide) /\ WF_vars(ClientRead)
  /\ WF_vars(ClientWrite /\ f2h' = f2h)

FairSpec == Spec /\ Fairness

-----------------------------------------------------------------------------
(* Properties. *)

ReadStates  == {"READY", "START", "CONT", "DONE", "ERROR", "RECOVER"}
WriteStates == {"READY", "TRY", "START", "CONT", "DUMMY", "LAST"}

(* Types of the variables, the queues with their capacities.               *)
TypeOK ==
  /\ h2f \in Seq(Nat) /\ acked \in 0 .. Len(h2f)
  /\ buf \in Seq(Nat \X Nat) /\ sums \in Seq(BOOLEAN)
  /\ cmd \in [h2f : 0 .. MaxMsgWords, f2h : 0 .. MaxMsgWords,
              permitted : BOOLEAN, spin : Nat]
  /\ resend \in BOOLEAN /\ hpc \in {"prepare", "wait"} /\ f2hGot \in Seq(Nat \X Nat)
  /\ sentChunks \in Nat /\ errors \in Nat
  /\ corrupt \subseteq 2 .. MaxMsgWords
  /\ Len(inQ) <= 1 /\ idx \in 0 .. DataPerChunk - 1
  /\ outQ \in Seq(Nat \X Nat) /\ Len(outQ) <= 2 /\ error \in BOOLEAN
  /\ readState \in ReadStates /\ rawReadChunksRemaining \in 0 .. MaxMsgWords
  /\ readDataChunksRemaining \in 0 .. MaxMsgWords /\ noMoreReadData \in BOOLEAN
  /\ h2fErrRecovery = NoRecovery \/ h2fErrRecovery.readState \in {"START", "CONT"}
  /\ readBuffer \in Seq(Nat \X Nat) /\ Len(readBuffer) <= 2
  /\ partial \in Seq(Nat \X Nat) /\ h2fGot \in Seq(Seq(Nat \X Nat))
  /\ writeState \in WriteStates /\ rawWriteChunksRemaining \in 0 .. MaxMsgWords
  /\ writeDataChunksRemaining \in Nat /\ numUsefulWriteChunks \in 0 .. MaxMsgWords
  /\ numWrittenChunks \in 0 .. MaxMsgWords /\ spinCycles \in Nat
  /\ writeDataQ \in Seq(Nat \X Nat) /\ Len(writeDataQ) <= 2
  /\ f2h \in Seq(Nat) /\ f2hSent \in Seq(Nat \X Nat) /\ reply \in Seq(Nat \X Nat)

(***************************************************************************)
(* The FPGA's client gets the messages the host wrote, each once, whole    *)
(* and in order, over corrupted chunks, resends that skip what was taken   *)
(* before, and stale words in the buffer.                                  *)
(***************************************************************************)
Messages == {MessageWords(m, c) : m \in 1 .. MaxH2F, c \in H2FPayloads}
Written  == [m \in 1 .. Len(h2f) |-> MessageWords(m, h2f[m])]

H2FStream == INSTANCE ReliableStream WITH Items <- Messages, sent <- Written, received <- h2fGot

H2FInOrder == H2FStream!Spec

(* The host gets the words the FPGA's client wrote, each once and in       *)
(* order, over messages split between replies, fill words and dummy        *)
(* replies.                                                                *)
F2HStream == INSTANCE ReliableStream
               WITH Items <- {<<m, k>> : m \in 1 .. MaxF2H,
                                         k \in UNION {0 .. c : c \in F2HPayloads}},
                    sent <- f2hSent,
                    received <- f2hGot

F2HInOrder == F2HStream!Spec

(***************************************************************************)
(* An ACK means that the FPGA took every message of the buffer: the host   *)
(* empties the window on it.                                               *)
(***************************************************************************)
AckMeansTaken ==
  Replied /\ reply[Len(reply)][2] = 0 =>
    LET words == partial \o readBuffer
        whole == [m \in 1 .. Len(h2fGot) |-> MessageWords(m, h2f[m])]
    IN  h2fGot = whole /\ words = WordsBehind(Len(h2fGot))

(* A message in progress ends before the buffer does, and recovery starts  *)
(* from a place that the counter still has to pass.                        *)
CountersMeet ==
  /\ readState = "CONT" => readDataChunksRemaining \in 1 .. rawReadChunksRemaining - 1
  /\ readState = "RECOVER" =>
       h2fErrRecovery.rawChunksRemaining \in 1 .. rawReadChunksRemaining

(* A reply has the size the host asked for; its count fits (VERIFYX), ends *)
(* at a word of a message, and nothing but fill words lies behind it.  A   *)
(* NACK counts words that the buffer has, so ClearSentWords stays in it.   *)
ReplyIsWellFormed ==
  /\ hpc = "wait" => Len(reply) <= cmd.f2h + 1
  /\ Replied =>
       LET n == reply[Len(reply)][1]
       IN  /\ n <= cmd.f2h
           /\ ~ cmd.permitted => n = 0
           /\ n > 0 => reply[n] # Zero
           /\ \A i \in n + 1 .. cmd.f2h : reply[i] = Zero
           /\ reply[Len(reply)][2] < Len(buf)

(* Every transaction ends. *)
TransactionEnds == hpc = "wait" ~> hpc = "prepare"

(* Every message the host writes gets to the FPGA's client.                *)
H2FArrives == \A m \in 1 .. MaxH2F : Len(h2f) >= m ~> Len(h2fGot) >= m
=============================================================================
