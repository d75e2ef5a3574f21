---------------------------- MODULE EdgeReadRing ----------------------------
(***************************************************************************)
(* The host's ring of read windows.  The I/O thread lets the FPGA fill a   *)
(* window and hands it to the thread that reads messages by setting its    *)
(* nWords; that thread gives it back by clearing nWords.  The last window  *)
(* is not in the ring: it takes the replies of write-only transactions.    *)
(*                                                                         *)
(* BufferedWordsRemaining, which every read goes through, loads nWords in  *)
(* one step and acts on it in the next.  What it returns stays true while  *)
(* it is not zero, as the window is the reader's, so the copy that follows *)
(* is part of the same step.                                               *)
(***************************************************************************)
EXTENDS EdgeSizes, Sequences

CONSTANTS
  NumReadWindows,  (* NALLATECH_NUM_READ_WINDOWS                           *)
  IOCountLimit,    (* transactions between looks at the buffer's size: 500 *)
  Payloads,        (* payload sizes in chunks of ordinary messages         *)
  DMAPayloads,     (* payload sizes of messages to the pseudo-DMA service  *)
  MaxMessages,     (* messages the FPGA sends (model bound)                *)
  MaxFill          (* NODATA words in a packet (model bound)               *)

(* Init verifies that there are three windows at least.                    *)
ASSUME ReadRingAssumption ==
  /\ NumReadWindows \in Nat /\ NumReadWindows >= 3
  /\ IOCountLimit \in Nat /\ MaxMessages \in Nat /\ MaxFill \in Nat
  /\ Payloads \subseteq Nat /\ DMAPayloads \subseteq Nat

RingWindows == 0 .. NumReadWindows - 2

VARIABLES
  nWords,          (* readWindows[w].nWords                                *)
  nextReadWordIdx, (* readWindows[w].nextReadWordIdx                       *)
  data,            (* readWindows[w].data, up to the last useful word      *)
  curReadWindow,   (* the reader's window                                  *)
  rpc,             (* where the reader is in TryRead                       *)
  seen,            (* nWords as BufferedWordsRemaining loaded it, or -1    *)
  need,            (* n_chunks                                             *)
  got,             (* words of the message being read, its header first    *)
  rIdx,            (* r_idx in RawReadBufferedWords after a pseudo-DMA     *)
  received,        (* messages handed to the client, in order              *)
  iopc,            (* where the I/O thread is in its loop                  *)
  active,          (* active_read_window                                   *)
  useful,          (* n_words, from the end of the FPGA's packet           *)
  rawReadSize,     (* raw_read_buffer_size                                 *)
  rawReadMax,      (* raw_read_max_actual_size                             *)
  rawIOCnt,        (* raw_io_cnt                                           *)
  messages,        (* messages the FPGA client sent: payload and service   *)
  pending          (* words of theirs that are in no packet yet            *)

windowVars == <<nWords, nextReadWordIdx, data>>
readerVars == <<curReadWindow, rpc, seen, need, got, rIdx, received>>
sizeVars   == <<rawReadSize, rawReadMax, rawIOCnt>>
ioVars     == <<iopc, active, useful, sizeVars>>
fpgaVars   == <<messages, pending>>
vars       == <<windowVars, readerVars, ioVars, fpgaVars>>

(* A word is known by its message and its place in it; place 0 is the      *)
(* header.  NoData is the zero word the FPGA puts between messages.        *)
NoData == <<0, 0>>

WordsOf(m, chunks) == [i \in 1 .. chunks + 1 |-> <<m, i - 1>>]

MessageWords(m) == WordsOf(m, messages[m].chunks)

NextReadWindow(w) == IF w + 2 = NumReadWindows THEN 0 ELSE w + 1

Init ==
  /\ nWords = [w \in RingWindows |-> 0]
  /\ nextReadWordIdx = [w \in RingWindows |-> 0]
  /\ data = [w \in RingWindows |-> << >>]
  /\ curReadWindow = 0
  /\ rpc = "idle"
  /\ seen = -1
  /\ need = 0
  /\ got = << >>
  /\ rIdx = 0
  /\ received = << >>
  /\ iopc = "start"
  /\ active = 0
  /\ useful = 0
  /\ rawReadSize = MinMsgWords
  /\ rawReadMax = 0
  /\ rawIOCnt = 0
  /\ messages = << >>
  /\ pending = << >>

-----------------------------------------------------------------------------
(* The reader. *)

(* Points of TryRead that call BufferedWordsRemaining. *)
Calls == {"first", "again", "nextWord", "dma", "dmaEnd", "body", "bodyWord", "end"}

(* BufferedWordsRemaining loads nWords of the current window. *)
LoadNWords ==
  /\ rpc \in Calls
  /\ seen = -1
  /\ seen' = nWords[curReadWindow]
  /\ UNCHANGED <<curReadWindow, rpc, need, got, rIdx, received, windowVars, ioVars, fpgaVars>>

(* BufferedWordsRemaining at point p has loaded nWords. *)
At(p) == rpc = p /\ seen # -1 /\ seen' = -1

Idx == nextReadWordIdx[curReadWindow]

Remaining == IF Idx < seen THEN seen - Idx ELSE 0

(* Bug: the window is not given back. *)
ReleaseNothing ==
  /\ curReadWindow' = IF Remaining = 0 /\ seen # 0 THEN NextReadWindow(curReadWindow)
                      ELSE curReadWindow
  /\ UNCHANGED nWords

(* Bug: the reader stays on the emptied window. *)
ReleaseStay ==
  /\ nWords' = [nWords EXCEPT ![curReadWindow] = IF Remaining = 0 THEN 0 ELSE @]
  /\ UNCHANGED curReadWindow

(* Its side effect: an emptied window goes back to the I/O thread, and the *)
(* reader goes on to the next one.                                         *)
Release ==
  IF Remaining = 0 /\ seen # 0
  THEN /\ nWords' = [nWords EXCEPT ![curReadWindow] = IF @ = seen THEN 0 ELSE @]
       /\ curReadWindow' = NextReadWindow(curReadWindow)
  ELSE UNCHANGED <<nWords, curReadWindow>>

(* RawReadBufferedWords(n) of a window that has them. *)
Word(i) ==
  IF i \in DOMAIN data[curReadWindow] THEN data[curReadWindow][i] ELSE NoData

NextWords(n) == [i \in 1 .. n |-> Word(Idx + i)]

Advance(n) ==
  /\ nextReadWordIdx' = [nextReadWordIdx EXCEPT ![curReadWindow] = @ + n]
  /\ UNCHANGED <<nWords, data, curReadWindow>>

(* The rest of a message of n more chunks is read the ordinary way. *)
Ordinary(n) == rpc' = IF n = 0 THEN "end" ELSE "body"

(* The response of the first read: NODATA, or the header of a message.     *)
Respond(w) ==
  IF w = NoData
  THEN rpc' = "again" /\ UNCHANGED <<need, got>>
  ELSE LET m == messages[w[1]]
           n == IF w[2] = 0 THEN m.chunks ELSE 0
       IN  /\ need' = n
           /\ got' = <<w>>
           /\ IF m.dma THEN rpc' = "dma" ELSE Ordinary(n)

TryRead ==
  /\ rpc = "idle"
  /\ rpc' = "first"
  /\ UNCHANGED <<curReadWindow, seen, need, got, rIdx, received, windowVars, ioVars, fpgaVars>>

(* TryRawReadNextWord. *)
FirstWord ==
  /\ At("first")
  /\ \/ Remaining # 0 /\ Advance(1) /\ Respond(Word(Idx + 1))
     \/ /\ Remaining = 0 /\ Release
        /\ Respond(NoData)
        /\ UNCHANGED <<nextReadWordIdx, data>>
  /\ UNCHANGED <<rIdx, received, ioVars, fpgaVars>>

(* The test of the loop that skips NODATA words; without words TryRead     *)
(* returns NULL.                                                           *)
MoreWords ==
  /\ At("again")
  /\ rpc' = IF Remaining # 0 THEN "nextWord" ELSE "idle"
  /\ Release
  /\ UNCHANGED <<nextReadWordIdx, data, need, got, rIdx, received, ioVars, fpgaVars>>

(* RawReadNextWord in the body of that loop; it waits for a word.          *)
NextWord ==
  /\ At("nextWord")
  /\ \/ Remaining # 0 /\ Advance(1) /\ Respond(Word(Idx + 1))
     \/ /\ Remaining = 0 /\ Release
        /\ UNCHANGED <<rpc, need, got, nextReadWordIdx, data>>
  /\ UNCHANGED <<rIdx, received, ioVars, fpgaVars>>

(* Bug: the header is counted as remaining. *)
DMATestHeader ==
  /\ At("dma")
  /\ IF need <= Remaining + 1 THEN rpc' = "handler" ELSE Ordinary(need)
  /\ Release
  /\ UNCHANGED <<nextReadWordIdx, data, need, got, rIdx, received, ioVars, fpgaVars>>

(* A message to the pseudo-DMA service takes that path if all of it is in  *)
(* the buffer.                                                             *)
DMATest ==
  /\ At("dma")
  /\ IF need <= Remaining THEN rpc' = "handler" ELSE Ordinary(need)
  /\ Release
  /\ UNCHANGED <<nextReadWordIdx, data, need, got, rIdx, received, ioVars, fpgaVars>>

(* The handler works on the words in place, and RawReadBufferedWords loads *)
(* the index it is going to advance.                                       *)
DMAHandled ==
  /\ rpc = "handler"
  /\ got' = got \o NextWords(need)
  /\ rIdx' = Idx
  /\ rpc' = "advance"
  /\ UNCHANGED <<curReadWindow, seen, need, received, windowVars, ioVars, fpgaVars>>

DMARefused ==
  /\ rpc = "handler"
  /\ Ordinary(need)
  /\ UNCHANGED <<curReadWindow, seen, need, got, rIdx, received, windowVars, ioVars, fpgaVars>>

DMAAdvance ==
  /\ rpc = "advance"
  /\ nextReadWordIdx' = [nextReadWordIdx EXCEPT ![curReadWindow] = rIdx + need]
  /\ received' = Append(received, got)
  /\ need' = 0 /\ got' = << >> /\ rIdx' = 0          \* leave their scope
  /\ rpc' = "dmaEnd"
  /\ UNCHANGED <<nWords, data, curReadWindow, seen, ioVars, fpgaVars>>

(* On to the next packet instead of returning. *)
DMAEnd ==
  /\ At("dmaEnd")
  /\ Release
  /\ rpc' = "first"
  /\ UNCHANGED <<nextReadWordIdx, data, need, got, rIdx, received, ioVars, fpgaVars>>

(* Take n words of the message. *)
Take(n) ==
  /\ Advance(n)
  /\ got' = got \o NextWords(n)
  /\ need' = need - n
  /\ Ordinary(need - n)

(* Take what the window has, or go and wait for a word. *)
Body ==
  /\ At("body")
  /\ \/ Remaining # 0 /\ Take(IF need < Remaining THEN need ELSE Remaining)
     \/ /\ Remaining = 0 /\ Release
        /\ rpc' = "bodyWord"
        /\ UNCHANGED <<nextReadWordIdx, data, need, got>>
  /\ UNCHANGED <<rIdx, received, ioVars, fpgaVars>>

BodyWord ==
  /\ At("bodyWord")
  /\ \/ Remaining # 0 /\ Take(1)
     \/ /\ Remaining = 0 /\ Release
        /\ UNCHANGED <<rpc, need, got, nextReadWordIdx, data>>
  /\ UNCHANGED <<rIdx, received, ioVars, fpgaVars>>

(* The last call releases the window if the message was the end of it.     *)
TryReadEnd ==
  /\ At("end")
  /\ Release
  /\ received' = Append(received, got)
  /\ got' = << >>
  /\ rpc' = "idle"
  /\ UNCHANGED <<nextReadWordIdx, data, need, rIdx, ioVars, fpgaVars>>

Reader ==
  \/ LoadNWords \/ FirstWord \/ MoreWords \/ NextWord
  \/ DMATest \/ DMAHandled \/ DMARefused \/ DMAAdvance \/ DMAEnd
  \/ Body \/ BodyWord \/ TryReadEnd

-----------------------------------------------------------------------------
(* The I/O thread. *)

(* The end of the loop: every IOCountLimit transactions, shrink a buffer   *)
(* that was not needed.                                                    *)
EndOfLoop(size, max, cnt) ==
  IF cnt > IOCountLimit
  THEN /\ rawReadSize' = IF size - max > size \div 16 THEN LegalBufSize(max) ELSE size
       /\ rawReadMax' = 0
       /\ rawIOCnt' = 0
  ELSE /\ rawReadSize' = size
       /\ rawReadMax' = max
       /\ rawIOCnt' = cnt

(* The read window is busy: just write to the FPGA, if there is anything.  *)
IOBusy ==
  /\ iopc = "start"
  /\ nWords[active] # 0
  /\ \E transactions \in {0, 1} :
       EndOfLoop(rawReadSize, rawReadMax, rawIOCnt + transactions)
  /\ UNCHANGED <<iopc, active, useful, windowVars, readerVars, fpgaVars>>

IOFree ==
  /\ iopc = "start"
  /\ nWords[active] = 0
  /\ iopc' = "transact"
  /\ UNCHANGED <<active, useful, sizeVars, windowVars, readerVars, fpgaVars>>

(* Packets of these words: the FPGA puts NODATA between two messages while *)
(* it has nothing to send; a packet ends with a useful word.               *)
WithNoData(words, at, n) ==
  SubSeq(words, 1, at - 1) \o [i \in 1 .. n |-> NoData] \o SubSeq(words, at, Len(words))

Headers(words) == {i \in 1 .. Len(words) : words[i][2] = 0}

Packets(words) ==
  {words} \cup {WithNoData(words, at, n) : at \in Headers(words), n \in 1 .. MaxFill}

(* The FPGA fills all of the window but its last word, which counts the    *)
(* useful ones.                                                            *)
IOTransact ==
  /\ iopc = "transact"
  /\ \E n \in 1 .. Len(pending) : \E packet \in Packets(SubSeq(pending, 1, n)) :
       /\ Len(packet) < rawReadSize
       /\ data' = [data EXCEPT ![active] = packet]
       /\ useful' = Len(packet)
       /\ pending' = SubSeq(pending, n + 1, Len(pending))
  /\ iopc' = "index"
  /\ UNCHANGED <<nWords, nextReadWordIdx, active, messages, sizeVars, readerVars>>

(* It has nothing to send. *)
IOTransactEmpty ==
  /\ iopc = "transact"
  /\ data' = [data EXCEPT ![active] = << >>]
  /\ EndOfLoop(rawReadSize, rawReadMax, rawIOCnt)
  /\ iopc' = "start"
  /\ UNCHANGED <<nWords, nextReadWordIdx, active, useful, readerVars, fpgaVars>>

(* Bug: the index is not reset. *)
IOIndexKept ==
  /\ iopc = "index"
  /\ iopc' = "handOff"
  /\ UNCHANGED <<windowVars, active, useful, sizeVars, readerVars, fpgaVars>>

(* Hand the window to the reader: first the index ... *)
IOIndex ==
  /\ iopc = "index"
  /\ nextReadWordIdx' = [nextReadWordIdx EXCEPT ![active] = 0]
  /\ iopc' = "handOff"
  /\ UNCHANGED <<nWords, data, active, useful, sizeVars, readerVars, fpgaVars>>

(* ... then the number of words.  A full buffer grows. *)
IOHandOff ==
  /\ iopc = "handOff"
  /\ nWords' = [nWords EXCEPT ![active] = IF @ = 0 THEN useful ELSE @]
  /\ active' = NextReadWindow(active)
  /\ LET grown == IF useful >= rawReadSize - 1
                  THEN LegalBufSize(rawReadSize + 2 * MinMsgWords)
                  ELSE rawReadSize
         max == IF rawReadMax > useful + 1 THEN rawReadMax ELSE useful + 1
     IN  EndOfLoop(grown, max, rawIOCnt + 1)
  /\ useful' = 0
  /\ iopc' = "start"
  /\ UNCHANGED <<nextReadWordIdx, data, readerVars, fpgaVars>>

IOThread ==
  \/ IOBusy \/ IOFree \/ IOTransact \/ IOTransactEmpty \/ IOIndex \/ IOHandOff

-----------------------------------------------------------------------------
Messages == [chunks : Payloads, dma : {FALSE}] \cup [chunks : DMAPayloads, dma : {TRUE}]

(* The FPGA side's client sends a message. *)
FPGASend ==
  /\ Len(messages) < MaxMessages
  /\ \E m \in Messages :
       /\ messages' = Append(messages, m)
       /\ pending' = pending \o WordsOf(Len(messages) + 1, m.chunks)
  /\ UNCHANGED <<windowVars, readerVars, ioVars>>

Next == TryRead \/ Reader \/ IOThread \/ FPGASend

Spec == Init /\ [][Next]_vars

(***************************************************************************)
(* Fairness.  Both threads run; the client keeps calling TryRead, as Read  *)
(* does; the FPGA puts words that are pending into a packet sooner or      *)
(* later.                                                                  *)
(***************************************************************************)
Fairness ==
  /\ WF_vars(Reader)
  /\ WF_vars(TryRead)
  /\ WF_vars(IOThread)
  /\ SF_vars(IOTransact)

FairSpec == Spec /\ Fairness

-----------------------------------------------------------------------------
(* Properties. *)

(* The reader works on words of its window. *)
InUse == rpc \in {"handler", "advance"} \/ seen > 0

(***************************************************************************)
(* While the I/O thread has a window (the FPGA fills it, its index is      *)
(* reset) the reader neither has words of it nor is about to write its     *)
(* index; BufferedWordsRemaining's rule that nobody uses a pointer into    *)
(* the buffer when it releases a window.                                   *)
(***************************************************************************)
WindowOwnership ==
  iopc # "start" => nWords[active] = 0 /\ (InUse => curReadWindow # active)

Sent == [m \in 1 .. Len(messages) |-> MessageWords(m)]

WholeMessages == {WordsOf(m, c) : m \in 1 .. MaxMessages, c \in Payloads \cup DMAPayloads}

(* The client gets the messages the FPGA sent, each once, whole and in     *)
(* order, over packets that split messages, words of no data between them, *)
(* windows of changing size and both ways to read a message.               *)
Stream == INSTANCE ReliableStream
            WITH Items <- WholeMessages, sent <- Sent, received <- received

MessagesInOrder == Stream!Spec

(* Every message the FPGA sends gets to the client. *)
MessagesArrive ==
  \A m \in 1 .. MaxMessages : Len(messages) >= m ~> Len(received) >= m

(* TryRead, which is documented as non-blocking, returns. *)
TryReadReturns == rpc # "idle" ~> rpc = "idle"
=============================================================================
