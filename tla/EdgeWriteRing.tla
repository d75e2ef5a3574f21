--------------------------- MODULE EdgeWriteRing ---------------------------
(***************************************************************************)
(* The host's ring of write windows.  The thread that writes messages      *)
(* (Write, WriteRaw) and the I/O thread share the windows and take turns   *)
(* on them with a lock word: 0 is free, 1 is the I/O thread's, 2 is the    *)
(* writer's.  Each atomic access to a lock word is a step of its own.  The *)
(* blocking transaction with the FPGA is one step that succeeds or reports *)
(* a transmission error; module EdgeFPGA opens it.                         *)
(*                                                                         *)
(* curWriteWindow has no lock of its own: the callers of Write run one at  *)
(* a time, which this module takes for granted.                            *)
(***************************************************************************)
EXTENDS EdgeSizes, Sequences

CONSTANTS
  NumWriteWindows, (* NALLATECH_NUM_WRITE_WINDOWS                          *)
  MsgChunks,       (* sizes of messages written: header and payload chunks *)
  MaxWrites        (* number of messages the client writes (model bound)   *)

(* Init verifies that there are two windows at least; the sizes are those  *)
(* WriteLock's sanity check lets through.                                  *)
ASSUME RingAssumption ==
  /\ NumWriteWindows \in Nat /\ NumWriteWindows >= 2
  /\ MsgChunks \subseteq 1 .. MaxMsgWords
  /\ MaxWrites \in Nat

Windows == 0 .. NumWriteWindows - 1

VARIABLES
  lock,            (* writeWindows[w].lock                                 *)
  nWords,          (* writeWindows[w].nWords                               *)
  data,            (* the messages below nWords in window w, as numbers    *)
  curWriteWindow,  (* the writer's window                                  *)
  wpc,             (* where the writer is in Write                         *)
  firstPass,       (* WriteLock's first_pass                               *)
  msgChunks,       (* size of the message being written                    *)
  written,         (* number of messages copied into windows so far        *)
  iopc,            (* where the I/O thread is in its loop                  *)
  active,          (* active_write_window                                  *)
  wWords,          (* w_words, the I/O thread's copy of nWords             *)
  resend,          (* h2f_resend                                           *)
  nack,            (* did the last transaction report an error?            *)
  delivered        (* messages the FPGA has taken, in order                *)

ringVars   == <<lock, nWords, data>>
writerVars == <<curWriteWindow, wpc, firstPass, msgChunks, written>>
ioVars     == <<iopc, active, wWords, resend, nack, delivered>>
vars       == <<ringVars, writerVars, ioVars>>

NextWriteWindow(w) == IF w + 1 = NumWriteWindows THEN 0 ELSE w + 1

(* CompareAndExchange on a lock word, with the outcome ignored. *)
CompareAndExchange(w, old, new) ==
  lock' = IF lock[w] = old THEN [lock EXCEPT ![w] = new] ELSE lock

Init ==
  /\ lock = [w \in Windows |-> IF w = 0 THEN 1 ELSE 0]
  /\ nWords = [w \in Windows |-> 1]      \* room for the command word
  /\ data = [w \in Windows |-> << >>]
  /\ curWriteWindow = 0
  /\ wpc = "idle"
  /\ firstPass = TRUE
  /\ msgChunks = 0
  /\ written = 0
  /\ iopc = "prepare"
  /\ active = 0
  /\ wWords = 0
  /\ resend = FALSE
  /\ nack = FALSE
  /\ delivered = << >>

-----------------------------------------------------------------------------
(* The writer. *)

(* Write is called; WriteLock computes the size and starts its loop. *)
WriteCall ==
  /\ wpc = "idle"
  /\ written < MaxWrites
  /\ msgChunks' \in MsgChunks
  /\ firstPass' = TRUE
  /\ wpc' = "lock"
  /\ UNCHANGED <<curWriteWindow, written, ringVars, ioVars>>

(* Bug: a window the I/O thread has is taken, too. *)
WriteLockTakenAny ==
  /\ wpc = "lock"
  /\ lock[curWriteWindow] # 2
  /\ lock' = [lock EXCEPT ![curWriteWindow] = 2]
  /\ wpc' = "fit"
  /\ UNCHANGED <<nWords, data, curWriteWindow, firstPass, msgChunks, written, ioVars>>

(* The compare-and-exchange of WriteLock gets the window. *)
WriteLockTaken ==
  /\ wpc = "lock"
  /\ lock[curWriteWindow] = 0
  /\ lock' = [lock EXCEPT ![curWriteWindow] = 2]
  /\ wpc' = "fit"
  /\ UNCHANGED <<nWords, data, curWriteWindow, firstPass, msgChunks, written, ioVars>>

(* Bug: every pass skips a locked window. *)
WriteLockSkipAlways ==
  /\ wpc = "lock"
  /\ lock[curWriteWindow] # 0
  /\ curWriteWindow' = NextWriteWindow(curWriteWindow)
  /\ firstPass' = FALSE
  /\ UNCHANGED <<wpc, msgChunks, written, ringVars, ioVars>>

(* It fails.  Only the first pass moves on to the next window; later       *)
(* passes spin on the same one, which changes nothing.                     *)
WriteLockSkip ==
  /\ wpc = "lock"
  /\ lock[curWriteWindow] # 0
  /\ firstPass
  /\ curWriteWindow' = NextWriteWindow(curWriteWindow)
  /\ firstPass' = FALSE
  /\ UNCHANGED <<wpc, msgChunks, written, ringVars, ioVars>>

Fits == nWords[curWriteWindow] + msgChunks < MaxWriteWords

WriteFits ==
  /\ wpc = "fit"
  /\ Fits
  /\ wpc' = "copy"
  /\ UNCHANGED <<curWriteWindow, firstPass, msgChunks, written, ringVars, ioVars>>

(* Bug: still the first pass after a full window. *)
WriteFullFirst ==
  /\ wpc = "fit"
  /\ ~ Fits
  /\ CompareAndExchange(curWriteWindow, 2, 0)
  /\ curWriteWindow' = NextWriteWindow(curWriteWindow)
  /\ wpc' = "lock"
  /\ UNCHANGED <<nWords, data, firstPass, msgChunks, written, ioVars>>

(* Bug: the full window stays locked. *)
WriteFullLocked ==
  /\ wpc = "fit"
  /\ ~ Fits
  /\ curWriteWindow' = NextWriteWindow(curWriteWindow)
  /\ firstPass' = FALSE
  /\ wpc' = "lock"
  /\ UNCHANGED <<lock, nWords, data, msgChunks, written, ioVars>>

(* No space: give the window up and go on to the next one. *)
WriteFull ==
  /\ wpc = "fit"
  /\ ~ Fits
  /\ CompareAndExchange(curWriteWindow, 2, 0)
  /\ curWriteWindow' = NextWriteWindow(curWriteWindow)
  /\ firstPass' = FALSE
  /\ wpc' = "lock"
  /\ UNCHANGED <<nWords, data, msgChunks, written, ioVars>>

(* Header and payload go behind the words already there; nWords follows. *)
WriteCopy ==
  /\ wpc = "copy"
  /\ data' = [data EXCEPT ![curWriteWindow] = Append(@, written + 1)]
  /\ nWords' = [nWords EXCEPT ![curWriteWindow] = @ + msgChunks]
  /\ written' = written + 1
  /\ wpc' = "unlock"
  /\ UNCHANGED <<lock, curWriteWindow, firstPass, msgChunks, ioVars>>

WriteUnlock ==
  /\ wpc = "unlock"
  /\ CompareAndExchange(curWriteWindow, 2, 0)
  /\ wpc' = "idle"
  /\ UNCHANGED <<nWords, data, curWriteWindow, firstPass, msgChunks, written, ioVars>>

Writer ==
  \/ WriteCall \/ WriteLockTaken \/ WriteLockSkip \/ WriteFits
  \/ WriteFull \/ WriteCopy \/ WriteUnlock

-----------------------------------------------------------------------------
(* The I/O thread. *)

(* A new buffer gets its end mark, if there is room for it. *)
MarkedWords(n) == IF n < MaxWriteWords THEN n + 1 ELSE n

(* Bug: the messages start where the raw buffer does. *)
DataOffsetNone == 0

(* Where data starts in its window: the messages lie in the shared window  *)
(* itself, further up when check bits will be added.                       *)
DataOffset == IF FixErrors THEN MaxMsgWords \div RawChunkWords ELSE 0

(* InsertCheckBits copies a buffer down to the start of its window with a  *)
(* checksum behind every DataPerChunk words: when k words are copied, the  *)
(* window's word it reads next and the one it writes next.                 *)
CopySrc(k) == DataOffset + k
CopyDst(k) == k + k \div DataPerChunk

(* The buffer as it goes out: a new one gets its check bits; one to resend *)
(* is sent as it is.                                                       *)
OutgoingWords(n) ==
  IF resend THEN n ELSE PreparedSize(MarkedWords(n))

(* Prepare the window.  With a busy read window and nothing to write there *)
(* is no transaction, and the loop goes on as after a good one.            *)
IOPrepare ==
  /\ iopc = "prepare"
  /\ wWords' = OutgoingWords(nWords[active])
  /\ \/ iopc' = "transact"
     \/ nWords[active] <= 1 /\ iopc' = "ack"
  /\ nack' = FALSE
  /\ UNCHANGED <<active, resend, delivered, ringVars, writerVars>>

(* The FPGA took every message of the buffer. *)
IOTransact ==
  /\ iopc = "transact"
  /\ delivered' = delivered \o data[active]
  /\ iopc' = "ack"
  /\ UNCHANGED <<active, wWords, resend, nack, ringVars, writerVars>>

(* The FPGA saw a bad chunk and asks for the buffer again. *)
IOTransactError ==
  /\ iopc = "transact"
  /\ FixErrors
  /\ nWords[active] > 1
  /\ nack' = TRUE
  /\ iopc' = "ack"
  /\ UNCHANGED <<active, wWords, resend, delivered, ringVars, writerVars>>

(* Written successfully: the window is empty again. *)
IOAck ==
  /\ iopc = "ack"
  /\ ~ nack
  /\ nWords' = [nWords EXCEPT ![active] = 1]
  /\ data' = [data EXCEPT ![active] = << >>]
  /\ resend' = FALSE
  /\ iopc' = "swap"
  /\ UNCHANGED <<lock, active, wWords, nack, delivered, writerVars>>

(* Not written: keep the window and resend all of the raw buffer. *)
IONack ==
  /\ iopc = "ack"
  /\ nack
  /\ nWords' = [nWords EXCEPT ![active] = LegalBufSize(wWords)]
  /\ resend' = TRUE
  /\ iopc' = "prepare"
  /\ UNCHANGED <<lock, data, active, wWords, nack, delivered, writerVars>>

(* Bug: it tries the window it has. *)
IOSwapSame ==
  /\ iopc = "swap"
  /\ CompareAndExchange(active, 0, 1)
  /\ iopc' = IF lock[active] = 0 THEN "release" ELSE "prepare"
  /\ UNCHANGED <<nWords, data, active, wWords, resend, nack, delivered, writerVars>>

(* Try to own two windows in a row; stick with the old one otherwise. *)
IOSwap ==
  /\ iopc = "swap"
  /\ CompareAndExchange(NextWriteWindow(active), 0, 1)
  /\ iopc' = IF lock[NextWriteWindow(active)] = 0 THEN "release" ELSE "prepare"
  /\ UNCHANGED <<nWords, data, active, wWords, resend, nack, delivered, writerVars>>

(* Bug: the old window stays locked. *)
IOReleaseLocked ==
  /\ iopc = "release"
  /\ active' = NextWriteWindow(active)
  /\ iopc' = "prepare"
  /\ UNCHANGED <<lock, nWords, data, wWords, resend, nack, delivered, writerVars>>

IORelease ==
  /\ iopc = "release"
  /\ CompareAndExchange(active, 1, 0)
  /\ active' = NextWriteWindow(active)
  /\ iopc' = "prepare"
  /\ UNCHANGED <<nWords, data, wWords, resend, nack, delivered, writerVars>>

IOThread ==
  \/ IOPrepare \/ IOTransact \/ IOTransactError
  \/ IOAck \/ IONack \/ IOSwap \/ IORelease

-----------------------------------------------------------------------------
Next == Writer \/ IOThread

Spec == Init /\ [][Next]_vars

(***************************************************************************)
(* Fairness.  Both threads run.  The transaction that keeps being tried    *)
(* succeeds in the end (errors are transient).  The writer's spin reads    *)
(* the lock word far more often than the I/O thread, which blocks in a     *)
(* transaction per turn, changes it: a window that keeps becoming free is  *)
(* taken in the end.                                                       *)
(***************************************************************************)
Fairness ==
  /\ WF_vars(IOThread)
  /\ SF_vars(IOTransact)
  /\ WF_vars(WriteLockSkip \/ WriteFits \/ WriteFull \/ WriteCopy \/ WriteUnlock)
  /\ SF_vars(WriteLockTaken)

FairSpec == Spec /\ Fairness

-----------------------------------------------------------------------------
(* Properties. *)

WriterPC == {"idle", "lock", "fit", "copy", "unlock"}
IOPC     == {"prepare", "transact", "ack", "swap", "release"}

(* The writer is between taking a window's lock and releasing it. *)
WriterInside == wpc \in {"fit", "copy", "unlock"}

(* Types of the variables: the fields of the windows and both threads'     *)
(* locals.                                                                 *)
TypeOK ==
  /\ lock \in [Windows -> {0, 1, 2}]
  /\ nWords \in [Windows -> Nat]
  /\ data \in [Windows -> Seq(Nat)]
  /\ curWriteWindow \in Windows
  /\ wpc \in WriterPC
  /\ firstPass \in BOOLEAN
  /\ msgChunks \in 0 .. MaxMsgWords
  /\ written \in Nat
  /\ iopc \in IOPC
  /\ active \in Windows
  /\ wWords \in Nat
  /\ resend \in BOOLEAN
  /\ nack \in BOOLEAN
  /\ delivered \in Seq(Nat)

(***************************************************************************)
(* The lock words say who uses which window, at every instant: the I/O     *)
(* thread has its active window (and the next one while it swaps), the     *)
(* writer has the window it is copying into, and nothing else is locked.   *)
(* So every unlocking CompareAndExchange succeeds, although the code       *)
(* ignores its result, and no message is copied into a window on its way   *)
(* to the FPGA.                                                            *)
(***************************************************************************)
Ownership ==
  \A w \in Windows :
    /\ lock[w] = 1 <=> \/ w = active
                       \/ iopc = "release" /\ w = NextWriteWindow(active)
    /\ lock[w] = 2 <=> WriterInside /\ w = curWriteWindow

(***************************************************************************)
(* A window filled by messages always has room left for the end mark the   *)
(* I/O thread adds, so the FPGA never parses stale words behind the last   *)
(* message; and VERIFYX(index <= NALLATECH_MAX_MSG_WORDS) never fails.     *)
(***************************************************************************)
EndMarkFits ==
  \A w \in Windows :
    \/ nWords[w] < MaxWriteWords
    \/ w = active /\ resend

(***************************************************************************)
(* Whatever messages fill a window, InsertCheckBits reads each of their    *)
(* words before it overwrites it, although every checksum brings its       *)
(* writes a word closer to its reads; and both the messages and the        *)
(* buffer it makes of them stay within the window.                         *)
(***************************************************************************)
CheckBitsFit ==
  FixErrors =>
    \A w \in Windows :
      \/ w = active /\ resend
      \/ LET n == MarkedWords(nWords[w])
         IN  /\ \A k \in 0 .. n - 1 : CopyDst(k) <= CopySrc(k)
             /\ CopySrc(n) <= MaxMsgWords
             /\ CheckedSize(n) <= MaxMsgWords

(* The window the FPGA is reading does not change under the transaction.   *)
BufferStable ==
  [][iopc = "transact" =>
       /\ data'[active] = data[active]
       /\ nWords'[active] = nWords[active]]_vars

(* The FPGA takes the messages once each and in the order Write was        *)
(* called: WriteLock's claim that the locking order preserves the order of *)
(* writes, over resends and windows skipped because they are locked or     *)
(* full.                                                                   *)
Stream == INSTANCE ReliableStream
            WITH Items <- 1 .. MaxWrites,
                 sent <- [i \in 1 .. written |-> i],
                 received <- delivered

InOrderDelivery == Stream!Spec

(* A message that has been copied but not delivered is in some window. *)
NothingLost ==
  \A i \in Len(delivered) + 1 .. written :
    \E w \in Windows : \E k \in DOMAIN data[w] : data[w][k] = i

(* Every call of Write returns: the spin for a window ends. *)
WriteReturns == wpc # "idle" ~> wpc = "idle"

(* Every message written reaches the FPGA. *)
WrittenIsDelivered ==
  \A i \in 1 .. MaxWrites : written >= i ~> Len(delivered) >= i

-----------------------------------------------------------------------------
(***************************************************************************)
(* The inductive invariant behind the order of delivery.  Windows are      *)
(* ordered by their distance from the head of the ring, the window the     *)
(* I/O thread sends next.                                                  *)
(***************************************************************************)
RingHead == IF iopc = "release" THEN NextWriteWindow(active) ELSE active

DistanceFrom(h, w) == IF w >= h THEN w - h ELSE w + NumWriteWindows - h

Distance(w) == DistanceFrom(RingHead, w)

(* The messages of a window that still have to be delivered. *)
Waiting(w) ==
  IF w = active /\ iopc = "ack" /\ ~ nack THEN << >> ELSE data[w]

(* The writer found every window behind the head full and waits for the    *)
(* head itself.                                                            *)
Wrapped ==
  wpc = "lock" /\ firstPass = FALSE /\ curWriteWindow = RingHead

(* nWords says whether a window holds messages; the writer's tests hold    *)
(* until it acts on them; the I/O thread leaves an empty window behind,    *)
(* and a transaction starts with no error on record.                       *)
WindowInv ==
  /\ \A w \in Windows : nWords[w] >= 1 /\ (nWords[w] = 1 => data[w] = << >>)
  /\ wpc # "idle" => msgChunks >= 1
  /\ wpc \in {"lock", "fit", "copy"} => written < MaxWrites
  /\ wpc = "copy" => Fits
  /\ iopc \in {"swap", "release"} => nWords[active] = 1
  /\ iopc = "transact" => ~ nack

(* Exactly the messages behind the last delivered one wait.                *)
CoverageInv ==
  /\ Len(delivered) <= written
  /\ \A i \in 1 .. Len(delivered) : delivered[i] = i
  /\ \A w \in Windows : \A k \in 1 .. Len(Waiting(w)) :
       Waiting(w)[k] \in Len(delivered) + 1 .. written
  /\ \A i \in Len(delivered) + 1 .. written :
       \E w \in Windows : \E k \in 1 .. Len(Waiting(w)) : Waiting(w)[k] = i

(* They are in order within a window and along the ring.                   *)
OrderInv ==
  /\ \A w \in Windows : \A k \in 1 .. Len(Waiting(w)) :
       Waiting(w)[k] = Waiting(w)[1] + k - 1
  /\ \A u, v \in Windows :
       Distance(u) < Distance(v) =>
         \A j \in 1 .. Len(Waiting(u)), k \in 1 .. Len(Waiting(v)) :
           Waiting(u)[j] < Waiting(v)[k]

(* The writer's window is the last one that holds any, unless it is about  *)
(* to start another turn.                                                  *)
TailInv ==
  \/ Wrapped
  \/ \A w \in Windows :
       Waiting(w) # << >> => Distance(w) <= Distance(curWriteWindow)

(***************************************************************************)
(* The inductive invariant of the ring: who owns which window, what a      *)
(* window holds, and that the undelivered messages lie in the ring in the  *)
(* order they were written, from the head to the writer's window.          *)
(***************************************************************************)
RingInv ==
  /\ TypeOK /\ Ownership /\ EndMarkFits /\ WindowInv
  /\ CoverageInv /\ OrderInv /\ TailInv
=============================================================================
