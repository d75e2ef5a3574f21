# A verification project for leap-platforms-acp

`leap-platforms-acp` is the support code that lets the LEAP operating system for
FPGAs run on the ACP platform: a Nallatech FPGA module in a processor socket,
connected to the host by the front-side bus. This directory holds TLA+ models
of its communication layer, the TLC runs that check them, and proofs checked by
TLAPS. Paths below are short for the files under
`src/modules/bluespec/common/fpgaenv/`: *channel.cpp* and *channel.bsv* are
`virtual-platform/channelio/physical-channel/nallatech-edge/nallatech-edge-channel.{cpp,bsv}`,
*marshaller.bsv* is `npc-marshaller.bsv` beside them, *device.h* and *device.cpp*
are `physical-platform/physical-devices/nallatech-edge/nallatech-edge-device.{h,cpp}`,
and *debugger.cpp* and *null.cpp* are `nallatech-edge-device-{debugger,null}.cpp`
beside them.

## The system

    client (RRR services)                          client (RRR services)
        | Write      ^ TryRead                         | read     ^ write
    +---v------------|---------------+             +---v----------|---------+
    | write windows  read windows    |             | readBuffer  writeDataQ |
    | (lock word)    (nWords)        |             |  h2f rules   f2h rules |
    |        I/O thread              |             |                        |
    +------------|-------------------+             +-----------|------------+
                 | DoAALTransaction  (raw chunks both ways)    |
                 +---- vendor's library, driver, bus, FIFOs ---+

| component | state | operations | hard because |
|---|---|---|---|
| edge channel, host (*channel.cpp*) | 3 write windows (`lock`, `nWords`, data), 4 read windows (`nWords`, `nextReadWordIdx`, data), the I/O thread's locals | `Write`, `TryRead`/`Read`, the I/O thread's loop | two threads (three with pseudo-DMA) share windows with compare-and-exchange only; resends |
| edge channel, FPGA (*channel.bsv*) | read and write state machines, counters, error recovery record, three small queues | a rule per state, methods `read` and `write` | rules interleave; both directions are coupled by one transaction; recovery after a resend |
| marshaller, demarshaller | one raw chunk, index, error register | split and join raw chunks | the error register looks ahead of the word in use |
| edge device, host; one file for one FPGA (*device.cpp*), two for a pair (*debugger.cpp*, *null.cpp*) | socket, AFU handle, workspace, `didCleanup` | `Init`, `Uninit`, `Cleanup`, the destructor, `DoAALTransaction`, `LegalBufSize` | every step of `Init` may fail; several ways out lead to `Cleanup`, some while the I/O thread runs; sizes must be legal for the bus |
| edge device, FPGA | clock-crossing FIFOs, register port | FIFO methods, register rules | clock domains |
| intra-FPGA channel | as the edge channel | as the edge channel | - |
| intra-FPGA device | `initialized`, FIFOs on both sides of a link | `doInit`, the drivers' methods | two FPGAs start at different times and nothing tells one of the other |
| ACP driver (*acpdriver.c*: `src/drivers/nallatech/linux/acpdriver.c`) | table of pinned buffers, stacks of free and used entries; record of the delay lines | `open`, `ioctl` (allocate, free, associate, set delays), `mmap`, `release`, load, unload | processes share it, no lock; the delay lines cannot be read back |
| Arches MPI channel and device | state of the send and receive commands, the message being put together, one posted receive | rules per command phase, `TryRead`, `Read`, `Write` | requests of two servers share one command queue; acknowledgements travel between data; one host thread both sends and takes |
| DDR2 SRAM device | initialisation phase, requests, reads in flight, burst buffers | `readReq`, `readRsp`, `writeReq`, `writeData` | credits, pairing of data with addresses, two clocks |
| debuggers, stand-ins, wiring | test state | - | not part of the program's logic |

How the edge channel works. `Write` copies a message behind the ones in the
writer's window, which it locks with 2. The I/O thread holds the lock 1 of the
window it sends; it ends the window with a zero word (the end mark), adds a
checksum to every raw chunk and does one blocking transaction in which the FPGA
reads that window and fills a read window. The FPGA counts the words of both
directions down; the last word of its reply holds the number of useful words
and, after a checksum error, the number of words it did not take. On such a
NACK the I/O thread sends the same buffer again and the FPGA skips what it has.
The thread that reads gets a filled window when `nWords` becomes non-zero and
gives it back by clearing it.

What makes each part correct: the client of either end sees the messages of
the other end once each, whole and in order (`ReliableStream`); a window is
used by one thread at a time; every buffer is closed by its end mark; a reply
has the size, count and acknowledgement that the host relies on; every call and
every transaction ends. The SRAM device is a memory: a read returns what the
last write requested before it wrote, and never more data come from the
controller than there is room for. The driver's two stacks always share out the
table, the table names exactly the pages the driver has, and the delay lines
are where its record says. The host's handles are open as long as the I/O
thread runs and closed once. The FPGAs of a pair find one another and exchange
their clients' words in order. The MPI channel keeps one chunk and one request
on the way, never mixes two commands and delivers every message.

## Modules

| module | models |
|---|---|
| `EdgeSizes` | the constants of *device.h* and the size arithmetic: `LegalBufSize`, `MaxWriteWords`, the growth by check bits, the counts in the command word |
| `ReliableStream` | the abstract promise of a direction: what is received is a prefix of what was sent |
| `EdgeWriteRing` | the host's write windows: `Write`, `WriteLock`, `WriteUnlock` and the I/O thread's prepare, transaction, ACK/NACK, swap |
| `EdgeReadRing` | the host's read windows: `TryRead` with the pseudo-DMA path, and the I/O thread's hand-over and buffer resizing |
| `EdgeFPGA` | the FPGA's state machines, the error detecting marshaller, and the command, resend and `ClearSentWords` of the host |
| `EdgeFPGA_proof` | proofs about `EdgeFPGA` |
| `EdgeWriteRing_proof`, `EdgeReadRing_proof` | proofs about the two rings |
| `IntraDevice` | the device by which the two FPGAs of a pair talk: `doInit` and the words of the drivers, over a link that loses what it brings to an FPGA without an image |
| `EdgeDevice` | composes `IntraDevice` with the host that configures the FPGAs: `Init`, `Uninit`, `Cleanup` and the destructor in each of the three files, beside the I/O thread and its copies |
| `EdgeDevice_proof` | proofs about `EdgeDevice` and `IntraDevice` |
| `ArchesMpi` | both ends of the Arches MPI channel, with network and engine between them |
| `ArchesMpi_proof` | proofs about `ArchesMpi` |
| `DdrSram` | the DDR2 SRAM device: initialisation, credits, requests and data between two clocks |
| `DdrSram_proof` | proofs about `DdrSram` |
| `AcpBuffers` | the driver's pinned buffers |
| `AcpBuffers_proof` | proofs about `AcpBuffers` |
| `AcpIodelays`, `MCAcpIodelays` | the driver's delay lines and the commands that move them; the latter gives the delays asked for |
| `AcpDriver`, `MCAcpDriver` | composes the two: one ioctl, one open and close, one load and unload; the latter adds the symmetry for TLC |
| `AcpDriver_proof` | proofs about `AcpIodelays` and that `AcpDriver` implements both parts |

`EdgeWriteRing`. A message is its number; a window holds the numbers of its
messages (`data`) and its size in words (`nWords`). `wpc` is the place of the
writer in `Write`, `iopc` that of the I/O thread in its loop. Every
compare-and-exchange on a lock word is a step; what a thread does between two of
them is a step too when the other thread can see its middle. The transaction is
one step here, which delivers the window's messages or ends with a NACK;
`EdgeFPGA` shows what is inside it. Messages are written higher up in the
window in which `InsertCheckBits` then builds the raw buffer: `CopySrc` and
`CopyDst` are the places it reads and writes, and `CheckBitsFit` says that the
writes, which gain a word per checksum, never catch up with the reads. The second pass of `WriteLock`
over a locked window changes nothing and is a stutter.

`EdgeReadRing`. A word is a pair of message and place. `BufferedWordsRemaining`
loads `nWords` (`LoadNWords`) and acts on it in the next step: the I/O thread
may hand the window over in between. Each caller of it is an action named for
its place in `TryRead`. `pending` holds the words that the FPGA's client wrote
and no packet has taken. Packets split messages anywhere and may hold NODATA
words between messages.

`EdgeFPGA`. Rules are actions and interleave freely; Bluespec executes rules
one at a time, whatever the schedule, so that the model has every behaviour a
compiled schedule has. A rule waits only for the queues of the branch it takes. The
link corrupts at most `MaxErrors` chunks and never the first one of a
buffer, which the comment at *channel.bsv*:206 relies on. Chunks of the buffer
behind the messages are what an earlier use left there: headers (`Stale`) with
good or bad check bits.

`EdgeDevice`. `InitSteps` lists the calls of each file's `Init` in their order
and `place` is the next of them; each may fail, which ends the process by
`CallbackExit` except where the code goes on (`Ignored`). `lib` is the library's
view of the three handles, `misuse` the handles closed that were not open. The
ways out are those of LEAP: `CallbackExit` runs `Uninit` down the chain of
modules and exits, with the I/O thread still running; the channel's destructor
cancels and joins the thread first, and deletes the device. The I/O thread is
reduced to its test for a cancellation and to the words of the workspace that a
transaction copies, any window and any legal size that the checks of
`DoAALTransaction` accept.

`IntraDevice`. Each direction has one queue on either side of the link, which
stands for the FIFOs there. The word by which FPGA 1 says that it is up is
`Ready`; the clients' words count from 1.

`ArchesMpi`. The host has one thread, which either writes, reads or takes a
chunk; a posted receive is done as soon as a chunk arrives. `mpeCmd` and
`mpeData` are the queues of the message passing engine behind the sync FIFOs,
which cross clocks separately. MPI library, network and engine are not part of
this code: messages arrive in order, `MPI_Send` waits for room.

`DdrSram`. Rules and methods are actions. The controller (VHDL of a vendor) is
external: it serves requests in order once calibrated, and a read's beats go
straight to `readBuffer`. Every beat that the client writes has a number of its
own, so that a read shows which write it saw. `mergeReqQ`, of the LEAP library,
is a queue in order of arrival.

`AcpBuffers`. An ioctl is one step, but allocation is two, because
`alloc_pages` may sleep in between and lets other processes in (`Sleeps`). What
processes do with their buffers is kept in `held` and `mapped`, which only the
properties read. The loop of `IOCTL_ASSOCIATEUSER` runs to `usedmemallocs`, one
too far. In a full table it takes what lies behind `used_memallocindex` for an
index (`LastSearched`): any entry of the table, or a place outside of it, which
may then be overwritten. From there on (`astray`) the driver is not followed and
nothing is claimed of it; the same holds once two allocations have taken the
last entry. `d_init` is one step; the device can in fact be opened from its
`cdev_add` on, before it has set up the stacks.

`AcpIodelays` has one action per command on the interrupt side channel, with the
lines of the FPGA (`delay`) beside the driver's record of them (`iodelays`). A
line has `Taps` taps and goes round at the end; programs may ask for any
`uint8_t`. Loading the driver again clears the record and leaves the lines where
they are (`start`). What is claimed of a line's delay is therefore claimed of
those that were at 0 when the driver was loaded (`FoundAtZero`): all of them the
first time. Strobe p of the address is in none of the claims (see Divergences).

`AcpDriver`. An ioctl has the big kernel lock; opening and closing do not take
it, and so go on while `IOCTL_SETIODELAYS` of another file moves the lines.

## Runs

| run | instance | shows |
|---|---|---|
| `write_ring` | 3 windows of 8 words (6 for data), 5 messages of 1, 2 or 4 chunks | ownership, stability of the buffer under a transaction, order of delivery over resends, check bits that overwrite no unread word, the inductive invariant; `Write` returns, messages are delivered |
| `oversize_message` | a message that fits no window | violation, see Divergences |
| `read_ring` | 3 windows in the ring, transfers of 2 or 4 words, 2 messages of up to 3 chunks, pseudo-DMA | the hand-over of windows loses, repeats and tears nothing; messages arrive, `TryRead` returns |
| `empty_pseudo_dma` | pseudo-DMA message without payload | violation, see Divergences |
| `fpga_h2f` | raw chunks of 4 words, buffers of 8 or 16, 2 messages, 2 corrupted chunks | host to FPGA over errors and resends |
| `fpga_duplex` | raw chunks of 4 words, replies of 4 and 8, 2 messages to the host and 1 from it, 1 corrupted chunk | both directions at once: replies have the form the host relies on, FPGA to host over split messages, transactions end, messages arrive |
| `sram` | 2 bursts of 2 beats, 2 credits, 3 requests | the device is a memory, its read path never overflows, initialisation ends and reads are answered |
| `driver` | 2 table entries, 2 blocks, 2 files, `alloc_pages` does not sleep; 2 data lanes and one group, 3 taps; driver loaded twice | until it has gone astray, the table names what the driver has over any order of calls, the inductive invariant (which contains the state of the stacks); lines that were at 0 when the driver was loaded are where the record says and move straight to their new delay |
| `driver_alloc_race` | 2 table entries, 3 blocks, 2 files, `alloc_pages` may sleep | violation, see Divergences |
| `delays_after_reload` | the lines alone, driver loaded twice | violation, see Divergences |
| `arches_mpi` | FIFOs and network of 2, 2 messages each way of 1 or 2 chunks | commands stay whole, the handshakes keep one chunk and one request on the way, delivery in order both ways, messages arrive |
| `edge_device` | all three files, 2 write and 3 read windows of 4 words, 2 words each way between FPGAs with queues of 2 | the workspace outlives the I/O thread, handles are closed once, a pair comes up and exchanges its words, the destructor returns |

### Bounds

Constants of the code are small so that queues fill, windows wrap and sizes
meet: what decides the behaviour is whether a message fits, whether a window is
the last of the ring, whether a count has reached zero, and every one of those
comparisons goes both ways in the runs.

- `MaxWrites`, `MaxMessages`, `MaxH2F`, `MaxF2H`, `MaxRequests`, `MaxWords` bound
  histories.
  Five writes go round the ring of three windows with several messages in a
  window; two read messages of four words leave windows half read across the
  ring; three requests meet two credits.
- `MaxErrors`: two, so that a resent buffer is corrupted again before or behind
  the first place.
- `IOCountLimit` is the number of small transfers before a buffer shrinks (1
  for the code's larger number), `MaxFill` the NODATA words in a row,
  `MaxLoads` the loads of the driver.
- `SRAM_BURST_LENGTH`: two beats, the case in which collecting and sending a
  burst take several steps; with one beat the same rules do less.
- `ArchesMpi`: with queues of two a rule finds its queue empty, in use and full.
  A second message each way shows what a first one leaves behind, and a message
  of two chunks takes an acknowledgement between its chunks.
- `AcpDriver`: two entries fill the table, free the lower or the upper first and
  leave a stale one; a third block adds no state, for the properties tell blocks
  only by whether the driver has them. Delays asked for are 0, the last tap, one
  below it, and one past it, which goes round. The proofs cover tables, lines and
  taps of any number.
- `EdgeDevice`: the fewest windows that the ring code takes; what matters is
  the last of the write windows next to the first of the read windows, and the
  proof covers the others. Two words each way tell the order of the clients'
  words and those apart from `Ready`.

Deadlock is checked in the runs of the edge channel and in
`delays_after_reload`. `sram` and `arches_mpi` do not check it, for their clients
may stop, nor does `edge_device`, where the process ends, nor the other two runs
of the driver, which may stay unloaded and is not followed once astray.

### Fairness

- `EdgeWriteRing`: both threads run (weak fairness). Strong fairness of
  `IOTransact`: errors of the link are transient, so a buffer that is sent
  again and again gets through. Strong fairness of `WriteLockTaken`: the writer
  spins on the lock word, while the I/O thread changes it once per blocking
  transaction; a window that keeps becoming free is taken. A new `Write` is
  never assumed.
- `EdgeReadRing`: both threads run, the client keeps calling `TryRead` (`Read`
  does), and the FPGA sends pending words sooner or later.
- `EdgeFPGA`: rules are driven by a clock, so the two sides each go on if one of
  their rules can fire; link and I/O thread work; the client reads what there
  is and ends the messages it starts.
- `DdrSram`: rules and controller go on; the client gives the data of the
  writes it requested. Nothing is assumed of when it takes read data.
- `ArchesMpi`: rules that can fire do, network and engine move on, the host
  finishes its calls and keeps calling `TryRead`, and the FPGA's client reads
  what comes and ends the messages it starts. No call of `Read` or `Write` is
  assumed.
- `EdgeDevice`: the rules of the devices fire, the I/O thread runs and so does
  the destructor once it is called. No step of `Init` is assumed to succeed.

## Proofs

`EdgeWriteRing_proof` proves, for any number of windows from two up, any sizes
and any messages, every safety property that `write_ring` checks: `TypeCorrect`,
`OwnershipCorrect`, `EndMarkCorrect`, `CheckBitsCorrect`, `NothingLostCorrect`,
`BufferStableCorrect`, and `DeliversInOrder`, that the ring implements
`ReliableStream`. They rest on `SizesAssumption`, `GranularityAssumption`,
`RoomAssumption` (a window has room for more than its command word, true of all
sizes in *device.h*) and `RingAssumption`.

`CheckBitsCorrect` is arithmetic over `EndMarkFits`: a window is a whole number
m of raw chunks (`WindowChunks`), so its messages fill m * d words at most, with
d words of data per chunk; the copy starts m words behind its source and gains
at most m of them (`ChunkCount`).

The lock words alone are inductive (`Ownership`): 1 marks the I/O thread's
window and 2 the writer's. Delivery in order is not. It needs to know where the
undelivered messages are: exactly those behind the last delivered one wait
(`CoverageInv`), in order within each window and along the ring from its head,
the window that the I/O thread sends next (`OrderInv`); the writer's window is
the last that holds any (`TailInv`), unless it has found every window behind
the head full and waits for the head itself (`Wrapped`); and `nWords` says
whether a window holds messages (`WindowInv`). Their conjunction with the type
invariant is `RingInv`,
proved in one lemma per part with one step per action: steps that do not move
messages preserve the order at once (`UnmovedStep`), and the writer's copy, the
delivery and the swap are the three that need an argument.

`AcpBuffers_proof` proves the properties of `driver` that are about buffers, for
a table of any size and any files, blocks and addresses, from
`BuffersAssumption` and the assumption `~ Sleeps`: with `Sleeps`,
`driver_alloc_race` refutes them. They hold as long as the driver has not used
memory behind its tables; without `Sleeps` that leaves `IOCTL_ASSOCIATEUSER` on a
full table, and only if what it finds behind the used stack is no index of the
table. The used
stack grows up from place 0 and the free one is taken from the top down, so that
side by side (`Place`) they are a list of the table's entries. `BuffersInv` says
that this list has no entry twice: an allocation leaves it alone and moves the
boundary between the stacks, a free swaps two of its entries. What the
properties leave open and the induction needs are the last five parts: one
allocation is under way at a time and an entry is left for it, what the driver
does not hold is mapped nowhere, only an open device has used entries, and only
a loaded driver is open. That the stacks also miss no entry (`StacksCorrect`) is
the pigeonhole principle of `FiniteSetTheorems`.

`EdgeDevice_proof` proves the type invariant (which TLC need not check again)
and every safety property of
`edge_device`, for any number and size of windows, any depth of the queues and
any number of words, from `DeviceAssumption`, `IntraAssumption` and
`SizesAssumption`. `DeviceInv` has two halves that meet in one fact.

- The host: as long as `Kept` holds, the handles are as `Init` left them. The
  workspace is the last handle `Init` gets, so where it is there the others are
  too, and the I/O thread is started behind it (`HandlesInv`, `ThreadInv`). In
  *device.cpp* `Kept` covers `Uninit`, which does nothing, in *debugger.cpp* it
  does not: there `Cleanup` has cleared the pointer that guards it. That copies
  stay within their windows is arithmetic (`WindowsApart`), for every size that
  `LegalBufSize` returns and the checks accept.
- The pair: what a client got, what waits on either side of the link and what
  the peer has sent are numbered without a gap, from `Ready` on while FPGA 0
  waits for it (`StreamInv`). The steps of a stream are lemmas about sequences
  (`NumberedSteps`, `FlowSteps`).
- The fact: FPGA 1 never runs without FPGA 0, because `Init` configures them in
  this order (`ConfigurationInv`); so no word crosses the link to an FPGA
  without an image, and `Ready` is never lost (`BringUpInv`).

`EdgeReadRing_proof` proves ownership (`OwnershipCorrect`) and delivery in order
(`MessagesCorrect`) of the read ring, for any number of windows, any sizes of
messages and packets and any NODATA words between them, from `ReadRingAssumption`
and the hypothesis `NoEmptyDMA`: with empty pseudo-DMA messages
`empty_pseudo_dma` refutes ownership. The two need each other. The reader gives a
window back when its count says that it is used up, and the count is right only
as long as the words come in order: a payload word taken for a header would start
a message of another length. So `ReadInv` is one invariant: the filled windows
are those from the reader's to the one the FPGA fills next (`ShapeInv`), counts
and indices agree with the data (`WindowInv`), at each of its places in `TryRead`
the reader knows how much of the message it has (`ReaderInv`), and from its place
through the windows to the words that no packet has taken yet the words follow
one another (`ChainInv`). The last part is an existential: there is a function
that gives the word expected at the head of each window. That many words follow
one another is a fact about sequences (`Carries`), with lemmas for taking a word,
putting a word and splitting. That a stretch of words handed to the pseudo-DMA
handler at once is the rest of its message goes word by word; the induction is
`SetInduction`, over a set in the place of an operator, from the well-foundedness
of finite intervals (`LeastNumber`).

`DdrSram_proof` proves every safety invariant of the SRAM device, for any burst
length and memory, any credits, queues of any depth and any settings of the
debugging method. `CreditInv` is the account of the credits:
what the device owes (a burst per read that waits anywhere, and the beats that
came back) is a burst per credit in use, less what was taken of the burst being
read; while it initialises there are no credits, and the first phase owes itself
one burst. The read buffer has room for all credits, hence for the beats of every
read. `WriteInv` pairs each write with its whole burst, but for the one whose
beats are on their way. Requests of a kind are counted along three queues in two
clocks; `CountIn` has a lemma for each thing a rule does to a queue.

That the device is a memory (`ReadsSeeEarlierWrites`) needs to know where every
request and every beat is. `StreamInv` says it by numbers: the requests were
issued in one stream, first those of the initialisation (a read, a write, a write
for each address), then the client's, and the queues one behind the other hold
the last of them (`RequestsInOrder`); so do the queues of the beats, with the
burst being collected or sent between them (`BeatsInOrder`). What is in front of
the queues the controller has done. It has taken as many beats as the writes it
did need, so the burst it takes next is that of the write it does next. `MemoryIs`
says the memory is what the requests done make of it, `ReadsReturned` that the
beats that came back, from the client to the controller's buffer, are what the
reads among them saw. Most rules move the head of a queue to the end of the one
before it, which leaves the streams as they are (`MoveHead`, `ThreeQueues`,
`Slice`); what is done does not change when the client asks for more
(`DoneIsSettled`). The first beats, which write back what memory held at power
on, are not followed: the pattern overwrites them. `MemoryOf` is a recursive
function; what it computes comes from `Recursion`, as in `EdgeFPGA_proof`.

`ArchesMpi_proof` proves every safety property of `arches_mpi` for queues and
network of any depth and any messages: the type invariant, `CommandsWhole`,
`Handshake`, and that either direction implements `ReliableStream`
(`H2FInOrderCorrect`, `F2HInOrderCorrect`). `MpiInv` is about control. Between
rules and engine there may be half a command, which ends with the word of the
rule that is between its two stages (`WordInv`); there is one answer at a time,
and what is left of it says which stage takes it (`RespInv`); one token each is
on the round trip of a chunk and of a receive (`TokenInv`, which is `Handshake`
with the answers counted in one piece). `OrderInv` is about data. Each direction
is one pipe: its queues from the reader's back to the writer's. In `F2HPipe` the
chunks follow one another; in `H2FPipe` they do so but for acknowledgements
between them, which may come and go anywhere (`AckBetween`). What the rules know
of a chunk is its tag, in a queue of its own, so `TagInv` says that the tag is
`ACK` exactly if the chunk is an acknowledgement; it needs `RespInv`, by which
answers never overtake each other.

`AcpDriver_proof` proves `RecordIsDelay` and `StraightToTarget` for any number
of lanes, groups and taps, any `uint8_t` that programs ask for and any number of
loads, from `IodelaysAssumption`. The driver knows only its record. `Believed`
is where a line is by the record and the steps left; `DelayInv` says that a line
that was found at 0 is there, counted round the taps, which a step keeps up and
down (`StepUp`, `StepDown`), and `DirectionInv` that a data line will move the
way its first command said. `FirstLoadCorrect` proves that until the driver is
loaded again the lines get the delays asked for, which `delays_after_reload`
refutes for a second load; it needs that a call leaves no line out (`OrderHas`).
`DriverImplements` proves that the composed driver is a behaviour of `AcpBuffers`
and of `AcpIodelays`, so that the theorems about these hold of it.

`EdgeFPGA_proof` proves every safety property of the two `fpga` runs: the type
invariant, `ReplyIsWellFormed`, `AckMeansTaken`, `CountersMeet`, and that either
direction implements `ReliableStream` (`F2HInOrderCorrect`, `H2FInOrderCorrect`), for any sizes
of windows and raw chunks, any payloads and any number of corrupted chunks, from
`LinkAssumption` and the assumptions of `EdgeSizes`. `EdgeInv` follows a
transaction. `PhaseInv` says where it is: the chunks of the reply so far and
those still to be written are as many as the host asked for. `PipeInv` says that
the words between host and rules are those the read side has not taken; that
they are none when the reply is complete needs that a buffer is a whole number
of raw chunks, which is arithmetic over `LegalBufSize` (`LegalSize`,
`LegalFacts`). `RecoveryInv` keeps the errant word inside the buffer, also while
the host sends it again. `FlowInv` says that the client's words are those the
host has, those in the reply and those in the client's queue; what a reply holds
is computed by a recursive function, of which `UsefulAppend` and `UsefulPrefix`
say what one more word and a cut behind the last useful one do.

`H2FInv`, the second invariant, is about the host's messages. At every moment a
number m of them were begun, and `ToCome(m)` are the words still to come: the rest
of message m, of which `Owed` words are missing, and all messages behind. What
the client has of a message (`partial`), what it can read and what is to come are
the host's messages from the first the client has not finished (`Begun`). While
the host may still write, the words to come are those of the window; from then on
they lie in the buffer at `Position`, with an end mark behind them (`Holds`), until
the FPGA has found that mark. The proof is about keeping them there: an error
does not move `Position`, which is then that of the recovery record; ClearSentWords
zeroes only words before it; the resend skips to it. That the rules see those
words is `PipeWords`: a good chunk holds the buffer's words, and the sticky error
register is set no later than the first word of a bad one. An ACK needs that there
is no recovery record, and then `Holds` is over and nothing is to come; in the
middle of a message the end mark is still ahead, which is `CountersMeet`.
`BehindAppend` and `BehindFirst` say what `WordsBehind`, a recursive function,
does when a message is added at the end or finished at the front.

Only model-checked:

- liveness, which depends on fairness. Every safety invariant and every action
  property of a passing run has a theorem.

## Divergences

Four runs end in a violation; each shows the code doing something else than one
of its own comments or checks says.

- `oversize_message`. `WriteLock` lets a message of up to
  `NALLATECH_MAX_MSG_WORDS` chunks pass its sanity check, but a window has room
  for fewer; such a message makes it spin for ever.
- `empty_pseudo_dma`. For a pseudo-DMA message without payload at the end of a
  window, the test of the length releases the window, and `TryRead` goes on to
  write the index of the next one, which the I/O thread may own.
- `driver_alloc_race`. Two allocations at once can take the last free entry;
  the comments ask for a lock that is not there.
- `delays_after_reload`. `d_init` means to "reset PHY and IO delays"
  (*acpdriver.c*:1025), but `resetiodelays` does nothing, since nothing sets
  `socketoccupied` (and the loop passes it the first board every time). When the
  driver is loaded again its record starts at 0 while the lines keep their
  delays, so that every later `IOCTL_SETIODELAYS` ends that much off, round the
  end of the range if need be.

Others were seen on the way and have no run. With a full table the loop of
`IOCTL_ASSOCIATEUSER` (`i<=usedmemallocs`, *acpdriver.c*:707) reads
`used_memallocindex[MAX_NUM_BUFFERS]`, one past the declaration at line 505, and
reads, and may write, `memalloc_array` at whatever index that is (708-709). The
model takes that step (`LastSearched`, `Outside`) and marks it by `astray`: a
full table is all it takes, and the invariants of the driver end there. `d_init`
adds the device at line 1015 and sets up the stacks at 1047-1050, so that a
process that opens it in between finds a free stack that is all zeros. The command
for the address's
strobes sends strobe n's direction in the place of strobe p's
(*acpdriver.c*:110-111, where 79-80 document an argument of its own), so that
strobe p, which is stepped while that argument is 0, only ever moves down;
`AcpIodelays` has it so and its properties leave that line out. In *null.cpp* `Cleanup` has no guard and runs
from `Uninit` and again from the destructor, closing every handle twice; in
*null.cpp* and *debugger.cpp* `Uninit` gives the workspace back while the I/O
thread may be copying, which *device.cpp* mends by an empty `Uninit`;
`ClosedOnce` and `WorkspaceIsLive` name these exceptions. The MPI device calls
`MPI_Finalize` from `Cleanup`, which both `Uninit` and its destructor run. A
failed reset of the module is printed and forgotten. The I/O thread never asks the FPGA
to wait for data (*channel.cpp*:823 compares with a count that includes the end
mark and the check bits). The FPGA can refuse a buffer for a bad checksum in
the stale chunk behind its end mark, if a schedule keeps the end mark waiting
at the head of the marshaller while that chunk is in its register; the buffer
is sent again and nothing is lost, which `fpga_h2f` covers (the stale chunks of
`fpga_duplex` are all good). `_buf_id` in the driver stays -1, so
`IOCTL_GET_BUFID` reports no buffers.

## Not modelled

- The plain marshaller, the demarshaller and the values of the words that
  `InsertCheckBits` and `ClearSentWords` move (`EdgeFPGA` has them chunk by
  chunk; `EdgeWriteRing` has the places `InsertCheckBits` reads and writes).
- A second writer: the reader answers pseudo-DMA reads with `WriteRaw` from its
  own thread.
- The FPGA side of the edge device: clock crossing FIFOs and debug registers.
- The intra-FPGA channel: its host file is the edge channel's renamed, so that
  what is shown of the one holds for the other line by line, and its FPGA side
  forwards a link. `nallatech-edge-device-fpga1.cpp` is in no `.awb` file and is
  never built.
- What `ACP_RESET` leaves on the FPGAs, which the library decides: `EdgeDevice`
  starts with both not configured.
- The driver's `mmap`, GPR commands and register writes, which keep no state
  that anything depends on; the moment in `d_init` at which the device can be
  opened and its stacks are not yet set up.
- Debuggers, stand-ins, netlists, vendor's VHDL and libraries, build
  configuration.

## Plan

Done: the edge channel from either end, the driver, the SRAM device, the MPI
channel, the host's handle and the pair. What is left, in this order:

1. `CheckBits`: the values `InsertCheckBits` writes, marshaller, demarshaller
   and `ClearSentWords` word by word, against a reference definition.
2. `EdgeChannel`: the host's rings composed with the FPGA, one transaction
   serving both directions, shown to implement `ReliableStream` twice; with the
   second writer.
