----------------------------- MODULE AcpBuffers -----------------------------
(***************************************************************************)
(* The pinned buffers of the Linux driver: a table of buffers              *)
(* (memalloc_array) and two stacks of indices into it, of the free entries *)
(* and the used ones, that processes change by ioctl and by closing the    *)
(* device.                                                                 *)
(*                                                                         *)
(* ioctl runs under the big kernel lock, which alloc_pages gives up if it  *)
(* sleeps: with Sleeps other processes run between the test for a free     *)
(* entry and its use.  Everything else that sleeps (copies from and to     *)
(* the caller) comes before a command's first use of the tables or after   *)
(* its last one.  Closing takes no lock; it is taken to be one step.  A    *)
(* block is the pages of a buffer, named by their physical base.  _buf_id  *)
(* is set to -1 and never counts up: what depends on it                    *)
(* (IOCTL_MEMFREE_BY_ID, IOCTL_GET_BUFADDR, d_exit's loop) does nothing.   *)
(***************************************************************************)
EXTENDS Integers, FiniteSets

CONSTANTS
  MaxNumBuffers,   (* MAX_NUM_BUFFERS                                      *)
  Files,           (* open file descriptions, each of a process            *)
  Blocks,          (* blocks of pages that alloc_pages can return          *)
  Addresses,       (* user addresses at which buffers are mapped           *)
  NoAddress,       (* user_base 0, page 0                                  *)
  Sleeps           (* whether alloc_pages may sleep                        *)

ASSUME BuffersAssumption ==
  /\ MaxNumBuffers \in Nat \ {0}
  /\ NoAddress \notin Addresses \cup Blocks
  /\ Sleeps \in BOOLEAN

Entries == 0 .. MaxNumBuffers - 1

VARIABLES
  loaded,              (* between d_init and d_exit                        *)
  opened,              (* open files                                       *)
  allocating,          (* files with an IOCTL_MEMALLOC in alloc_pages      *)
  memalloc_array, free_memallocindex, used_memallocindex, usedmemallocs, buf_id,
  held,                (* blocks that the driver has from the kernel       *)
  mapped,              (* where the processes have mapped those blocks     *)
  astray               (* whether it has used memory behind its tables     *)

tableVars  == <<memalloc_array, free_memallocindex, used_memallocindex, usedmemallocs>>
kernelVars == <<loaded, opened, buf_id>>
vars == <<kernelVars, allocating, tableVars, held, mapped, astray>>

Outside == MaxNumBuffers   \* an index that is none of the table's
Top == MaxNumBuffers - 1   \* where the free stack begins to be taken from
InitialFree == [i \in Entries |-> Top - i]

Init ==
  /\ loaded = TRUE /\ opened = {} /\ allocating = {} /\ buf_id = -1
  /\ memalloc_array = [k \in Entries |-> [pg_base |-> NoAddress, user_base |-> NoAddress]]
  /\ free_memallocindex = InitialFree /\ used_memallocindex = [i \in Entries |-> 0]
  /\ usedmemallocs = 0
  /\ held = {} /\ mapped = [b \in Blocks |-> NoAddress]
  /\ astray = FALSE

(* A command may run: none is under way, or it sleeps.  A driver that has  *)
(* used memory behind its tables, which may be its own or anybody's, is    *)
(* not followed any further.                                               *)
Runs(f) ==
  /\ f \in opened \ allocating
  /\ Sleeps \/ allocating = {}
  /\ ~ astray

UsedEntries == {used_memallocindex[i] : i \in 0 .. usedmemallocs - 1}

-----------------------------------------------------------------------------
Open(f) ==
  /\ loaded /\ f \notin opened
  /\ opened' = opened \cup {f}
  /\ UNCHANGED <<loaded, buf_id, allocating, tableVars, held, mapped, astray>>

(* Bug: the last buffer is left out. *)
ReleaseButOne(f) ==
  /\ Runs(f)
  /\ opened' = opened \ {f}
  /\ LET given == {memalloc_array[used_memallocindex[i]].pg_base : i \in 0 .. usedmemallocs - 2}
     IN  /\ held' = held \ given
         /\ mapped' = [b \in Blocks |-> IF b \in given THEN NoAddress ELSE mapped[b]]
  /\ free_memallocindex' = InitialFree
  /\ usedmemallocs' = 0
  /\ UNCHANGED <<loaded, buf_id, allocating, memalloc_array, used_memallocindex, astray>>

(* Closing the device gives back every buffer, whoever asked for it.       *)
Release(f) ==
  /\ Runs(f)
  /\ opened' = opened \ {f}
  /\ LET given == {memalloc_array[k].pg_base : k \in UsedEntries}
     IN  /\ held' = held \ given
         /\ mapped' = [b \in Blocks |-> IF b \in given THEN NoAddress ELSE mapped[b]]
  /\ free_memallocindex' = InitialFree
  /\ usedmemallocs' = 0
  /\ UNCHANGED <<loaded, buf_id, allocating, memalloc_array, used_memallocindex, astray>>

(* Bug: no test for a free entry. *)
MemAllocFull(f) ==
  /\ Runs(f)
  /\ allocating' = allocating \cup {f}
  /\ UNCHANGED <<kernelVars, tableVars, held, mapped, astray>>

(* IOCTL_MEMALLOC up to alloc_pages; without a free entry: ENOMEM.         *)
MemAlloc(f) ==
  /\ Runs(f)
  /\ usedmemallocs < MaxNumBuffers
  /\ allocating' = allocating \cup {f}
  /\ UNCHANGED <<kernelVars, tableVars, held, mapped, astray>>

(* alloc_pages fails: ENOMEM. *)
MemAllocFails(f) ==
  /\ f \in allocating
  /\ allocating' = allocating \ {f}
  /\ UNCHANGED <<kernelVars, tableVars, held, mapped, astray>>

(***************************************************************************)
(* alloc_pages returns block b and the entry on top of the free stack      *)
(* becomes used.  With none left the driver reads the place in front of    *)
(* that stack and writes the one behind the used stack.                    *)
(***************************************************************************)
MemAllocPages(f, b) ==
  /\ f \in allocating /\ b \notin held
  /\ allocating' = allocating \ {f}
  /\ held' = held \cup {b}
  /\ IF usedmemallocs < MaxNumBuffers
     THEN LET freeindex == free_memallocindex[Top - usedmemallocs]
          IN  /\ memalloc_array' = [memalloc_array EXCEPT
                    ![freeindex] = [pg_base |-> b, user_base |-> NoAddress]]
              /\ used_memallocindex' = [used_memallocindex EXCEPT ![usedmemallocs] = freeindex]
     ELSE UNCHANGED <<memalloc_array, used_memallocindex>>
  /\ usedmemallocs' = usedmemallocs + 1
  /\ astray' = (astray \/ usedmemallocs >= MaxNumBuffers)
  /\ UNCHANGED <<kernelVars, free_memallocindex, mapped>>

(* The entry IOCTL_ASSOCIATEUSER looks at after the used ones, as its loop *)
(* runs to usedmemallocs: one that was used before, or, in a full table,   *)
(* what lies behind used_memallocindex, an index of the table or not.      *)
LastSearched ==
  IF usedmemallocs < MaxNumBuffers
  THEN {used_memallocindex[usedmemallocs]}
  ELSE Entries \cup {Outside}

(***************************************************************************)
(* The process has mapped the buffer at an address that has no other one.  *)
(* The entries looked at that name the buffer get the address.  What lies  *)
(* outside of the table may name it too, and is overwritten, or cannot     *)
(* even be read.                                                           *)
(***************************************************************************)
AssociateUser(f, b, a) ==
  /\ Runs(f)
  /\ b \in held /\ \A c \in Blocks \ {b} : mapped[c] # a
  /\ mapped' = [mapped EXCEPT ![b] = a]
  /\ \E last \in LastSearched :
       /\ memalloc_array' =
            [k \in Entries |->
               IF k \in UsedEntries \cup {last} /\ memalloc_array[k].pg_base = b
               THEN [memalloc_array[k] EXCEPT !.user_base = a]
               ELSE memalloc_array[k]]
       /\ astray' \in {FALSE, last = Outside}
  /\ UNCHANGED <<kernelVars, allocating, free_memallocindex, used_memallocindex,
                 usedmemallocs, held>>

(* Bug: the last used entry does not move to the place that becomes free.  *)
MemFreeNoMove(f, a) ==
  /\ Runs(f)
  /\ \E i \in 0 .. usedmemallocs - 1 :
       LET imatch == used_memallocindex[i]
           block == memalloc_array[imatch].pg_base
       IN  /\ memalloc_array[imatch].user_base = a
           /\ held' = held \ {block}
           /\ mapped' = [mapped EXCEPT ![block] = NoAddress]
           /\ free_memallocindex' = [free_memallocindex EXCEPT
                ![Top - (usedmemallocs - 1)] = imatch]
  /\ usedmemallocs' = usedmemallocs - 1
  /\ UNCHANGED <<kernelVars, allocating, memalloc_array, used_memallocindex, astray>>

(* IOCTL_MEMFREE: the last used entry with that user address becomes free; *)
(* the top of the used stack takes its place.  NoAddress frees a buffer    *)
(* that was never associated.                                              *)
MemFree(f, a) ==
  /\ Runs(f)
  /\ \E i \in 0 .. usedmemallocs - 1 :
       LET imatch == used_memallocindex[i]
           block == memalloc_array[imatch].pg_base
       IN  /\ memalloc_array[imatch].user_base = a
           /\ \A j \in i + 1 .. usedmemallocs - 1 : memalloc_array[used_memallocindex[j]].user_base # a
           /\ held' = held \ {block}
           /\ mapped' = [mapped EXCEPT ![block] = NoAddress]
           /\ free_memallocindex' = [free_memallocindex EXCEPT
                ![Top - (usedmemallocs - 1)] = imatch]
           /\ used_memallocindex' = [used_memallocindex EXCEPT
                ![i] = used_memallocindex[usedmemallocs - 1]]
  /\ usedmemallocs' = usedmemallocs - 1
  /\ UNCHANGED <<kernelVars, allocating, memalloc_array, astray>>

(* d_exit: only once the device is closed; it frees buffers 0 to buf_id.   *)
Exit ==
  /\ loaded /\ opened = {}
  /\ loaded' = FALSE
  /\ held' = held \ {memalloc_array[k].pg_base : k \in 0 .. buf_id}
  /\ buf_id' = -1
  /\ UNCHANGED <<opened, allocating, tableVars, mapped, astray>>

(* The module is loaded again, its data cleared, and d_init runs, in one   *)
(* step: nobody opens the device between its cdev_add and its end.         *)
Load ==
  /\ ~ loaded
  /\ loaded' = TRUE /\ buf_id' = -1
  /\ memalloc_array' = [k \in Entries |-> [pg_base |-> NoAddress, user_base |-> NoAddress]]
  /\ free_memallocindex' = InitialFree /\ used_memallocindex' = [i \in Entries |-> 0]
  /\ usedmemallocs' = 0
  /\ UNCHANGED <<opened, allocating, held, mapped, astray>>

Ioctl(f) ==
  \/ MemAlloc(f) \/ MemAllocFails(f)
  \/ \E b \in Blocks : MemAllocPages(f, b) \/ \E a \in Addresses : AssociateUser(f, b, a)
  \/ \E a \in Addresses \cup {NoAddress} : MemFree(f, a)

Next ==
  \/ \E f \in Files : Open(f) \/ Release(f) \/ Ioctl(f)
  \/ Exit \/ Load

Spec == Init /\ [][Next]_vars

-----------------------------------------------------------------------------
(* Properties. *)

(* Types of the variables, the count of used entries within the table. *)
TypeOK ==
  /\ loaded \in BOOLEAN /\ opened \subseteq Files /\ allocating \subseteq opened
  /\ memalloc_array \in [Entries -> [pg_base : Blocks \cup {NoAddress},
                                     user_base : Addresses \cup {NoAddress}]]
  /\ free_memallocindex \in [Entries -> Entries] /\ used_memallocindex \in [Entries -> Entries]
  /\ usedmemallocs \in 0 .. MaxNumBuffers /\ buf_id = -1
  /\ held \subseteq Blocks /\ mapped \in [Blocks -> Addresses \cup {NoAddress}]
  /\ astray \in BOOLEAN

FreeEntries == {free_memallocindex[i] : i \in 0 .. Top - usedmemallocs}

(***************************************************************************)
(* The two stacks share out the entries of the table, over any order of    *)
(* allocations and frees: no entry is used twice, none is lost.            *)
(***************************************************************************)
StacksPartition ==
  ~ astray =>
    /\ UsedEntries \cup FreeEntries = Entries
    /\ Cardinality(UsedEntries) = usedmemallocs
    /\ Cardinality(FreeEntries) = MaxNumBuffers - usedmemallocs

(* The used entries name every block the driver has, each once: nothing is *)
(* freed twice or by the wrong entry, nothing that is in use is given back.*)
TableNamesHeld ==
  ~ astray =>
    /\ {memalloc_array[k].pg_base : k \in UsedEntries} = held
    /\ \A j, k \in UsedEntries : memalloc_array[j].pg_base = memalloc_array[k].pg_base => j = k

(***************************************************************************)
(* MEMFREE finds the buffer that its caller has at that address: a used    *)
(* entry has the address of the last ASSOCIATEUSER of its present buffer,  *)
(* not of an earlier one, although that command also writes a stale entry, *)
(* and in a full table whatever entry it takes from behind the stack.      *)
(***************************************************************************)
FreeFindsItsBuffer ==
  ~ astray =>
    \A k \in UsedEntries : memalloc_array[k].user_base = mapped[memalloc_array[k].pg_base]

(* A module that is not loaded keeps no pages, although d_exit frees none. *)
UnloadedHoldsNothing == ~ astray /\ ~ loaded => held = {}

(* The entries in the order of the two stacks, used ones first. *)
Place(i) ==
  IF i < usedmemallocs THEN used_memallocindex[i] ELSE free_memallocindex[Top - i]

(***************************************************************************)
(* The inductive invariant, without Sleeps, of a driver that has not gone  *)
(* astray: the stacks side by side are a permutation of the entries, which *)
(* allocation leaves as it is and a free changes by a swap; one allocation *)
(* at a time is under way and has a free entry; only an open device has    *)
(* used entries.                                                           *)
(***************************************************************************)
BuffersInv ==
  ~ astray =>
    /\ TypeOK
    /\ \A i, j \in Entries : Place(i) = Place(j) => i = j
    /\ TableNamesHeld
    /\ FreeFindsItsBuffer
    /\ \A b \in Blocks \ held : mapped[b] = NoAddress
    /\ allocating # {} => usedmemallocs < MaxNumBuffers
    /\ \A f, g \in allocating : f = g
    /\ opened = {} => usedmemallocs = 0
    /\ ~ loaded => opened = {}

(* The index of a buffer is taken from the free stack only if one is left  *)
(* ("if (usedmemallocs < MAX_NUM_BUFFERS)").                               *)
UsedFitsTable == usedmemallocs <= MaxNumBuffers
=============================================================================
