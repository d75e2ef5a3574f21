--------------------------- MODULE AcpBuffers_proof ---------------------------
(***************************************************************************)
(* Proofs about AcpBuffers, for tables, files, blocks and addresses of any *)
(* number, when alloc_pages does not sleep, as long as the driver has not  *)
(* used memory behind its tables (astray).                                 *)
(***************************************************************************)
EXTENDS AcpBuffers, FiniteSetTheorems, FunctionTheorems, TLAPS

LEMMA InitInv == Init => BuffersInv
<1> SUFFICES ASSUME Init PROVE BuffersInv
  OBVIOUS
<1> USE BuffersAssumption DEF Init, Entries, Top, InitialFree
<1>1. InitialFree \in [Entries -> Entries]
  OBVIOUS
<1>2. TypeOK
  <2>1. astray \in BOOLEAN
    OBVIOUS
  <2>2. /\ loaded \in BOOLEAN /\ opened \subseteq Files /\ allocating \subseteq opened
        /\ memalloc_array \in [Entries -> [pg_base : Blocks \cup {NoAddress},
                                           user_base : Addresses \cup {NoAddress}]]
        /\ usedmemallocs \in 0 .. MaxNumBuffers /\ buf_id = -1
        /\ held \subseteq Blocks /\ mapped \in [Blocks -> Addresses \cup {NoAddress}]
    OBVIOUS
  <2>3. free_memallocindex \in [Entries -> Entries] /\ used_memallocindex \in [Entries -> Entries]
    BY <1>1
  <2> QED
    BY <2>1, <2>2, <2>3 DEF TypeOK
<1>3. \A i \in Entries : Place(i) = i
  BY DEF Place
<1>4. UsedEntries = {}
  BY DEF UsedEntries
<1>5. TableNamesHeld /\ FreeFindsItsBuffer
  BY <1>4 DEF TableNamesHeld, FreeFindsItsBuffer
<1> QED
  BY <1>2, <1>3, <1>5 DEF BuffersInv

(* Closing, and loading again, starts over with an empty table. *)
LEMMA ResetStep ==
  ASSUME BuffersInv, ~ astray, NEW f, Release(f) \/ Load PROVE BuffersInv'
<1> USE BuffersAssumption DEF Entries, Top, InitialFree
<1>1. InitialFree \in [Entries -> Entries]
  OBVIOUS
<1>2. UsedEntries' = {} /\ usedmemallocs' = 0
  BY DEF UsedEntries, Release, Load
<1>3. held' = {}
  <2>1. CASE Release(f)
    BY <2>1 DEF Release, BuffersInv, TableNamesHeld
  <2>2. CASE Load
    <3>1. opened = {} /\ usedmemallocs = 0 /\ held' = held
      BY <2>2 DEF Load, BuffersInv
    <3>2. UsedEntries = {}
      BY <3>1 DEF UsedEntries
    <3> QED
      BY <3>1, <3>2 DEF BuffersInv, TableNamesHeld
  <2> QED
    BY <2>1, <2>2
<1>4. mapped' = [b \in Blocks |-> NoAddress]
  <2>1. CASE Release(f)
    <3>1. {memalloc_array[k].pg_base : k \in UsedEntries} = held
      BY DEF BuffersInv, TableNamesHeld
    <3>2. \A b \in Blocks \ held : mapped[b] = NoAddress
      BY DEF BuffersInv
    <3>3. mapped' = [b \in Blocks |-> IF b \in held THEN NoAddress ELSE mapped[b]]
      BY <2>1, <3>1 DEF Release
    <3> QED
      BY <3>2, <3>3
  <2>2. CASE Load
    <3>1. held = {} /\ mapped' = mapped
      BY <2>2, <1>3 DEF Load
    <3>2. mapped \in [Blocks -> Addresses \cup {NoAddress}] /\ \A b \in Blocks : mapped[b] = NoAddress
      BY <3>1 DEF BuffersInv, TypeOK
    <3> QED
      BY <3>1, <3>2
  <2> QED
    BY <2>1, <2>2
<1>5. TypeOK'
  <2>1. memalloc_array' \in [Entries -> [pg_base : Blocks \cup {NoAddress},
                                         user_base : Addresses \cup {NoAddress}]]
    <3>1. CASE Release(f)
      BY <3>1 DEF Release, BuffersInv, TypeOK
    <3>2. CASE Load
      BY <3>2 DEF Load
    <3> QED
      BY <3>1, <3>2
  <2>2. used_memallocindex' \in [Entries -> Entries] /\ free_memallocindex' \in [Entries -> Entries]
    <3>1. CASE Release(f)
      BY <3>1, <1>1 DEF Release, BuffersInv, TypeOK
    <3>2. CASE Load
      BY <3>2, <1>1 DEF Load
    <3> QED
      BY <3>1, <3>2
  <2>3. loaded' \in BOOLEAN /\ opened' \subseteq Files /\ allocating' \subseteq opened' /\ buf_id' = -1
    BY DEF Release, Load, Runs, BuffersInv, TypeOK
  <2>4. astray' \in BOOLEAN
    BY DEF Release, Load, BuffersInv, TypeOK
  <2>5. /\ usedmemallocs' \in 0 .. MaxNumBuffers
        /\ held' \subseteq Blocks /\ mapped' \in [Blocks -> Addresses \cup {NoAddress}]
    BY <1>2, <1>3, <1>4
  <2> HIDE DEF Entries
  <2> QED
    BY <2>1, <2>2, <2>3, <2>4, <2>5 DEF TypeOK
<1>6. \A i \in Entries : Place(i)' = i
  BY <1>2 DEF Place, Release, Load
<1>7. TableNamesHeld' /\ FreeFindsItsBuffer'
  BY <1>2, <1>3 DEF TableNamesHeld, FreeFindsItsBuffer
<1>8. /\ \A g, h \in allocating' : g = h
      /\ ~ loaded' => opened' = {}
  BY DEF Release, Load, Runs, BuffersInv
<1> QED
  BY <1>2, <1>4, <1>5, <1>6, <1>7, <1>8 DEF BuffersInv

(* Commands that leave the table as it is. *)
LEMMA QuietStep ==
  ASSUME BuffersInv, ~ astray, ~ Sleeps,
         \/ \E f \in Files : Open(f) \/ MemAlloc(f) \/ MemAllocFails(f)
         \/ Exit \/ UNCHANGED vars
  PROVE  BuffersInv'
<1>1. UNCHANGED <<tableVars, mapped>> /\ held' = held
  <2>1. CASE Exit
    <3>1. 0 .. buf_id = {}
      BY DEF BuffersInv, TypeOK
    <3> QED
      BY <2>1, <3>1 DEF Exit
  <2> QED
    BY <2>1 DEF Open, MemAlloc, MemAllocFails, vars, tableVars
<1>2. UNCHANGED <<memalloc_array, free_memallocindex, used_memallocindex, usedmemallocs>>
  BY <1>1 DEF tableVars
<1>3. UsedEntries' = UsedEntries
  BY <1>2 DEF UsedEntries
<1>4. \A i : Place(i)' = Place(i)
  BY <1>2 DEF Place
<1>5. TableNamesHeld' /\ FreeFindsItsBuffer'
  BY <1>1, <1>2, <1>3 DEF BuffersInv, TableNamesHeld, FreeFindsItsBuffer
<1>6. TypeOK'
  BY <1>1, <1>2 DEF BuffersInv, TypeOK, Open, MemAlloc, MemAllocFails, Exit, Runs, kernelVars, vars
<1>7. /\ allocating' # {} => usedmemallocs' < MaxNumBuffers
      /\ \A g, h \in allocating' : g = h
      /\ opened' = {} => usedmemallocs' = 0
      /\ ~ loaded' => opened' = {}
  BY <1>2 DEF BuffersInv, Open, MemAlloc, MemAllocFails, Exit, Runs, kernelVars, vars
<1>8. \A i, j \in Entries : Place(i)' = Place(j)' => i = j
  BY <1>4 DEF BuffersInv
<1> QED
  BY <1>1, <1>5, <1>6, <1>7, <1>8 DEF BuffersInv

(* An allocation moves the boundary between the stacks and no entry.       *)
LEMMA AllocStep ==
  ASSUME BuffersInv, ~ astray, NEW f \in Files, NEW b \in Blocks, MemAllocPages(f, b)
  PROVE  BuffersInv'
<1> USE BuffersAssumption DEF Entries, Top
<1> DEFINE e == free_memallocindex[Top - usedmemallocs]
<1>1. /\ TypeOK /\ TableNamesHeld /\ FreeFindsItsBuffer
      /\ usedmemallocs \in 0 .. MaxNumBuffers - 1 /\ MaxNumBuffers \in Nat
      /\ b \notin held /\ mapped[b] = NoAddress /\ allocating = {f} /\ opened # {} /\ loaded
  <2>1. TypeOK /\ TableNamesHeld /\ FreeFindsItsBuffer /\ b \notin held /\ f \in allocating
    BY DEF BuffersInv, MemAllocPages
  <2>2. mapped[b] = NoAddress /\ usedmemallocs < MaxNumBuffers /\ allocating = {f}
    BY <2>1 DEF BuffersInv
  <2>3. f \in opened /\ usedmemallocs \in 0 .. MaxNumBuffers
    BY <2>1 DEF TypeOK
  <2>4. loaded
    BY <2>3 DEF BuffersInv, TypeOK
  <2> QED
    BY <2>1, <2>2, <2>3, <2>4
<1>2. /\ memalloc_array' = [memalloc_array EXCEPT ![e] = [pg_base |-> b, user_base |-> NoAddress]]
      /\ used_memallocindex' = [used_memallocindex EXCEPT ![usedmemallocs] = e]
      /\ usedmemallocs' = usedmemallocs + 1 /\ held' = held \cup {b} /\ allocating' = {}
      /\ UNCHANGED <<loaded, opened, buf_id, free_memallocindex, mapped>>
  BY <1>1 DEF MemAllocPages, kernelVars
<1>3. e \in Entries /\ e = Place(usedmemallocs)
  <2>1. Top - usedmemallocs \in Entries
    BY <1>1
  <2>2. e \in Entries
    BY <2>1, <1>1 DEF TypeOK
  <2>3. ~ (usedmemallocs < usedmemallocs)
    BY <1>1
  <2> QED
    BY <2>2, <2>3 DEF Place
<1>4. /\ usedmemallocs \in Entries /\ used_memallocindex'[usedmemallocs] = e
      /\ \A i \in Entries \ {usedmemallocs} : used_memallocindex'[i] = used_memallocindex[i]
      /\ \A i \in Entries : Place(i)' = Place(i)
  <2>1. /\ usedmemallocs \in Entries /\ used_memallocindex'[usedmemallocs] = e
        /\ \A i \in Entries \ {usedmemallocs} : used_memallocindex'[i] = used_memallocindex[i]
    BY <1>1, <1>2 DEF TypeOK
  <2>2. ASSUME NEW i \in Entries PROVE Place(i)' = Place(i)
    <3>1. CASE i < usedmemallocs
      BY <3>1, <2>1, <1>1, <1>2 DEF Place
    <3>2. CASE i = usedmemallocs
      BY <3>2, <2>1, <1>1, <1>2 DEF Place
    <3>3. CASE i > usedmemallocs
      BY <3>3, <1>1, <1>2 DEF Place
    <3> QED
      BY <3>1, <3>2, <3>3, <1>1
  <2> QED
    BY <2>1, <2>2
<1>5. UsedEntries' = UsedEntries \cup {e}
  <2>1. UsedEntries' = {used_memallocindex'[i] : i \in 0 .. usedmemallocs}
    BY <1>1, <1>2 DEF UsedEntries
  <2>2. \A i \in 0 .. usedmemallocs - 1 : i \in Entries \ {usedmemallocs} /\ i \in 0 .. usedmemallocs
    BY <1>1
  <2>3. \A i \in 0 .. usedmemallocs : i \in 0 .. usedmemallocs - 1 \/ i = usedmemallocs
    BY <1>1
  <2>4. usedmemallocs \in 0 .. usedmemallocs
    BY <1>1
  <2> HIDE DEF Entries, e
  <2> QED
    BY <2>1, <2>2, <2>3, <2>4, <1>4 DEF UsedEntries
<1>6. e \notin UsedEntries
  <2> SUFFICES ASSUME NEW i \in 0 .. usedmemallocs - 1, e = used_memallocindex[i] PROVE FALSE
    BY DEF UsedEntries
  <2>1. i \in Entries /\ Place(i) = Place(usedmemallocs) /\ i # usedmemallocs
    BY <1>1, <1>3 DEF Place
  <2> QED
    BY <2>1, <1>1 DEF BuffersInv
<1>7. UsedEntries \subseteq Entries
  BY <1>1 DEF TypeOK, UsedEntries
<1>8. /\ memalloc_array'[e] = [pg_base |-> b, user_base |-> NoAddress]
      /\ \A k \in UsedEntries : memalloc_array'[k] = memalloc_array[k]
  BY <1>1, <1>2, <1>3, <1>6, <1>7 DEF TypeOK
<1>9. TypeOK'
  <2>1. memalloc_array' \in [Entries -> [pg_base : Blocks \cup {NoAddress},
                                         user_base : Addresses \cup {NoAddress}]]
    BY <1>1, <1>2, <1>3 DEF TypeOK
  <2>2. used_memallocindex' \in [Entries -> Entries]
    BY <1>1, <1>2, <1>3 DEF TypeOK
  <2>3. usedmemallocs' \in 0 .. MaxNumBuffers /\ held' \subseteq Blocks
    BY <1>1, <1>2 DEF TypeOK
  <2>4. astray' \in BOOLEAN
    BY <1>1 DEF MemAllocPages, TypeOK
  <2> HIDE DEF Entries
  <2> QED
    BY <2>1, <2>2, <2>3, <2>4, <1>1, <1>2 DEF TypeOK
<1>10. TableNamesHeld'
  <2>1. {memalloc_array'[k].pg_base : k \in UsedEntries'} = held'
    BY <1>1, <1>2, <1>5, <1>8 DEF TableNamesHeld
  <2>2. \A j, k \in UsedEntries' : memalloc_array'[j].pg_base = memalloc_array'[k].pg_base => j = k
    BY <1>1, <1>5, <1>8 DEF TableNamesHeld
  <2> QED
    BY <2>1, <2>2 DEF TableNamesHeld
<1>11. FreeFindsItsBuffer'
  BY <1>1, <1>2, <1>5, <1>8 DEF FreeFindsItsBuffer
<1> QED
  BY <1>1, <1>2, <1>4, <1>9, <1>10, <1>11 DEF BuffersInv

(* ASSOCIATEUSER writes the address to every entry it looks at that names  *)
(* the block; the only used one among them is the block's own, whichever   *)
(* entry it looks at last.                                                 *)
LEMMA AssociateStep ==
  ASSUME BuffersInv, ~ astray, NEW f \in Files, NEW b \in Blocks, NEW a \in Addresses, AssociateUser(f, b, a)
  PROVE  BuffersInv'
<1> USE BuffersAssumption DEF Entries, Top
<1>1. TypeOK /\ TableNamesHeld /\ FreeFindsItsBuffer /\ b \in held
  BY DEF BuffersInv, AssociateUser
<1>2. PICK last \in LastSearched :
           memalloc_array' =
             [k \in Entries |-> IF k \in UsedEntries \cup {last} /\ memalloc_array[k].pg_base = b
                                THEN [memalloc_array[k] EXCEPT !.user_base = a]
                                ELSE memalloc_array[k]]
  BY DEF AssociateUser
<1>10. /\ mapped' = [mapped EXCEPT ![b] = a] /\ astray' \in BOOLEAN
       /\ UNCHANGED <<loaded, opened, buf_id, allocating, free_memallocindex, used_memallocindex,
                     usedmemallocs, held>>
  BY DEF AssociateUser, kernelVars
<1>3. UsedEntries' = UsedEntries /\ UsedEntries \subseteq Entries
  BY <1>1, <1>2, <1>10 DEF TypeOK, UsedEntries
<1>4. \A i \in Entries : Place(i)' = Place(i)
  BY <1>10 DEF Place
<1>5. \A k \in Entries : /\ memalloc_array'[k].pg_base = memalloc_array[k].pg_base
                         /\ memalloc_array'[k].user_base \in Addresses \cup {NoAddress}
  BY <1>1, <1>2, <1>10 DEF TypeOK
<1>6. TypeOK'
  <2>1. memalloc_array' \in [Entries -> [pg_base : Blocks \cup {NoAddress},
                                         user_base : Addresses \cup {NoAddress}]]
    BY <1>1, <1>2, <1>10 DEF TypeOK
  <2>2. mapped' \in [Blocks -> Addresses \cup {NoAddress}]
    BY <1>1, <1>2, <1>10 DEF TypeOK
  <2> QED
    BY <2>1, <2>2, <1>1, <1>2, <1>10 DEF TypeOK
<1>7. TableNamesHeld'
  <2>1. {memalloc_array'[k].pg_base : k \in UsedEntries'} = held'
    BY <1>1, <1>2, <1>10, <1>3, <1>5 DEF TableNamesHeld
  <2>2. \A j, k \in UsedEntries' : memalloc_array'[j].pg_base = memalloc_array'[k].pg_base => j = k
    BY <1>1, <1>3, <1>5 DEF TableNamesHeld
  <2> QED
    BY <2>1, <2>2 DEF TableNamesHeld
<1>8. FreeFindsItsBuffer'
  <2> SUFFICES ASSUME NEW k \in UsedEntries
      PROVE memalloc_array'[k].user_base = mapped'[memalloc_array'[k].pg_base]
    BY <1>3 DEF FreeFindsItsBuffer
  <2>1. k \in Entries /\ memalloc_array[k].pg_base \in Blocks
    BY <1>1, <1>3 DEF TableNamesHeld, TypeOK
  <2>2. memalloc_array[k].user_base = mapped[memalloc_array[k].pg_base]
    BY <1>1 DEF FreeFindsItsBuffer
  <2>3. CASE memalloc_array[k].pg_base = b
    BY <2>1, <2>3, <1>1, <1>2, <1>10 DEF TypeOK
  <2>4. CASE memalloc_array[k].pg_base # b
    BY <2>1, <2>2, <2>4, <1>1, <1>2, <1>10 DEF TypeOK
  <2> QED
    BY <2>3, <2>4
<1>9. \A c \in Blocks \ held' : mapped'[c] = NoAddress
  BY <1>1, <1>2, <1>10 DEF BuffersInv, TypeOK
<1> QED
  BY <1>10, <1>4, <1>6, <1>7, <1>8, <1>9 DEF BuffersInv

(* A free swaps the freed entry with the last used one and moves the       *)
(* boundary between the stacks below it.                                   *)
LEMMA FreeStep ==
  ASSUME BuffersInv, ~ astray, ~ Sleeps, NEW f \in Files, NEW a \in Addresses \cup {NoAddress}, MemFree(f, a)
  PROVE  BuffersInv'
<1> USE BuffersAssumption DEF Entries, Top
<1> DEFINE n == usedmemallocs - 1
<1>1. TypeOK /\ TableNamesHeld /\ FreeFindsItsBuffer /\ f \in opened /\ allocating = {}
  BY DEF BuffersInv, MemFree, Runs
<1>2. PICK i \in 0 .. n :
        /\ held' = held \ {memalloc_array[used_memallocindex[i]].pg_base}
        /\ mapped' = [mapped EXCEPT ![memalloc_array[used_memallocindex[i]].pg_base] = NoAddress]
        /\ free_memallocindex' = [free_memallocindex EXCEPT ![Top - n] = used_memallocindex[i]]
        /\ used_memallocindex' = [used_memallocindex EXCEPT ![i] = used_memallocindex[n]]
  BY DEF MemFree
<1> DEFINE e == used_memallocindex[i]
<1> DEFINE block == memalloc_array[e].pg_base
<1>3. /\ usedmemallocs' = n
      /\ UNCHANGED <<loaded, opened, buf_id, allocating, memalloc_array>>
  BY DEF MemFree, kernelVars
<1>4. /\ n \in Entries /\ i \in Entries /\ usedmemallocs = n + 1 /\ Top - n \in Entries
      /\ MaxNumBuffers \in Nat
  BY <1>1 DEF TypeOK
<1>5. e \in Entries /\ e \in UsedEntries /\ UsedEntries \subseteq Entries
  <2>1. \A j \in 0 .. n : j \in Entries
    BY <1>4
  <2>2. UsedEntries = {used_memallocindex[j] : j \in 0 .. n}
    BY DEF UsedEntries
  <2> HIDE DEF Entries, n
  <2> QED
    BY <2>1, <2>2, <1>1 DEF TypeOK
<1>6. block \in held
  BY <1>1, <1>5 DEF TableNamesHeld
<1>7. \A j \in Entries : Place(j)' = IF j = n THEN Place(i) ELSE IF j = i THEN Place(n) ELSE Place(j)
  <2> SUFFICES ASSUME NEW j \in Entries
      PROVE Place(j)' = IF j = n THEN Place(i) ELSE IF j = i THEN Place(n) ELSE Place(j)
    OBVIOUS
  <2>1. Place(i) = e /\ Place(n) = used_memallocindex[n]
    BY <1>4 DEF Place
  <2>2. CASE j < n
    <3>1. used_memallocindex'[j] = IF j = i THEN used_memallocindex[n] ELSE used_memallocindex[j]
      BY <1>1, <1>2 DEF TypeOK
    <3>2. Place(j)' = used_memallocindex'[j] /\ Place(j) = used_memallocindex[j] /\ j # n
      BY <2>2, <1>3, <1>4 DEF Place
    <3> QED
      BY <3>1, <3>2, <2>1
  <2>3. CASE j = n
    <3>1. free_memallocindex'[Top - n] = e
      BY <1>1, <1>2, <1>4 DEF TypeOK
    <3>2. Place(j)' = free_memallocindex'[Top - n]
      BY <2>3, <1>3, <1>4 DEF Place
    <3> QED
      BY <3>1, <3>2, <2>1, <2>3
  <2>4. CASE j > n
    <3>1. Top - j \in Entries /\ Top - j # Top - n /\ j # n /\ j # i
      BY <2>4, <1>4
    <3>2. free_memallocindex'[Top - j] = free_memallocindex[Top - j]
      BY <3>1, <1>1, <1>2 DEF TypeOK
    <3>3. Place(j)' = free_memallocindex'[Top - j] /\ Place(j) = free_memallocindex[Top - j]
      BY <2>4, <1>3, <1>4 DEF Place
    <3> QED
      BY <3>1, <3>2, <3>3
  <2> QED
    BY <2>2, <2>3, <2>4, <1>4
<1>8. \A j, k \in Entries : Place(j)' = Place(k)' => j = k
  BY <1>4, <1>7 DEF BuffersInv
<1>9. UsedEntries' = UsedEntries \ {e}
  <2>1. ASSUME NEW j \in 0 .. n - 1
        PROVE  used_memallocindex'[j] = IF j = i THEN used_memallocindex[n] ELSE used_memallocindex[j]
    <3>1. j \in Entries
      BY <1>4
    <3> HIDE DEF Entries, n
    <3> QED
      BY <3>1, <1>1, <1>2 DEF TypeOK
  <2>2. \A j, k \in 0 .. n : used_memallocindex[j] = used_memallocindex[k] => j = k
    <3> SUFFICES ASSUME NEW j \in 0 .. n, NEW k \in 0 .. n, used_memallocindex[j] = used_memallocindex[k]
        PROVE j = k
      OBVIOUS
    <3>1. j \in Entries /\ k \in Entries /\ Place(j) = Place(k)
      BY <1>4 DEF Place
    <3> QED
      BY <3>1 DEF BuffersInv
  <2>3. UsedEntries = {used_memallocindex[j] : j \in 0 .. n}
        /\ UsedEntries' = {used_memallocindex'[j] : j \in 0 .. n - 1}
    BY <1>3 DEF UsedEntries
  <2>4. UsedEntries' \subseteq UsedEntries \ {e}
    BY <2>1, <2>2, <2>3, <1>4
  <2>5. UsedEntries \ {e} \subseteq UsedEntries'
    <3> SUFFICES ASSUME NEW j \in 0 .. n, used_memallocindex[j] # e
        PROVE \E k \in 0 .. n - 1 : used_memallocindex'[k] = used_memallocindex[j]
      BY <2>3
    <3>1. CASE j = n
      BY <3>1, <2>1, <1>4
    <3>2. CASE j # n
      BY <3>2, <2>1, <1>4
    <3> QED
      BY <3>1, <3>2
  <2> QED
    BY <2>4, <2>5
<1>10. TypeOK'
  <2>1. free_memallocindex' \in [Entries -> Entries] /\ used_memallocindex' \in [Entries -> Entries]
    BY <1>1, <1>2, <1>4, <1>5 DEF TypeOK
  <2>2. mapped' \in [Blocks -> Addresses \cup {NoAddress}]
    BY <1>1, <1>2 DEF TypeOK
  <2>3. usedmemallocs' \in 0 .. MaxNumBuffers /\ held' \subseteq Blocks
    BY <1>1, <1>2, <1>3, <1>4 DEF TypeOK
  <2>4. astray' \in BOOLEAN
    BY <1>1 DEF MemFree, TypeOK
  <2> HIDE DEF Entries, n
  <2> QED
    BY <2>1, <2>2, <2>3, <2>4, <1>1, <1>3 DEF TypeOK
<1>11. TableNamesHeld'
  <2>1. {memalloc_array[k].pg_base : k \in UsedEntries \ {e}} = held \ {block}
    BY <1>1, <1>5 DEF TableNamesHeld
  <2> QED
    BY <2>1, <1>1, <1>2, <1>3, <1>9 DEF TableNamesHeld
<1>12. FreeFindsItsBuffer'
  <2> SUFFICES ASSUME NEW k \in UsedEntries \ {e}
      PROVE memalloc_array[k].user_base = mapped'[memalloc_array[k].pg_base]
    BY <1>3, <1>9 DEF FreeFindsItsBuffer
  <2>1. memalloc_array[k].pg_base # block /\ memalloc_array[k].pg_base \in Blocks
    BY <1>1, <1>5 DEF TableNamesHeld, TypeOK
  <2> QED
    BY <2>1, <1>1, <1>2 DEF FreeFindsItsBuffer, TypeOK
<1>13. \A c \in Blocks \ held' : mapped'[c] = NoAddress
  BY <1>1, <1>2 DEF BuffersInv, TypeOK
<1> QED
  BY <1>1, <1>3, <1>8, <1>10, <1>11, <1>12, <1>13 DEF BuffersInv

(***************************************************************************)
(* When alloc_pages does not sleep, the driver's tables keep the inductive *)
(* invariant, for tables and numbers of processes of any size.             *)
(***************************************************************************)
THEOREM BuffersCorrect == ASSUME ~ Sleeps PROVE Spec => []BuffersInv
<1>1. BuffersInv /\ [Next]_vars => BuffersInv'
  <2> SUFFICES ASSUME BuffersInv, [Next]_vars PROVE BuffersInv'
    OBVIOUS
  <2>0. CASE astray
    <3>1. astray'
      BY <2>0 DEF Next, Ioctl, Open, Release, MemAlloc, MemAllocFails, MemAllocPages,
                  AssociateUser, MemFree, Exit, Load, Runs, vars
    <3> QED
      BY <3>1 DEF BuffersInv
  <2> SUFFICES ASSUME ~ astray PROVE BuffersInv'
    BY <2>0
  <2>1. ASSUME NEW f \in Files, Open(f) \/ Release(f) \/ Ioctl(f) PROVE BuffersInv'
    BY <2>1, QuietStep, ResetStep, AllocStep, AssociateStep, FreeStep DEF Ioctl
  <2>2. CASE Exit \/ Load \/ UNCHANGED vars
    <3>1. CASE Load
      BY <3>1, ResetStep
    <3>2. CASE Exit \/ UNCHANGED vars
      BY <3>2, QuietStep
    <3> QED
      BY <2>2, <3>1, <3>2
  <2> QED
    BY <2>1, <2>2 DEF Next
<1> QED
  BY <1>1, InitInv, PTL DEF Spec

(* Side by side the stacks hold as many places as there are entries, none  *)
(* of them twice: so they hold every entry.                                *)
LEMMA PlacesPartition == BuffersInv => StacksPartition
<1> SUFFICES ASSUME BuffersInv, ~ astray PROVE StacksPartition
  BY DEF StacksPartition
<1> USE BuffersAssumption DEF Entries, Top
<1> DEFINE u == usedmemallocs
<1> DEFINE F == [i \in Entries |-> Place(i)]
<1> DEFINE U == [i \in 0 .. u - 1 |-> used_memallocindex[i]]
<1> DEFINE G == [i \in 0 .. Top - u |-> free_memallocindex[i]]
<1>1. /\ u \in 0 .. MaxNumBuffers /\ MaxNumBuffers \in Nat
      /\ used_memallocindex \in [Entries -> Entries] /\ free_memallocindex \in [Entries -> Entries]
  BY DEF BuffersInv, TypeOK
<1>2. \A i, j \in Entries : Place(i) = Place(j) => i = j
  BY DEF BuffersInv
<1>3. \A i \in 0 .. u - 1 : i \in Entries /\ Place(i) = used_memallocindex[i]
  BY <1>1 DEF Place
<1>4. \A i \in 0 .. Top - u : i \in Entries /\ Top - i \in Entries /\ Place(Top - i) = free_memallocindex[i]
  BY <1>1 DEF Place
<1>5. \A i \in Entries : Place(i) \in UsedEntries \cup FreeEntries
  <2> SUFFICES ASSUME NEW i \in Entries PROVE Place(i) \in UsedEntries \cup FreeEntries
    OBVIOUS
  <2>1. CASE i < u
    BY <2>1, <1>1 DEF Place, UsedEntries
  <2>2. CASE ~ i < u
    <3>1. Top - i \in 0 .. Top - u
      BY <2>2, <1>1
    <3> QED
      BY <3>1, <2>2 DEF Place, FreeEntries
  <2> QED
    BY <2>1, <2>2
<1>6. UsedEntries \subseteq Entries /\ FreeEntries \subseteq Entries
  <2> HIDE DEF Entries, Top
  <2> QED
    BY <1>1, <1>3, <1>4 DEF UsedEntries, FreeEntries
<1>7. UsedEntries \cup FreeEntries = Entries
  <2>1. F \in [Entries -> Entries]
    BY <1>5, <1>6
  <2>2. F \in Injection(Entries, Entries)
    BY <2>1, <1>2, Fun_IsInj
  <2>3. IsFiniteSet(Entries)
    BY FS_Interval
  <2>4. F \in Surjection(Entries, Entries)
    BY <2>2, <2>3, FS_Injection
  <2>5. \A e \in Entries : \E i \in Entries : F[i] = e
    BY <2>4 DEF Surjection
  <2> QED
    BY <2>5, <1>5, <1>6
<1>8. Cardinality(UsedEntries) = u
  <2>1. U \in [0 .. u - 1 -> UsedEntries] /\ \A e \in UsedEntries : \E i \in 0 .. u - 1 : U[i] = e
    BY DEF UsedEntries
  <2>2. \A i, j \in 0 .. u - 1 : U[i] = U[j] => i = j
    BY <1>2, <1>3
  <2>3. U \in Bijection(0 .. u - 1, UsedEntries)
    BY <2>1, <2>2, Fun_IsBij
  <2>4. IsFiniteSet(0 .. u - 1) /\ Cardinality(0 .. u - 1) = u
    <3>1. 0 \in Int /\ u - 1 \in Int /\ (IF 0 > u - 1 THEN 0 ELSE u - 1 - 0 + 1) = u
      BY <1>1
    <3> HIDE DEF u
    <3> QED
      BY <3>1, FS_Interval
  <2> QED
    BY <2>3, <2>4, FS_Bijection DEF ExistsBijection
<1>9. Cardinality(FreeEntries) = MaxNumBuffers - u
  <2>1. G \in [0 .. Top - u -> FreeEntries] /\ \A e \in FreeEntries : \E i \in 0 .. Top - u : G[i] = e
    BY DEF FreeEntries
  <2>2. \A i, j \in 0 .. Top - u : G[i] = G[j] => i = j
    <3> SUFFICES ASSUME NEW i \in 0 .. Top - u, NEW j \in 0 .. Top - u, G[i] = G[j] PROVE i = j
      OBVIOUS
    <3>1. Top - i = Top - j
      BY <1>2, <1>4
    <3> QED
      BY <3>1, <1>1
  <2>3. G \in Bijection(0 .. Top - u, FreeEntries)
    BY <2>1, <2>2, Fun_IsBij
  <2>4. IsFiniteSet(0 .. Top - u) /\ Cardinality(0 .. Top - u) = MaxNumBuffers - u
    <3> DEFINE t == Top - u
    <3>1. 0 \in Int /\ t \in Int /\ (IF 0 > t THEN 0 ELSE t - 0 + 1) = MaxNumBuffers - u
      BY <1>1
    <3> HIDE DEF t
    <3>2. IsFiniteSet(0 .. t) /\ Cardinality(0 .. t) = MaxNumBuffers - u
      BY <3>1, FS_Interval
    <3> QED
      BY <3>2 DEF t
  <2> QED
    BY <2>3, <2>4, FS_Bijection DEF ExistsBijection
<1> QED
  BY <1>7, <1>8, <1>9 DEF StacksPartition

(* No entry of the table is used twice and none is lost, in any order of   *)
(* allocations, frees, closes and reloads.                                 *)
THEOREM StacksCorrect == ASSUME ~ Sleeps PROVE Spec => []StacksPartition
BY BuffersCorrect, PlacesPartition, PTL

(* The used entries name the blocks that the driver has, each once, and    *)
(* with the address where its process has it now: a free gives back the    *)
(* buffer that its caller means.                                           *)
THEOREM TableCorrect == ASSUME ~ Sleeps PROVE Spec => [](TableNamesHeld /\ FreeFindsItsBuffer)
<1>1. BuffersInv => TableNamesHeld /\ FreeFindsItsBuffer
  BY DEF BuffersInv, TableNamesHeld, FreeFindsItsBuffer
<1> QED
  BY <1>1, BuffersCorrect, PTL

(* Unloading the driver leaks no page, although d_exit's own loop frees    *)
(* none: every buffer went back when the device was closed.                *)
THEOREM UnloadCorrect == ASSUME ~ Sleeps PROVE Spec => []UnloadedHoldsNothing
<1>1. BuffersInv => UnloadedHoldsNothing
  <2> SUFFICES ASSUME BuffersInv, ~ astray, ~ loaded PROVE held = {}
    BY DEF UnloadedHoldsNothing
  <2>1. usedmemallocs = 0 /\ TableNamesHeld
    BY DEF BuffersInv
  <2>2. UsedEntries = {}
    BY <2>1 DEF UsedEntries
  <2> QED
    BY <2>1, <2>2 DEF TableNamesHeld
<1> QED
  BY <1>1, BuffersCorrect, PTL
==============================================================================
