-------------------------- MODULE MemAlloc_proofs ---------------------------
(***************************************************************************)
(* Proofs about the memory pool.  For pools and slot arrays of any size    *)
(* and for every order of calls, IInv of MemAlloc is inductive, and from   *)
(* it follow the disjointness of the blocks and the exactness of           *)
(* freemem().  For the programs of MemClients, whose calls are nested, the *)
(* pool main() asks for is shown to be enough, for every page size.        *)
(***************************************************************************)
EXTENDS MemClients, SequenceTheorems, TLAPS

(* Rounding up gives a natural number that is not smaller. *)
LEMMA RoundUpBound ==
  ASSUME NEW x \in Nat, NEW a \in Nat \ {0}
  PROVE  RoundUp(x, a) \in Nat /\ x <= RoundUp(x, a)
<1> DEFINE y == x + a - 1
<1>1. y \in Nat
  OBVIOUS
<1>2. y % a \in 0..(a - 1)
  BY <1>1
<1> QED BY <1>2 DEF RoundUp

(* The sizes getmem() can find an alignment for. *)
Placeable == {size \in Nat \ {0} : align_size(size) \in Nat \ {0}}

(* The sizes asked for by the arbitrary caller are among them ... *)
LEMMA SizesPlaceable ==
  ASSUME NEW size \in Sizes
  PROVE  size \in Placeable
<1>1. size \in Nat \ {0}
  BY MemAllocAssumption
<1>2. CASE size >= PageSize
  BY <1>1, <1>2, MemAllocAssumption DEF align_size, Placeable
<1>3. CASE ~(size >= PageSize)
  <2> DEFINE Least(a) == /\ size <= a
                         /\ \A b \in Alignments : size <= b => a <= b
  <2>1. size < PageSize
    BY <1>1, <1>3, MemAllocAssumption
  <2>2. \E a \in Alignments : Least(a)
    BY <2>1, MemAllocAssumption
  <2>3. (CHOOSE a \in Alignments : Least(a)) \in Alignments
    BY <2>2
  <2>4. align_size(size) = CHOOSE a \in Alignments : Least(a)
    BY <1>3 DEF align_size
  <2> QED BY <1>1, <2>3, <2>4, MemAllocAssumption DEF Placeable
<1> QED BY <1>2, <1>3

(* ... and with all powers of two to choose from every size is: its        *)
(* alignment is one of them.                                               *)
LEMMA AlignChosen ==
  ASSUME NEW size \in Nat \ {0}
  PROVE  align_size(size) \in Alignments /\ size \in Placeable
<1>1. CASE size >= PageSize
  BY <1>1, MemAllocAssumption DEF align_size, Placeable
<1>2. CASE ~(size >= PageSize)
  <2> DEFINE Least(a) == /\ size <= a
                         /\ \A b \in Alignments : size <= b => a <= b
  <2>1. size \in 1..PageSize
    BY <1>2, MemAllocAssumption
  <2>2. \E a \in Alignments : Least(a)
    BY <2>1, ClientAssumption
  <2>3. (CHOOSE a \in Alignments : Least(a)) \in Alignments
    BY <2>2
  <2>4. align_size(size) = CHOOSE a \in Alignments : Least(a)
    BY <1>2 DEF align_size
  <2> QED BY <2>3, <2>4, MemAllocAssumption DEF Placeable
<1> QED BY <1>1, <1>2

(* A new block is put behind every slot in use. *)
LEMMA OffsetBehind ==
  ASSUME TypeOK, Sorted, LastInUse, pc = "idle", NEW size \in Placeable
  PROVE  /\ Offset(size) \in Nat
         /\ \A n \in Used :
              /\ slots[n].addr + slots[n].size <= Offset(size)
              /\ slots[n].addr < Offset(size)
<1>1. CASE cur_slot = 0
  BY <1>1 DEF Offset, Used, TypeOK
<1>2. CASE cur_slot # 0
  <2> DEFINE l == cur_slot - 1
             e == slots[l].addr + slots[l].size
  <2>1. /\ cur_slot \in Nat /\ l \in Used /\ l \in 0..(nr_slots - 1)
        /\ slots[l].addr \in Nat /\ slots[l].size \in Nat
    BY <1>2 DEF TypeOK, Used, Slot
  <2>2. slots[l].size > 0
    BY <1>2, <2>1 DEF LastInUse
  <2>3. e \in Nat /\ slots[l].addr < e
    BY <2>1, <2>2
  <2>4. Offset(size) = RoundUp(e, align_size(size))
    BY <1>2 DEF Offset
  <2>5. Offset(size) \in Nat /\ e <= Offset(size)
    <3> HIDE DEF e
    <3> QED BY <2>3, <2>4, RoundUpBound DEF Placeable
  <2>6. ASSUME NEW n \in Used
        PROVE  /\ slots[n].addr + slots[n].size <= Offset(size)
               /\ slots[n].addr < Offset(size)
    <3>1. CASE n = l
      BY <3>1, <2>3, <2>5, <2>1
    <3>2. CASE n # l
      <4>1. n < l
        BY <3>2, <2>1 DEF Used
      <4>2. /\ slots[n].addr + slots[n].size <= slots[l].addr
            /\ slots[n].addr < slots[l].addr
        BY <4>1, <2>1 DEF Sorted
      <4>3. slots[n].addr \in Nat /\ slots[n].size \in Nat
        BY DEF TypeOK, Used, Slot
      <4> QED BY <4>2, <4>3, <2>1, <2>3, <2>5
    <3> QED BY <3>1, <3>2
  <2> QED BY <2>5, <2>6
<1> QED BY <1>1, <1>2

(* What the slots in use hold. *)
LEMMA SlotTypes ==
  ASSUME TypeOK, NEW n \in Used
  PROVE  /\ n \in 0..(nr_slots - 1) /\ n \in Nat
         /\ slots[n].addr \in Nat /\ slots[n].size \in Nat
         /\ slots[n] = [addr |-> slots[n].addr, size |-> slots[n].size]
BY DEF TypeOK, Used, Slot

-----------------------------------------------------------------------------
(* getmem() keeps the invariant: the new slot is the last one, behind all  *)
(* the others and inside the pool.                                         *)
LEMMA GetmemKeepsIInv ==
  ASSUME IInv, NEW size \in Placeable, getmem(size)
  PROVE  IInv'
<1> DEFINE b == [addr |-> Offset(size), size |-> size]
<1> USE DEF IInv
<1>1. /\ pc = "idle" /\ pc' = "idle"
      /\ cur_slot < nr_slots
      /\ slots' = [slots EXCEPT ![cur_slot] = b]
      /\ cur_slot' = cur_slot + 1
      /\ held' = held \union {b}
      /\ UNCHANGED <<pool_size, nr_slots, address, i, j>>
  BY DEF getmem, Fits, poolVars, searchVars
<1>2. size \in Nat /\ size > 0
  BY DEF Placeable
<1>3. /\ Offset(size) \in Nat
      /\ \A n \in Used : /\ slots[n].addr + slots[n].size <= Offset(size)
                          /\ slots[n].addr < Offset(size)
  BY <1>1, OffsetBehind
<1>4. Offset(size) + size <= pool_size
  BY <1>2, <1>3 DEF getmem, Fits, TypeOK
<1>5. b \in Slot /\ b.addr = Offset(size) /\ b.size = size
  BY <1>2, <1>3 DEF Slot
<1> HIDE DEF b
<1>6. TypeOK'
  BY <1>1, <1>5 DEF TypeOK
<1>7. /\ Used' = Used \union {cur_slot} /\ cur_slot \notin Used
      /\ slots'[cur_slot] = b
      /\ \A n \in Used : slots'[n] = slots[n] /\ n < cur_slot
  BY <1>1 DEF TypeOK, Used
<1>8. Sorted'
  <2> SUFFICES ASSUME NEW m \in Used', NEW n \in Used', m < n
               PROVE  /\ slots'[m].addr + slots'[m].size <= slots'[n].addr
                      /\ slots'[m].addr < slots'[n].addr
    BY DEF Sorted
  <2>1. m \in Used
    BY <1>7 DEF Used, TypeOK
  <2>2. CASE n \in Used
    BY <2>1, <2>2, <1>7 DEF Sorted
  <2>3. CASE n = cur_slot
    BY <2>1, <2>3, <1>3, <1>5, <1>7
  <2> QED BY <2>2, <2>3, <1>7
<1>9. InPool'
  BY <1>1, <1>4, <1>5, <1>7 DEF InPool
<1>10. LastInUse'
  BY <1>1, <1>2, <1>5, <1>7 DEF LastInUse, TypeOK
<1>11. HeldInv'
  <2>1. ASSUME NEW c \in held'
        PROVE  c.size > 0 /\ \E n \in Used' : slots'[n] = c
    <3>1. CASE c \in held
      <4>1. PICK n \in Used : slots[n] = c
        BY <3>1 DEF HeldInv
      <4> QED BY <3>1, <4>1, <1>7 DEF HeldInv
    <3>2. CASE c = b
      BY <3>2, <1>2, <1>5, <1>7
    <3> QED BY <3>1, <3>2, <1>1
  <2>2. ASSUME NEW n \in Used', slots'[n].size > 0
        PROVE  slots'[n] \in held'
    BY <2>2, <1>1, <1>7 DEF HeldInv
  <2> QED BY <2>1, <2>2, <1>1 DEF HeldInv
<1>12. SearchInv'
  BY <1>1 DEF SearchInv
<1> QED BY <1>6, <1>8, <1>9, <1>10, <1>11, <1>12

(* A call of freemem() keeps it: the whole array is the interval to search.*)
LEMMA FreememKeepsIInv ==
  ASSUME IInv, NEW a \in Nat, freemem(a)
  PROVE  IInv'
<1> USE DEF IInv
<1>1. /\ pc = "idle" /\ address' = a /\ a \in Nat
      /\ held' = {b \in held : b.addr # a}
      /\ UNCHANGED <<pool_size, nr_slots, slots, cur_slot>>
      /\ Used' = Used
  BY DEF freemem, poolVars, Used
<1>2. CASE cur_slot = 0 /\ UNCHANGED <<pc, i, j>>
  <2>1. Used = {} /\ held = {}
    BY <1>2 DEF Used, HeldInv
  <2> QED
    BY <1>1, <1>2, <2>1
    DEF TypeOK, Sorted, InPool, LastInUse, HeldInv, SearchInv
<1>3. CASE cur_slot > 0 /\ i' = 0 /\ j' = cur_slot - 1 /\ pc' = "search"
  <2>1. TypeOK'
    BY <1>1, <1>3 DEF TypeOK, Used
  <2>2. Sorted' /\ InPool' /\ LastInUse'
    BY <1>1, <1>3 DEF Sorted, InPool, LastInUse
  <2>3. HeldInv'
    BY <1>1, <1>3 DEF HeldInv
  <2>4. SearchInv'
    BY <1>1, <1>3 DEF SearchInv, Used, TypeOK
  <2> QED BY <2>1, <2>2, <2>3, <2>4
<1> QED BY <1>2, <1>3 DEF freemem

(* The middle of the interval lies in it, and before its end if there is   *)
(* more than one slot in it.                                               *)
LEMMA MiddleInside ==
  ASSUME TypeOK, pc = "search"
  PROVE  /\ k \in Used /\ i \in Used /\ j \in Used
         /\ i <= k /\ k <= j
         /\ i < j => k < j
         /\ i = k => j <= i + 1
BY DEF TypeOK, Used, k

(* Freeing a slot that has the address looked for keeps the invariant: it  *)
(* is the only one, since the slots are sorted, and the caller has given   *)
(* the block up already.                                                   *)
LEMMA FreeSlotKeepsIInv ==
  ASSUME IInv, pc = "search", NEW f \in Used, slots[f].addr = address,
         free_slot(f),
         UNCHANGED <<pool_size, nr_slots, cur_slot, address, i, j, held>>
  PROVE  IInv'
<1> USE DEF IInv
<1>1. /\ slots' = [slots EXCEPT ![f].size = 0]
      /\ pc' \in {"idle", "pop"}
      /\ f = cur_slot - 1 <=> pc' = "pop"
      /\ Used' = Used
  BY DEF free_slot, Used
<1>2. /\ slots'[f].addr = slots[f].addr /\ slots'[f].size = 0
      /\ \A n \in Used : n # f => slots'[n] = slots[n]
      /\ \A n \in Used : slots'[n].addr = slots[n].addr
      /\ \A n \in Used : slots'[n].size <= slots[n].size
      /\ \A n \in Used : slots'[n].size \in Nat
  <2>1. f \in 0..(nr_slots - 1) /\ slots[f].size \in Nat
    BY SlotTypes
  <2>2. \A n \in Used : n \in 0..(nr_slots - 1) /\ slots[n].size \in Nat
    BY SlotTypes
  <2> QED BY <1>1, <2>1, <2>2, SMTT(30) DEF TypeOK, Slot
<1>3. TypeOK'
  <2>1. f \in 0..(nr_slots - 1) /\ slots[f] \in Slot
    BY SlotTypes DEF TypeOK
  <2>2. slots' \in [0..(nr_slots - 1) -> Slot]
    BY <1>1, <2>1 DEF TypeOK, Slot
  <2> QED BY <1>1, <2>2 DEF TypeOK
<1>4. Sorted'
  <2> SUFFICES ASSUME NEW m \in Used, NEW n \in Used, m < n
               PROVE  /\ slots'[m].addr + slots'[m].size <= slots'[n].addr
                      /\ slots'[m].addr < slots'[n].addr
    BY <1>1 DEF Sorted
  <2>1. /\ slots[m].addr + slots[m].size <= slots[n].addr
        /\ slots[m].addr < slots[n].addr
    BY DEF Sorted
  <2>2. /\ slots[m].addr \in Nat /\ slots[m].size \in Nat
        /\ slots'[m].size \in Nat /\ slots[n].addr \in Nat
    BY <1>2, SlotTypes, Zenon
  <2> QED BY <2>1, <2>2, <1>2
<1>5. InPool'
  <2> SUFFICES ASSUME NEW n \in Used
               PROVE  slots'[n].addr + slots'[n].size <= pool_size
    BY <1>1 DEF InPool
  <2>1. /\ slots[n].addr \in Nat /\ slots[n].size \in Nat
        /\ slots'[n].size \in Nat
    BY <1>2, SlotTypes, Zenon
  <2> QED BY <2>1, <1>2, SMTT(20) DEF InPool, TypeOK
<1>6. LastInUse'
  <2> SUFFICES ASSUME pc' # "pop", cur_slot > 0
               PROVE  slots'[cur_slot - 1].size > 0
    BY DEF LastInUse
  <2>1. cur_slot - 1 \in Used /\ cur_slot - 1 # f
    BY <1>1 DEF TypeOK, Used
  <2> QED BY <2>1, <1>2 DEF LastInUse
<1>7. HeldInv'
  <2>1. ASSUME NEW b \in held
        PROVE  b.size > 0 /\ \E n \in Used : slots'[n] = b
    <3>1. PICK n \in Used : slots[n] = b
      BY DEF HeldInv
    <3>2. n # f
      BY <3>1 DEF HeldInv
    <3> QED BY <3>1, <3>2, <1>2 DEF HeldInv
  <2>2. ASSUME NEW n \in Used, slots'[n].size > 0
        PROVE  slots'[n] \in held
    <3>1. n # f /\ slots'[n] = slots[n]
      BY <2>2, <1>2
    <3>2. slots[n].addr # slots[f].addr
      <4>1. n \in Nat /\ f \in Nat /\ slots[n].addr \in Nat
            /\ slots[f].addr \in Nat
        BY SlotTypes
      <4>2. n < f \/ f < n
        BY <3>1, <4>1
      <4> QED BY <4>1, <4>2 DEF Sorted
    <3> QED BY <2>2, <3>1, <3>2 DEF HeldInv
  <2> QED BY <2>1, <2>2, <1>1 DEF HeldInv
<1>8. SearchInv'
  BY <1>1 DEF SearchInv
<1> QED BY <1>3, <1>4, <1>5, <1>6, <1>7, <1>8

(* Giving up the search keeps the invariant if no slot has the address. *)
LEMMA GiveUpKeepsIInv ==
  ASSUME IInv, pc = "search", pc' = "idle",
         \A n \in Used : slots[n].addr # address,
         i' \in Nat, j' \in Nat,
         UNCHANGED <<pool_size, nr_slots, slots, cur_slot, address, held>>
  PROVE  IInv'
<1>1. Used' = Used
  BY DEF Used
<1>2. TypeOK'
  BY DEF IInv, TypeOK
<1>3. Sorted' /\ InPool' /\ LastInUse' /\ SearchInv'
  BY <1>1 DEF IInv, Sorted, InPool, LastInUse, SearchInv
<1>4. HeldInv'
  BY <1>1 DEF IInv, HeldInv
<1> QED BY <1>2, <1>3, <1>4 DEF IInv

(* Going on in a smaller interval keeps it if every slot with the address  *)
(* is in that one.                                                         *)
LEMMA NarrowKeepsIInv ==
  ASSUME IInv, pc = "search", pc' = "search",
         i' \in Used, j' \in Used, i' <= j',
         \A n \in Used : slots[n].addr = address => i' <= n /\ n <= j',
         UNCHANGED <<pool_size, nr_slots, slots, cur_slot, address, held>>
  PROVE  IInv'
<1>1. Used' = Used
  BY DEF Used
<1>2. TypeOK'
  BY <1>1 DEF IInv, TypeOK, Used
<1>3. Sorted' /\ InPool' /\ LastInUse' /\ SearchInv'
  BY <1>1 DEF IInv, Sorted, InPool, LastInUse, SearchInv
<1>4. HeldInv'
  BY <1>1 DEF IInv, HeldInv
<1> QED BY <1>2, <1>3, <1>4 DEF IInv

-----------------------------------------------------------------------------
(* Every turn of the loop of freemem() keeps the invariant.  Since the     *)
(* slots are sorted, a slot with the address looked for is on the side of  *)
(* the middle on which the search goes on.                                 *)
(* First, the turn that finds the slot in the middle.                      *)
LEMMA FoundKeepsIInv ==
  ASSUME IInv, found
  PROVE  IInv'
<1>1. k \in Used
  BY MiddleInside DEF IInv, found
<1> QED BY <1>1, FreeSlotKeepsIInv DEF found, poolVars, searchVars

(* The turn that goes on above the middle: the interval is never empty.    *)
LEMMA UpperHalfKeepsIInv ==
  ASSUME IInv, upper_half
  PROVE  IInv'
<1>1. /\ pc = "search" /\ address > slots[k].addr
      /\ i # k /\ i' = k /\ j' = j
      /\ pc' = IF k < j THEN "search" ELSE "idle"
      /\ UNCHANGED <<pool_size, nr_slots, slots, cur_slot, address, held>>
  BY DEF upper_half, poolVars
<1>2. /\ k \in Used /\ i \in Used /\ j \in Used
      /\ i <= k /\ k <= j /\ (i < j => k < j)
  BY <1>1, MiddleInside DEF IInv
<1>3. k < j
  BY <1>1, <1>2 DEF Used
<1>4. ASSUME NEW n \in Used, slots[n].addr = address
      PROVE  k <= n /\ n <= j
  <2>1. n <= j
    BY <1>1, <1>4 DEF IInv, SearchInv
  <2>2. /\ n \in Nat /\ k \in Nat
        /\ slots[n].addr \in Nat /\ slots[k].addr \in Nat
    BY <1>2, SlotTypes, Zenon DEF IInv
  <2>3. ~(n < k)
    BY <1>1, <1>2, <1>4, <2>2 DEF IInv, Sorted
  <2> QED BY <2>1, <2>2, <2>3
<1> HIDE DEF k
<1> QED BY <1>1, <1>2, <1>3, <1>4, NarrowKeepsIInv

(* The turn that goes on below the middle, or ends: then the middle was    *)
(* the lowest slot of the interval, and no slot has the address.           *)
LEMMA LowerHalfKeepsIInv ==
  ASSUME IInv, lower_half
  PROVE  IInv'
<1>1. /\ pc = "search" /\ address < slots[k].addr
      /\ i' = i /\ j' = k
      /\ pc' = IF i < k THEN "search" ELSE "idle"
      /\ UNCHANGED <<pool_size, nr_slots, slots, cur_slot, address, held>>
  BY DEF lower_half, poolVars
<1>2. k \in Used /\ i \in Used /\ i <= k /\ k \in Nat /\ i \in Nat
  BY <1>1, MiddleInside DEF IInv, Used
<1>3. ASSUME NEW n \in Used, slots[n].addr = address
      PROVE  i <= n /\ n < k
  <2>1. i <= n
    BY <1>1, <1>3 DEF IInv, SearchInv
  <2>2. /\ n \in Nat
        /\ slots[n].addr \in Nat /\ slots[k].addr \in Nat
    BY <1>2, SlotTypes, Zenon DEF IInv
  <2>3. n # k /\ ~(k < n)
    BY <1>1, <1>2, <1>3, <2>2 DEF IInv, Sorted
  <2> QED BY <2>1, <2>2, <2>3, <1>2
<1>4. CASE i < k
  <2>1. \A n \in Used : slots[n].addr = address => i' <= n /\ n <= j'
    BY <1>1, <1>2, <1>3 DEF Used
  <2> QED BY <1>1, <1>2, <1>4, <2>1, NarrowKeepsIInv
<1>5. CASE ~(i < k)
  <2>1. \A n \in Used : slots[n].addr # address
    BY <1>2, <1>3, <1>5 DEF Used
  <2> QED BY <1>1, <1>2, <1>5, <2>1, GiveUpKeepsIInv
<1> QED BY <1>4, <1>5

(* The last turn: the interval has at most two slots, and both have been   *)
(* looked at when the search ends.                                         *)
LEMMA LastLookKeepsIInv ==
  ASSUME IInv, last_look
  PROVE  IInv'
<1>1. /\ pc = "search" /\ address > slots[k].addr /\ i = k
      /\ UNCHANGED <<pool_size, nr_slots, cur_slot, address, i, j, held>>
  BY DEF last_look, poolVars, searchVars
<1>2. /\ k \in Used /\ j \in Used /\ k \in Nat /\ j \in Nat
      /\ k <= j /\ j <= k + 1
  BY <1>1, MiddleInside DEF IInv, Used
<1>3. CASE slots[j].addr = address /\ free_slot(j)
  BY <1>1, <1>2, <1>3, FreeSlotKeepsIInv
<1>4. CASE slots[j].addr # address /\ pc' = "idle" /\ UNCHANGED slots
  <2>1. ASSUME NEW n \in Used, slots[n].addr = address
        PROVE  FALSE
    <3>1. k <= n /\ n <= j /\ n \in Nat
      BY <1>1, <2>1 DEF IInv, SearchInv, Used
    <3>2. n = k \/ n = j
      BY <3>1, <1>2
    <3>3. slots[k].addr \in Nat
      BY <1>2, SlotTypes, Zenon DEF IInv
    <3> QED BY <3>2, <3>3, <1>1, <1>4, <2>1
  <2>2. i' \in Nat /\ j' \in Nat
    BY <1>1, <1>2
  <2> QED BY <1>1, <1>4, <2>1, <2>2, GiveUpKeepsIInv
<1> QED BY <1>3, <1>4 DEF last_look

(* So does the removal of free slots from the end of the array. *)
LEMMA PopKeepsIInv ==
  ASSUME IInv, pop
  PROVE  IInv'
<1>1. /\ pc = "pop"
      /\ UNCHANGED <<pool_size, nr_slots, slots, address, i, j, held>>
  BY DEF pop, poolVars, searchVars
<1>2. CASE /\ cur_slot > 0 /\ slots[cur_slot - 1].size = 0
           /\ cur_slot' = cur_slot - 1 /\ UNCHANGED pc
  <2>1. Used' \subseteq Used /\ Used = Used' \union {cur_slot - 1}
    BY <1>2 DEF IInv, TypeOK, Used
  <2>2. TypeOK'
    BY <1>1, <1>2 DEF IInv, TypeOK
  <2>3. Sorted' /\ InPool' /\ LastInUse' /\ SearchInv'
    BY <1>1, <1>2, <2>1
    DEF IInv, Sorted, InPool, LastInUse, SearchInv
  <2>4. HeldInv'
    <3>1. ASSUME NEW b \in held
          PROVE  b.size > 0 /\ \E n \in Used' : slots[n] = b
      <4>1. PICK n \in Used : slots[n] = b
        BY DEF IInv, HeldInv
      <4>2. b.size > 0
        BY DEF IInv, HeldInv
      <4>3. n # cur_slot - 1
        BY <1>2, <4>1, <4>2
      <4> QED BY <2>1, <4>1, <4>2, <4>3
    <3>2. ASSUME NEW n \in Used', slots[n].size > 0
          PROVE  slots[n] \in held
      BY <1>1, <2>1, <3>2 DEF IInv, HeldInv
    <3> QED BY <1>1, <1>2, <3>1, <3>2 DEF HeldInv
  <2> QED BY <2>2, <2>3, <2>4 DEF IInv
<1>3. CASE /\ ~(cur_slot > 0 /\ slots[cur_slot - 1].size = 0)
           /\ pc' = "idle" /\ UNCHANGED cur_slot
  <2>1. Used' = Used
    BY <1>3 DEF Used
  <2>2. TypeOK'
    BY <1>1, <1>3 DEF IInv, TypeOK
  <2>3. Sorted' /\ InPool' /\ SearchInv'
    BY <1>1, <1>3, <2>1 DEF IInv, Sorted, InPool, SearchInv
  <2>4. LastInUse'
    <3> SUFFICES ASSUME cur_slot > 0
                 PROVE  slots[cur_slot - 1].size > 0
      BY <1>1, <1>3 DEF LastInUse
    <3>1. cur_slot - 1 \in Used
      BY DEF IInv, TypeOK, Used
    <3>2. slots[cur_slot - 1].size \in Nat
      BY <3>1, SlotTypes, Zenon DEF IInv
    <3> QED BY <1>3, <3>2
  <2>5. HeldInv'
    BY <1>1, <1>3, <2>1 DEF IInv, HeldInv
  <2> QED BY <2>2, <2>3, <2>4, <2>5 DEF IInv
<1> QED BY <1>2, <1>3 DEF pop

-----------------------------------------------------------------------------
(* init_memalloc() establishes the invariant. *)
LEMMA InitIInv == MemInit => IInv
<1> SUFFICES ASSUME MemInit PROVE IInv
  OBVIOUS
<1>1. Used = {}
  BY DEF MemInit, Used
<1>2. TypeOK
  BY DEF MemInit, TypeOK, Slot
<1> QED
  BY <1>1, <1>2
  DEF MemInit, IInv, Sorted, InPool, LastInUse, HeldInv, SearchInv

(* Steps that change nothing change no part of the invariant. *)
LEMMA StutterKeepsIInv ==
  ASSUME IInv, UNCHANGED memVars
  PROVE  IInv'
BY DEF memVars, IInv, TypeOK, Used, Sorted, InPool, LastInUse, HeldInv,
       SearchInv

(* The rest of freemem() keeps the invariant, whichever turn it takes. *)
LEMMA LoopKeepsIInv ==
  ASSUME IInv, freemem_loop
  PROVE  IInv'
<1>1. CASE found
  BY <1>1, FoundKeepsIInv
<1>2. CASE upper_half
  BY <1>2, UpperHalfKeepsIInv
<1>3. CASE last_look
  BY <1>3, LastLookKeepsIInv
<1>4. CASE lower_half
  BY <1>4, LowerHalfKeepsIInv
<1>5. CASE pop
  BY <1>5, PopKeepsIInv
<1> QED BY <1>1, <1>2, <1>3, <1>4, <1>5 DEF freemem_loop

(* For every pool, every slot array and every order of calls of getmem()   *)
(* and freemem(), whatever the addresses passed: the array of memalloc.c   *)
(* stays sorted, without overlap and inside the pool, its last slot is in  *)
(* use, and the binary search of freemem() keeps the block in its interval.*)
THEOREM Inductive == MemSpec => []IInv
<1>1. MemInit => IInv
  BY InitIInv
<1>2. IInv /\ [MemNext]_memVars => IInv'
  <2> SUFFICES ASSUME IInv, [MemNext]_memVars PROVE IInv'
    OBVIOUS
  <2>1. ASSUME NEW size \in Sizes, getmem(size) PROVE IInv'
    BY <2>1, SizesPlaceable, GetmemKeepsIInv
  <2>2. ASSUME NEW size \in Sizes, getmem_NULL(size) PROVE IInv'
    BY <2>2, StutterKeepsIInv DEF getmem_NULL
  <2>3. ASSUME NEW a \in Addrs, freemem(a) PROVE IInv'
    BY <2>3, MemAllocAssumption, FreememKeepsIInv
  <2>4. CASE freemem_loop
    BY <2>4, LoopKeepsIInv
  <2>5. CASE UNCHANGED memVars
    BY <2>5, StutterKeepsIInv
  <2> QED BY <2>1, <2>2, <2>3, <2>4, <2>5 DEF MemNext
<1> QED BY <1>1, <1>2, PTL DEF MemSpec

(* Sorted slots inside the pool are disjoint blocks. *)
LEMMA IInvDisjoint == IInv => NoOverlap
<1> SUFFICES ASSUME IInv PROVE NoOverlap
  OBVIOUS
<1>1. ASSUME NEW b \in held PROVE b.addr + b.size <= pool_size
  <2>1. PICK n \in Used : slots[n] = b
    BY DEF IInv, HeldInv
  <2> QED BY <2>1 DEF IInv, InPool
<1>2. ASSUME NEW b \in held, NEW c \in held, b # c
      PROVE  b.addr + b.size <= c.addr \/ c.addr + c.size <= b.addr
  <2>1. PICK m \in Used : slots[m] = b
    BY DEF IInv, HeldInv
  <2>2. PICK n \in Used : slots[n] = c
    BY DEF IInv, HeldInv
  <2>3. m < n \/ n < m
    BY <1>2, <2>1, <2>2 DEF Used, IInv, TypeOK
  <2> QED BY <2>1, <2>2, <2>3 DEF IInv, Sorted
<1> QED BY <1>1, <1>2 DEF NoOverlap

(* No two blocks handed out by getmem() share a byte, and none reaches     *)
(* past the end of the pool.                                               *)
THEOREM BlocksDisjoint == MemSpec => []NoOverlap
BY IInvDisjoint, Inductive, PTL

(* Between two calls the slots in use are the blocks held. *)
LEMMA IInvExact == IInv => FreedExactly
<1> SUFFICES ASSUME IInv, pc = "idle"
             PROVE  held = {slots[n] : n \in {m \in Used : slots[m].size > 0}}
  BY DEF FreedExactly
<1>1. ASSUME NEW b \in held
      PROVE  \E n \in {m \in Used : slots[m].size > 0} : b = slots[n]
  BY DEF IInv, HeldInv
<1>2. ASSUME NEW n \in Used, slots[n].size > 0
      PROVE  slots[n] \in held
  BY <1>2 DEF IInv, HeldInv
<1> QED BY <1>1, <1>2

(* Whenever freemem() has returned, the slots in use are exactly the       *)
(* blocks the callers hold: it has freed the block it was given, if there  *)
(* is one at that address, and nothing else.                               *)
THEOREM FreesExactly == MemSpec => []FreedExactly
BY IInvExact, Inductive, PTL

(* The last slot is in use, so no block held means no slot at all. *)
LEMMA IInvEmpty == IInv => EmptyAgain
<1> SUFFICES ASSUME IInv, pc = "idle", held = {}, cur_slot # 0
             PROVE  FALSE
  BY DEF EmptyAgain
<1>1. cur_slot > 0 /\ cur_slot - 1 \in Used
  BY DEF IInv, TypeOK, Used
<1>2. slots[cur_slot - 1].size > 0
  BY <1>1 DEF IInv, LastInUse
<1> QED BY <1>1, <1>2 DEF IInv, HeldInv

(* When every block has been given back, no slot is in use: the pool is    *)
(* whole again, in whatever order the blocks came back.                    *)
THEOREM NothingLeaks == MemSpec => []EmptyAgain
BY IInvEmpty, Inductive, PTL

-----------------------------------------------------------------------------
(* Rounding up gives a multiple: what is taken off is the remainder. *)
LEMMA RoundUpMultiple ==
  ASSUME NEW x \in Nat, NEW a \in Nat \ {0}
  PROVE  RoundUp(x, a) % a = 0
<1> DEFINE y == x + a - 1
           q == y \div a
           r == y % a
<1>1. y \in Nat
  OBVIOUS
<1>2. q \in Int /\ r \in 0..(a - 1) /\ y = a * q + r
  BY <1>1
<1>3. RoundUp(x, a) = a * q
  <2>1. RoundUp(x, a) = x + a - 1 - r
    BY Zenon DEF RoundUp
  <2>2. y = x + a - 1
    OBVIOUS
  <2> HIDE DEF y, q, r
  <2> QED BY <1>1, <1>2, <2>1, <2>2
<1> HIDE DEF y, q, r
<1>4. (a * q) % a = 0
  BY <1>2
<1> QED BY <1>3, <1>4

(* Each block begins at a multiple of its alignment. *)
AlignedInv ==
  \A b \in held : b.size \in Placeable /\ b.addr % align_size(b.size) = 0

(* A new block is aligned: it is the first one, at the beginning of the    *)
(* pool, or put at the next multiple behind the last slot.                 *)
LEMMA OffsetAligned ==
  ASSUME TypeOK, NEW size \in Placeable
  PROVE  Offset(size) % align_size(size) = 0
<1> DEFINE a == align_size(size)
<1>1. a \in Nat \ {0}
  BY DEF Placeable
<1> HIDE DEF a
<1>2. CASE cur_slot = 0
  <2>1. Offset(size) = 0
    BY <1>2 DEF Offset
  <2>2. 0 % a = 0
    BY <1>1
  <2> QED BY <2>1, <2>2 DEF a
<1>3. CASE cur_slot # 0
  <2> DEFINE e == slots[cur_slot - 1].addr + slots[cur_slot - 1].size
  <2>1. cur_slot - 1 \in Used
    BY <1>3 DEF TypeOK, Used
  <2>2. slots[cur_slot - 1].addr \in Nat /\ slots[cur_slot - 1].size \in Nat
    BY <2>1, SlotTypes, Zenon
  <2>3. e \in Nat
    BY <2>2
  <2>4. Offset(size) = RoundUp(e, a)
    BY <1>3 DEF Offset, a
  <2> HIDE DEF e
  <2> QED BY <1>1, <2>3, <2>4, RoundUpMultiple DEF a
<1> QED BY <1>2, <1>3

(* getmem() hands out an aligned block and leaves the others where they    *)
(* are ...                                                                 *)
LEMMA GetmemKeepsAligned ==
  ASSUME TypeOK, AlignedInv, NEW size \in Placeable, getmem(size)
  PROVE  AlignedInv'
<1> DEFINE new == [addr |-> Offset(size), size |-> size]
<1>1. held' = held \union {new}
  BY DEF getmem
<1>2. new.size = size /\ new.addr = Offset(size)
  OBVIOUS
<1>3. Offset(size) % align_size(size) = 0
  BY OffsetAligned
<1> HIDE DEF new
<1>4. ASSUME NEW b \in held'
      PROVE  b.size \in Placeable /\ b.addr % align_size(b.size) = 0
  <2>1. CASE b = new
    BY <1>2, <1>3, <2>1
  <2>2. CASE b \in held
    BY <2>2 DEF AlignedInv
  <2> QED BY <1>1, <1>4, <2>1, <2>2
<1> QED BY <1>4 DEF AlignedInv, align_size, Placeable

(* ... and no other step adds a block. *)
LEMMA OthersKeepAligned ==
  ASSUME AlignedInv,
         \/ \E a \in Nat : freemem(a)
         \/ freemem_loop
         \/ UNCHANGED memVars
  PROVE  AlignedInv'
<1>1. ASSUME held' \subseteq held PROVE AlignedInv'
  BY <1>1 DEF AlignedInv, align_size, Placeable
<1>2. CASE \E a \in Nat : freemem(a)
  BY <1>1, <1>2 DEF freemem
<1>3. CASE freemem_loop
  BY <1>1, <1>3
  DEF freemem_loop, found, upper_half, last_look, lower_half, pop
<1>4. CASE UNCHANGED memVars
  BY <1>1, <1>4 DEF memVars
<1> QED BY <1>2, <1>3, <1>4

(* Every block getmem() hands out is aligned the way its comment says, to  *)
(* the power of two that holds it or to a page: no step moves a block, and *)
(* a new one is put at a multiple.                                         *)
THEOREM BlocksAligned == MemSpec => []Aligned
<1>1. MemInit => AlignedInv
  BY DEF MemInit, AlignedInv
<1>2. IInv /\ AlignedInv /\ [MemNext]_memVars => AlignedInv'
  <2> SUFFICES ASSUME IInv, AlignedInv, [MemNext]_memVars
               PROVE  AlignedInv'
    OBVIOUS
  <2>1. ASSUME NEW size \in Sizes, getmem(size) PROVE AlignedInv'
    BY <2>1, SizesPlaceable, GetmemKeepsAligned DEF IInv
  <2>2. ASSUME NEW size \in Sizes, getmem_NULL(size) PROVE AlignedInv'
    BY <2>2, OthersKeepAligned DEF getmem_NULL
  <2>3. ASSUME NEW a \in Addrs, freemem(a) PROVE AlignedInv'
    BY <2>3, MemAllocAssumption, OthersKeepAligned
  <2>4. CASE freemem_loop \/ UNCHANGED memVars
    BY <2>4, OthersKeepAligned
  <2> QED BY <2>1, <2>2, <2>3, <2>4 DEF MemNext
<1>3. AlignedInv => Aligned
  BY DEF AlignedInv, Aligned
<1> QED BY <1>1, <1>2, <1>3, Inductive, PTL DEF MemSpec

-----------------------------------------------------------------------------
(* The programs give back what they got in the reverse order.  What such a *)
(* program holds is a stack of blocks, each with the object it was got for *)
(* and where it is.                                                        *)
Objects ==
  {"header", "extents", "buffer", "encrypt_buffer", "decrypt_buffer",
   "lzo_work_buffer", "write_buffer", "read_buffer",
   "key_buf", "ivec_buf", "out"}
Block == [obj : Objects, addr : Nat, size : Nat \ {0}]
Stacks == Seq(Block)
Calls == [op : {"get", "free"}, obj : Objects, size : Nat]

(* Where the last block of a stack ends, where getmem() puts the next one, *)
(* and the stack with it.                                                  *)
EndOf(A) == IF Len(A) = 0 THEN 0 ELSE A[Len(A)].addr + A[Len(A)].size
Place(A, size) ==
  IF Len(A) = 0 THEN 0 ELSE RoundUp(EndOf(A), align_size(size))
Pushed(A, obj, size) ==
  Append(A, [obj |-> obj, addr |-> Place(A, size), size |-> size])
NotIn(obj, A) == \A n \in 1..Len(A) : A[n].obj # obj

(* The call c leads from the stack A to B in a pool of P bytes with N      *)
(* slots: it gets memory for an object that has none, and there is room    *)
(* for it, or it gives back the last block.                                *)
CallStep(c, A, B, P, N) ==
  \/ /\ c.op = "get"
     /\ c.size > 0
     /\ NotIn(c.obj, A)
     /\ Len(A) < N
     /\ Place(A, c.size) + c.size <= P
     /\ B = Pushed(A, c.obj, c.size)
  \/ /\ c.op = "free"
     /\ \E x \in Block : x.obj = c.obj /\ A = Append(B, x)

(* The calls of s, one after another, lead from the stack A to B. *)
Runs(s, A, B, P, N) ==
  /\ s \in Seq(Calls)
  /\ \E h \in [1..(Len(s) + 1) -> Stacks] :
       /\ h[1] = A
       /\ h[Len(s) + 1] = B
       /\ \A n \in 1..Len(s) : CallStep(s[n], h[n], h[n + 1], P, N)

(* No call leads nowhere. *)
LEMMA RunsNothing ==
  ASSUME NEW A \in Stacks, NEW P, NEW N
  PROVE  Runs(<<>>, A, A, P, N)
<1> DEFINE h == [n \in 1..1 |-> A]
<1>1. <<>> \in Seq(Calls) /\ Len(<<>>) = 0
  BY EmptySeq
<1>2. h \in [1..(Len(<<>>) + 1) -> Stacks] /\ h[1] = A
      /\ h[Len(<<>>) + 1] = A
  BY <1>1
<1>3. 1..Len(<<>>) = {}
  BY <1>1
<1> HIDE DEF h
<1> QED BY <1>1, <1>2, <1>3, Zenon DEF Runs

(* A single call leads where it leads. *)
LEMMA RunsCall ==
  ASSUME NEW c \in Calls, NEW A \in Stacks, NEW B \in Stacks, NEW P, NEW N,
         CallStep(c, A, B, P, N)
  PROVE  Runs(<<c>>, A, B, P, N)
<1> DEFINE h == [n \in 1..2 |-> IF n = 1 THEN A ELSE B]
<1>1. <<c>> \in Seq(Calls) /\ Len(<<c>>) = 1 /\ <<c>>[1] = c
  OBVIOUS
<1>2. h \in [1..(Len(<<c>>) + 1) -> Stacks] /\ h[1] = A
      /\ h[Len(<<c>>) + 1] = B
  BY <1>1
<1>3. \A n \in 1..Len(<<c>>) : n = 1 /\ h[n] = A /\ h[n + 1] = B
  BY <1>1
<1> HIDE DEF h
<1>4. \A n \in 1..Len(<<c>>) : CallStep(<<c>>[n], h[n], h[n + 1], P, N)
  BY <1>1, <1>3, Zenon
<1> QED BY <1>1, <1>2, <1>4, Zenon DEF Runs

(* Calls may be put together. *)
LEMMA RunsThen ==
  ASSUME NEW A, NEW B, NEW C, NEW P, NEW N, NEW s, NEW t,
         Runs(s, A, B, P, N), Runs(t, B, C, P, N)
  PROVE  Runs(s \o t, A, C, P, N)
<1>1. s \in Seq(Calls) /\ t \in Seq(Calls)
  BY DEF Runs
<1> DEFINE m == Len(s)
           l == Len(t)
           st == s \o t
<1>2. m \in Nat /\ l \in Nat
  BY <1>1, LenProperties
<1>3. /\ st \in Seq(Calls)
      /\ Len(st) = m + l
      /\ \A n \in 1..(m + l) :
           st[n] = IF n <= m THEN s[n] ELSE t[n - m]
  BY <1>1, ConcatProperties
<1>4. PICK g \in [1..(m + 1) -> Stacks] :
        /\ g[1] = A /\ g[m + 1] = B
        /\ \A n \in 1..m : CallStep(s[n], g[n], g[n + 1], P, N)
  BY Zenon DEF Runs
<1>5. PICK f \in [1..(l + 1) -> Stacks] :
        /\ f[1] = B /\ f[l + 1] = C
        /\ \A n \in 1..l : CallStep(t[n], f[n], f[n + 1], P, N)
  BY Zenon DEF Runs
<1> HIDE DEF m, l, st
<1> DEFINE h == [n \in 1..(m + l + 1) |-> IF n <= m THEN g[n] ELSE f[n - m]]
<1>6. h \in [1..(m + l + 1) -> Stacks]
  <2> SUFFICES ASSUME NEW n \in 1..(m + l + 1)
               PROVE  (IF n <= m THEN g[n] ELSE f[n - m]) \in Stacks
    OBVIOUS
  <2>1. CASE n <= m
    BY <2>1, <1>2, <1>4
  <2>2. CASE ~(n <= m)
    BY <2>2, <1>2, <1>5
  <2> QED BY <2>1, <2>2
<1>7. h[1] = A /\ h[m + l + 1] = C
  BY <1>2, <1>4, <1>5
<1>8. ASSUME NEW n \in 1..(m + l)
      PROVE  CallStep(st[n], h[n], h[n + 1], P, N)
  <2>1. CASE n < m
    <3>1. h[n] = g[n] /\ h[n + 1] = g[n + 1] /\ st[n] = s[n]
          /\ n \in 1..m
      BY <2>1, <1>2, <1>3
    <3> HIDE DEF h
    <3> QED BY <3>1, <1>4, Zenon
  <2>2. CASE n = m
    <3>1. h[n] = g[n] /\ h[n + 1] = g[n + 1] /\ st[n] = s[n]
          /\ n \in 1..m
      BY <2>2, <1>2, <1>3, <1>4, <1>5
    <3> HIDE DEF h
    <3> QED BY <3>1, <1>4, Zenon
  <2>3. CASE n > m
    <3>0. /\ n - m \in 1..l /\ (n + 1) - m = (n - m) + 1
          /\ ~(n <= m) /\ ~(n + 1 <= m)
          /\ n \in 1..(m + l + 1) /\ n + 1 \in 1..(m + l + 1)
      BY <2>3, <1>2
    <3>1. h[n] = f[n - m] /\ h[n + 1] = f[(n - m) + 1]
          /\ st[n] = t[n - m] /\ n - m \in 1..l
      BY <3>0, <1>3
    <3> HIDE DEF h
    <3> QED BY <3>1, <1>5, Zenon
  <2>4. n \in Int /\ m \in Int
    BY <1>2
  <2> QED BY <2>1, <2>2, <2>3, <2>4
<1> HIDE DEF h
<1>9. 1..Len(st) = 1..(m + l) /\ Len(st) + 1 = m + l + 1
  BY <1>3
<1> QED BY <1>3, <1>6, <1>7, <1>8, <1>9, Zenon DEF Runs, st

(* The first call, and the rest. *)
LEMMA RunsHead ==
  ASSUME NEW A, NEW B, NEW P, NEW N, NEW s, s # <<>>, Runs(s, A, B, P, N)
  PROVE  /\ Head(s) \in Calls
         /\ \E C \in Stacks : /\ CallStep(Head(s), A, C, P, N)
                              /\ Runs(Tail(s), C, B, P, N)
<1>1. s \in Seq(Calls) /\ Len(s) \in Nat /\ Len(s) > 0
  BY LenProperties, EmptySeq DEF Runs
<1>2. /\ Head(s) \in Calls /\ Head(s) = s[1]
      /\ Tail(s) \in Seq(Calls) /\ Len(Tail(s)) = Len(s) - 1
      /\ \A n \in 1..Len(Tail(s)) : Tail(s)[n] = s[n + 1]
  BY <1>1, HeadTailProperties
<1>3. PICK h \in [1..(Len(s) + 1) -> Stacks] :
        /\ h[1] = A /\ h[Len(s) + 1] = B
        /\ \A n \in 1..Len(s) : CallStep(s[n], h[n], h[n + 1], P, N)
  BY Zenon DEF Runs
<1> DEFINE g == [n \in 1..Len(s) |-> h[n + 1]]
<1>4. g \in [1..(Len(Tail(s)) + 1) -> Stacks]
      /\ g[1] = h[2] /\ g[Len(Tail(s)) + 1] = B
  BY <1>1, <1>2, <1>3
<1>5. ASSUME NEW n \in 1..Len(Tail(s))
      PROVE  CallStep(Tail(s)[n], g[n], g[n + 1], P, N)
  <2>1. /\ g[n] = h[n + 1] /\ g[n + 1] = h[(n + 1) + 1]
        /\ Tail(s)[n] = s[n + 1] /\ n + 1 \in 1..Len(s)
    BY <1>1, <1>2
  <2> HIDE DEF g
  <2> QED BY <2>1, <1>3, Zenon
<1>6. h[2] \in Stacks /\ CallStep(s[1], h[1], h[2], P, N)
  <2>1. 1 \in 1..Len(s) /\ 2 \in 1..(Len(s) + 1) /\ 1 + 1 = 2
    BY <1>1
  <2> QED BY <2>1, <1>3
<1> HIDE DEF g
<1>7. Runs(Tail(s), h[2], B, P, N)
  BY <1>2, <1>4, <1>5, Zenon DEF Runs
<1> QED BY <1>2, <1>3, <1>6, <1>7, Zenon

(* Without a call the stack stays. *)
LEMMA RunsEmpty ==
  ASSUME NEW A, NEW B, NEW P, NEW N, Runs(<<>>, A, B, P, N)
  PROVE  A = B
<1>1. Len(<<>>) = 0 /\ Len(<<>>) + 1 = 1
  BY EmptySeq
<1> QED BY <1>1 DEF Runs

-----------------------------------------------------------------------------
(* Multiples of the page size. *)
IsPages(x) == \E q \in Nat : x = q * PageSize

(* They are natural numbers ... *)
LEMMA PagesNat ==
  ASSUME NEW x, IsPages(x)
  PROVE  x \in Nat
BY MemAllocAssumption DEF IsPages

(* ... whose sums are multiples too. *)
LEMMA PagesSum ==
  ASSUME NEW x, NEW y, IsPages(x), IsPages(y)
  PROVE  IsPages(x + y)
<1>1. PICK p \in Nat : x = p * PageSize
  BY DEF IsPages
<1>2. PICK q \in Nat : y = q * PageSize
  BY DEF IsPages
<1>3. x + y = (p + q) * PageSize
  BY <1>1, <1>2, MemAllocAssumption
<1> QED BY <1>3 DEF IsPages

(* A number between two multiples of a that is one itself is the lower one.*)
LEMMA BetweenMultiples ==
  ASSUME NEW a \in Nat \ {0}, NEW p \in Int, NEW q \in Int,
         a * p <= a * q, a * q < a * p + a
  PROVE  p = q
<1>1. CASE p > q
  <2>1. p - q >= 1
    BY <1>1
  <2>2. a * (p - q) >= a
    BY <2>1
  <2>3. a * (p - q) = a * p - a * q
    OBVIOUS
  <2> QED BY <2>2, <2>3
<1>2. CASE p < q
  <2>1. q - p >= 1
    BY <1>2
  <2>2. a * (q - p) >= a
    BY <2>1
  <2>3. a * (q - p) = a * q - a * p
    OBVIOUS
  <2> QED BY <2>2, <2>3
<1> QED BY <1>1, <1>2

(* Rounding up to a finds the multiple of a in x, ..., x + a - 1. *)
LEMMA RoundUpIs ==
  ASSUME NEW x \in Nat, NEW a \in Nat \ {0}, NEW p \in Int,
         x <= a * p, a * p < x + a
  PROVE  RoundUp(x, a) = a * p
<1> DEFINE y == x + a - 1
           q == y \div a
           r == y % a
<1>1. y \in Nat
  OBVIOUS
<1>2. q \in Int /\ r \in 0..(a - 1) /\ y = a * q + r
  BY <1>1
<1>3. RoundUp(x, a) = a * q
  <2>1. RoundUp(x, a) = x + a - 1 - r
    BY Zenon DEF RoundUp
  <2>2. y = x + a - 1
    OBVIOUS
  <2> HIDE DEF y, q, r
  <2> QED BY <1>1, <1>2, <2>1, <2>2
<1>4. y = x + a - 1
  OBVIOUS
<1> HIDE DEF y, q, r
<1>5. a * q \in Int /\ a * p \in Int
  BY <1>2
<1>6. \/ a * q <= a * p /\ a * p < a * q + a
      \/ a * p <= a * q /\ a * q < a * p + a
  BY <1>2, <1>4, <1>5
<1>7. p = q
  BY <1>2, <1>6, BetweenMultiples
<1> QED BY <1>3, <1>7

(* It stays below the next multiple but one. *)
LEMMA RoundUpLess ==
  ASSUME NEW x \in Nat, NEW a \in Nat \ {0}
  PROVE  RoundUp(x, a) < x + a
<1> DEFINE y == x + a - 1
<1>1. y \in Nat
  OBVIOUS
<1>2. y % a \in 0..(a - 1)
  BY <1>1
<1> QED BY <1>2 DEF RoundUp

(* A whole number of pages needs no rounding, for any alignment.           *)
LEMMA PagesAligned ==
  ASSUME NEW x, IsPages(x), NEW size \in Nat \ {0}
  PROVE  RoundUp(x, align_size(size)) = x
<1> DEFINE a == align_size(size)
<1>0. a \in Alignments
  BY AlignChosen
<1> HIDE DEF a
<1>1. a \in Nat \ {0} /\ PageSize % a = 0
  BY <1>0, ClientAssumption, MemAllocAssumption
<1>2. PICK p \in Nat : x = p * PageSize
  BY DEF IsPages
<1> DEFINE d == PageSize \div a
<1>3. d \in Int /\ PageSize = a * d
  BY <1>1, MemAllocAssumption
<1> HIDE DEF d
<1>4. p * d \in Int /\ a * (p * d) = x
  BY <1>1, <1>2, <1>3
<1>5. x \in Nat
  BY PagesNat
<1>6. RoundUp(x, a) = a * (p * d)
  BY <1>1, <1>4, <1>5, RoundUpIs
<1> QED BY <1>4, <1>6 DEF a

(* Rounding up to pages leaves whole pages before it as they are. *)
LEMMA RoundUpBehind ==
  ASSUME NEW x, IsPages(x), NEW y \in Nat
  PROVE  /\ RoundUp(x + y, PageSize) = x + RoundUp(y, PageSize)
         /\ IsPages(RoundUp(y, PageSize))
<1>1. PICK p \in Nat : x = p * PageSize
  BY DEF IsPages
<1>2. PageSize \in Nat \ {0}
  BY MemAllocAssumption
<1> DEFINE z == RoundUp(y, PageSize)
           q == z \div PageSize
<1>3. z \in Nat /\ y <= z /\ z < y + PageSize /\ z % PageSize = 0
  BY <1>2, RoundUpBound, RoundUpLess, RoundUpMultiple
<1> HIDE DEF z
<1>4. q \in Int /\ z = PageSize * q
  BY <1>2, <1>3
<1> HIDE DEF q
<1>5. q >= 0
  <2>1. CASE q < 0
    <3>1. PageSize * q < 0
      BY <2>1, <1>2, <1>4
    <3> QED BY <3>1, <1>3, <1>4
  <2> QED BY <2>1, <1>4
<1>6. IsPages(z)
  BY <1>2, <1>4, <1>5 DEF IsPages
<1>7. x \in Nat
  BY PagesNat
<1>8. PageSize * (p + q) = x + z /\ p + q \in Int
  BY <1>1, <1>2, <1>4
<1>9. RoundUp(x + y, PageSize) = PageSize * (p + q)
  <2>1. x + y \in Nat /\ x + y <= PageSize * (p + q)
        /\ PageSize * (p + q) < (x + y) + PageSize
    BY <1>2, <1>3, <1>7, <1>8
  <2> QED BY <2>1, <1>2, <1>8, RoundUpIs
<1> QED BY <1>6, <1>8, <1>9 DEF z

-----------------------------------------------------------------------------
(* A stack that ends at e, with at most l blocks, of objects in S. *)
Holds(A, e, l, S) ==
  /\ A \in Stacks
  /\ EndOf(A) = e
  /\ Len(A) <= l
  /\ \A n \in 1..Len(A) : A[n].obj \in S

(* s leads from A to B, and t back. *)
Brackets(s, t, A, B, P, N) == Runs(s, A, B, P, N) /\ Runs(t, B, A, P, N)

(* Where the next block is put, on an empty stack too. *)
LEMMA PlaceIs ==
  ASSUME NEW A \in Stacks, NEW size \in Nat \ {0}
  PROVE  /\ EndOf(A) \in Nat
         /\ Place(A, size) = RoundUp(EndOf(A), align_size(size))
         /\ Place(A, size) \in Nat
<1>1. Len(A) \in Nat
  BY LenProperties DEF Stacks
<1>2. align_size(size) \in Nat \ {0}
  BY AlignChosen DEF Placeable
<1>3. CASE Len(A) = 0
  <2>1. IsPages(0)
    BY MemAllocAssumption DEF IsPages
  <2>2. RoundUp(0, align_size(size)) = 0
    BY <2>1, PagesAligned
  <2> QED BY <1>3, <2>2 DEF EndOf, Place
<1>4. CASE Len(A) # 0
  <2>1. A[Len(A)] \in Block
    BY <1>1, <1>4, ElementOfSeq DEF Stacks
  <2>2. EndOf(A) \in Nat
    BY <1>4, <2>1 DEF EndOf, Block
  <2>3. Place(A, size) = RoundUp(EndOf(A), align_size(size))
    BY <1>4 DEF Place
  <2> QED BY <1>2, <2>2, <2>3, RoundUpBound
<1> QED BY <1>3, <1>4

(* A stack with a block more. *)
LEMMA PushedHolds ==
  ASSUME NEW A, NEW e, NEW l \in Nat, NEW S, Holds(A, e, l, S),
         NEW obj \in Objects, NEW size \in Nat \ {0}
  PROVE  Holds(Pushed(A, obj, size), RoundUp(e, align_size(size)) + size,
               l + 1, S \union {obj})
<1> DEFINE x == [obj |-> obj, addr |-> Place(A, size), size |-> size]
           B == Append(A, x)
<1>1. A \in Seq(Block) /\ Len(A) \in Nat
  BY LenProperties DEF Holds, Stacks
<1>2. Place(A, size) = RoundUp(e, align_size(size)) /\ Place(A, size) \in Nat
  BY PlaceIs DEF Holds
<1>3. x \in Block /\ x.obj = obj /\ x.addr = Place(A, size) /\ x.size = size
  BY <1>2 DEF Block
<1> HIDE DEF x
<1>4. /\ B \in Seq(Block) /\ Len(B) = Len(A) + 1
      /\ \A n \in 1..Len(A) : B[n] = A[n]
      /\ B[Len(A) + 1] = x
  BY <1>1, <1>3, AppendProperties
<1> HIDE DEF B
<1>5. EndOf(B) = RoundUp(e, align_size(size)) + size
  BY <1>1, <1>2, <1>3, <1>4 DEF EndOf
<1>6. ASSUME NEW n \in 1..Len(B) PROVE B[n].obj \in S \union {obj}
  <2>1. CASE n \in 1..Len(A)
    BY <2>1, <1>4 DEF Holds
  <2>2. CASE n = Len(A) + 1
    BY <2>2, <1>3, <1>4
  <2> QED BY <2>1, <2>2, <1>1, <1>4
<1>7. Len(B) <= l + 1
  BY <1>1, <1>4 DEF Holds
<1>8. Pushed(A, obj, size) = B
  BY Zenon DEF Pushed, B, x
<1> QED BY <1>4, <1>5, <1>6, <1>7, <1>8, Zenon DEF Holds, Stacks

(* A block is got and given back, if it is needed. *)
LEMMA GetGive ==
  ASSUME NEW cond \in BOOLEAN, NEW P \in Nat, NEW N \in Nat,
         NEW A, NEW e, NEW l \in Nat, NEW S, Holds(A, e, l, S),
         l < N, NEW obj \in Objects, obj \notin S, NEW size \in Nat \ {0},
         cond => RoundUp(e, align_size(size)) + size <= P
  PROVE  \E B : /\ Holds(B, IF cond
                            THEN RoundUp(e, align_size(size)) + size ELSE e,
                         l + 1, S \union {obj})
                /\ Brackets(If(cond, <<get(obj, size)>>),
                            If(cond, <<free(obj)>>), A, B, P, N)
<1>0. A \in Stacks /\ Len(A) \in Nat /\ Len(A) <= l
      /\ \A n \in 1..Len(A) : A[n].obj \in S
  BY LenProperties DEF Holds, Stacks
<1>1. CASE cond
  <2> DEFINE B == Pushed(A, obj, size)
             x == [obj |-> obj, addr |-> Place(A, size), size |-> size]
  <2>1. Holds(B, RoundUp(e, align_size(size)) + size, l + 1, S \union {obj})
    BY PushedHolds
  <2>2. get(obj, size) \in Calls /\ get(obj, size).op = "get"
        /\ get(obj, size).obj = obj /\ get(obj, size).size = size
    BY DEF get, Calls
  <2>3. free(obj) \in Calls /\ free(obj).op = "free" /\ free(obj).obj = obj
    BY DEF free, Calls
  <2>4. Place(A, size) = RoundUp(e, align_size(size)) /\ Place(A, size) \in Nat
    BY PlaceIs DEF Holds
  <2>5. x \in Block /\ x.obj = obj
    BY <2>4 DEF Block
  <2>6. B = Append(A, x)
    BY Zenon DEF Pushed
  <2>7. B \in Stacks
    BY <2>1, Zenon DEF Holds
  <2>8. NotIn(obj, A)
    BY <1>0 DEF NotIn
  <2>9. Len(A) < N
    BY <1>0
  <2>10. Place(A, size) + size <= P
    BY <1>1, <2>4
  <2> HIDE DEF B, x
  <2>11. CallStep(get(obj, size), A, B, P, N)
    BY <2>2, <2>8, <2>9, <2>10 DEF CallStep, B
  <2>12. CallStep(free(obj), B, A, P, N)
    BY <2>3, <2>5, <2>6, Zenon DEF CallStep
  <2>13. Runs(<<get(obj, size)>>, A, B, P, N)
    BY <1>0, <2>2, <2>7, <2>11, RunsCall
  <2>14. Runs(<<free(obj)>>, B, A, P, N)
    BY <1>0, <2>3, <2>7, <2>12, RunsCall
  <2>15. /\ If(cond, <<get(obj, size)>>) = <<get(obj, size)>>
         /\ If(cond, <<free(obj)>>) = <<free(obj)>>
    BY <1>1, Zenon DEF If
  <2>16. Brackets(If(cond, <<get(obj, size)>>), If(cond, <<free(obj)>>),
                  A, B, P, N)
    BY <2>13, <2>14, <2>15, Zenon DEF Brackets
  <2> QED BY <1>1, <2>1, <2>16, Zenon
<1>2. CASE ~cond
  <2>1. Holds(A, e, l + 1, S \union {obj})
    BY <1>0 DEF Holds
  <2>2. /\ If(cond, <<get(obj, size)>>) = <<>>
        /\ If(cond, <<free(obj)>>) = <<>>
    BY <1>2, Zenon DEF If
  <2>3. Runs(<<>>, A, A, P, N)
    BY <1>0, RunsNothing
  <2>4. Brackets(If(cond, <<get(obj, size)>>), If(cond, <<free(obj)>>),
                 A, A, P, N)
    BY <2>2, <2>3, Zenon DEF Brackets
  <2> QED BY <1>2, <2>1, <2>4, Zenon
<1> QED BY <1>1, <1>2

(* After whole pages there is no gap. *)
LEMMA GetGivePages ==
  ASSUME NEW cond \in BOOLEAN, NEW P \in Nat, NEW N \in Nat,
         NEW A, NEW e, NEW l \in Nat, NEW S, Holds(A, e, l, S), IsPages(e),
         l < N, NEW obj \in Objects, obj \notin S, NEW size \in Nat \ {0},
         cond => e + size <= P, NEW m, m = l + 1, NEW T, T = S \union {obj}
  PROVE  \E B : /\ Holds(B, IF cond THEN e + size ELSE e, m, T)
                /\ Brackets(If(cond, <<get(obj, size)>>),
                            If(cond, <<free(obj)>>), A, B, P, N)
<1>1. RoundUp(e, align_size(size)) = e
  BY PagesAligned
<1>2. cond => RoundUp(e, align_size(size)) + size <= P
  BY <1>1, Zenon
<1>3. PICK B : /\ Holds(B, IF cond
                           THEN RoundUp(e, align_size(size)) + size ELSE e,
                        l + 1, S \union {obj})
               /\ Brackets(If(cond, <<get(obj, size)>>),
                           If(cond, <<free(obj)>>), A, B, P, N)
  BY <1>2, GetGive
<1> QED BY <1>1, <1>3, Zenon

(* A block that is always needed. *)
LEMMA GetGiveAlways ==
  ASSUME NEW P \in Nat, NEW N \in Nat,
         NEW A, NEW e, NEW l \in Nat, NEW S, Holds(A, e, l, S), IsPages(e),
         l < N, NEW obj \in Objects, obj \notin S, NEW size \in Nat \ {0},
         e + size <= P, NEW m, m = l + 1, NEW T, T = S \union {obj}
  PROVE  \E B : /\ Holds(B, e + size, m, T)
                /\ Brackets(<<get(obj, size)>>, <<free(obj)>>, A, B, P, N)
<1>1. PICK B : /\ Holds(B, IF TRUE THEN e + size ELSE e, m, T)
               /\ Brackets(If(TRUE, <<get(obj, size)>>),
                           If(TRUE, <<free(obj)>>), A, B, P, N)
  BY GetGivePages
<1> QED BY <1>1, Zenon DEF If

(* Two calls, one after another. *)
LEMMA TwoCalls ==
  ASSUME NEW c, NEW d
  PROVE  <<c, d>> = <<c>> \o <<d>>
<1> DEFINE s == <<c>>
           t == <<d>>
           u == <<c, d>>
           w == s \o t
           T == {c, d}
<1>1. /\ s \in Seq(T) /\ t \in Seq(T) /\ u \in Seq(T)
      /\ Len(s) = 1 /\ Len(t) = 1 /\ Len(u) = 2
      /\ s[1] = c /\ t[1] = d /\ u[1] = c /\ u[2] = d
  OBVIOUS
<1> HIDE DEF s, t, u, T
<1>2. /\ w \in Seq(T) /\ Len(w) = Len(s) + Len(t)
      /\ \A n \in 1..(Len(s) + Len(t)) :
           w[n] = IF n <= Len(s) THEN s[n] ELSE t[n - Len(s)]
  BY <1>1, ConcatProperties
<1> HIDE DEF w
<1>3. Len(w) = 2 /\ w[1] = c /\ w[2] = d
  BY <1>1, <1>2
<1>4. \A n \in 1..Len(u) : u[n] = w[n]
  BY <1>1, <1>3
<1>5. u = w
  BY <1>1, <1>2, <1>3, <1>4, SeqEqual
<1> QED BY <1>5 DEF u, w, s, t

(* Two calls that depend on the same option. *)
LEMMA TwoCallsIf ==
  ASSUME NEW cond, NEW c, NEW d
  PROVE  If(cond, <<c, d>>) = If(cond, <<c>>) \o If(cond, <<d>>)
<1>1. CASE cond
  BY <1>1, TwoCalls, Zenon DEF If
<1>2. CASE ~cond
  <2>1. <<>> \o <<>> = <<>>
    BY EmptySeq, ConcatEmptySeq
  <2> QED BY <1>2, <2>1, Zenon DEF If
<1> QED BY <1>1, <1>2

-----------------------------------------------------------------------------
(* The sizes the programs ask for. *)
LEMMA SizesOfBuffers ==
  /\ PageSize \in Nat \ {0}
  /\ buffer_size = 32 * PageSize
  /\ encrypt_buf_size = 256 * PageSize
  /\ compress_buf_size \in Nat /\ compress_buf_size >= 32 * PageSize
  /\ RoundUp(LZO1X_1_MEM_COMPRESS, PageSize) \in Nat
  /\ RoundUp(LZO1X_1_MEM_COMPRESS, PageSize) >= LZO1X_1_MEM_COMPRESS
  /\ LZO1X_1_MEM_COMPRESS \in Nat \ {0}
  /\ IsPages(PageSize) /\ IsPages(2 * PageSize) /\ IsPages(buffer_size)
  /\ IsPages(encrypt_buf_size) /\ IsPages(compress_buf_size)
<1>1. PageSize \in Nat \ {0}
  BY MemAllocAssumption
<1>2. buffer_size = 32 * PageSize /\ encrypt_buf_size = 256 * PageSize
  BY DEF buffer_size, encrypt_buf_size, BUFFER_PAGES, ENCRYPT_BUF_PAGES
<1>0. LZO1X_1_MEM_COMPRESS \in Nat \ {0}
  <2>1. LZO1X_1_MEM_COMPRESS \in Nat
    BY DEF LZO1X_1_MEM_COMPRESS
  <2>2. LZO1X_1_MEM_COMPRESS # 0
    BY DEF LZO1X_1_MEM_COMPRESS
  <2> QED BY <2>1, <2>2
<1>3. IsPages(PageSize) /\ IsPages(2 * PageSize) /\ IsPages(buffer_size)
      /\ IsPages(encrypt_buf_size)
  <2>1. IsPages(1 * PageSize) /\ 1 * PageSize = PageSize
    BY <1>1 DEF IsPages
  <2>2. IsPages(2 * PageSize)
    BY DEF IsPages
  <2>3. IsPages(32 * PageSize)
    BY DEF IsPages
  <2>4. IsPages(256 * PageSize)
    BY DEF IsPages
  <2> QED BY <1>2, <2>1, <2>2, <2>3, <2>4
<1> DEFINE y == buffer_size \div 16 + 67 + 8
<1>4. y \in Nat
  BY <1>1, <1>2
<1>5. compress_buf_size = buffer_size + RoundUp(y, PageSize)
  BY Zenon DEF compress_buf_size
<1> HIDE DEF y
<1>6. IsPages(RoundUp(y, PageSize)) /\ RoundUp(y, PageSize) \in Nat
  BY <1>1, <1>3, <1>4, RoundUpBehind, RoundUpBound
<1>7. IsPages(compress_buf_size)
  BY <1>3, <1>5, <1>6, PagesSum
<1>8. compress_buf_size \in Nat /\ compress_buf_size >= 32 * PageSize
  BY <1>1, <1>2, <1>5, <1>6
<1>9. /\ RoundUp(LZO1X_1_MEM_COMPRESS, PageSize) \in Nat
      /\ RoundUp(LZO1X_1_MEM_COMPRESS, PageSize) >= LZO1X_1_MEM_COMPRESS
  BY <1>0, <1>1, RoundUpBound
<1> QED BY <1>0, <1>1, <1>2, <1>3, <1>7, <1>8, <1>9

(* The write buffer: one or four compressed buffers, or four plain ones.   *)
WriteBufferSize(o) ==
  IF "compress" \in o
  THEN (IF "threads" \in o THEN WRITE_BUFFERS ELSE 1) * compress_buf_size
  ELSE buffer_size * WRITE_BUFFERS

Compressed(o) == IF "compress" \in o THEN LZO1X_1_MEM_COMPRESS ELSE 0
Encrypted(o) == IF "encrypt" \in o THEN encrypt_buf_size ELSE 0
Buffered(o) == o \intersect {"compress", "threads"} # {}

(* What the pool of s2disk is enough for: the end of the buffers, of the   *)
(* work buffer of LZO, and of the write buffer, which begins on a page.    *)
LEMMA MemSizeEnough ==
  ASSUME NEW o
  PROVE  LET e == 2 * PageSize + buffer_size + Encrypted(o) IN
         /\ mem_size(o) \in Nat
         /\ e \in Nat /\ e <= mem_size(o)
         /\ e + Compressed(o) <= mem_size(o)
         /\ WriteBufferSize(o) \in Nat /\ WriteBufferSize(o) >= PageSize
         /\ "compress" \in o =>
              e + RoundUp(LZO1X_1_MEM_COMPRESS, PageSize) + WriteBufferSize(o)
                <= mem_size(o)
         /\ "compress" \notin o /\ "threads" \in o =>
              e + WriteBufferSize(o) <= mem_size(o)
         /\ mem_size(o \ {"threads"}) <= mem_size(o)
<1> DEFINE lz == RoundUp(LZO1X_1_MEM_COMPRESS, PageSize)
           c == compress_buf_size
<1>1. /\ PageSize \in Nat \ {0} /\ c \in Nat /\ c >= 32 * PageSize
      /\ LZO1X_1_MEM_COMPRESS \in Nat
      /\ lz \in Nat /\ lz >= LZO1X_1_MEM_COMPRESS
      /\ buffer_size = 32 * PageSize /\ encrypt_buf_size = 256 * PageSize
      /\ WRITE_BUFFERS = 4
  BY SizesOfBuffers DEF WRITE_BUFFERS
<1>2. /\ "compress" \in o \ {"threads"} <=> "compress" \in o
      /\ "encrypt" \in o \ {"threads"} <=> "encrypt" \in o
      /\ "threads" \notin o \ {"threads"}
  OBVIOUS
<1>3. ASSUME NEW q
      PROVE  mem_size(q) =
        2 * PageSize + buffer_size
        + (IF "compress" \in q THEN c + lz ELSE 0)
        + (IF "encrypt" \in q THEN encrypt_buf_size ELSE 0)
        + (IF ~("threads" \in q) THEN 0
           ELSE (IF "compress" \in q THEN (WRITE_BUFFERS - 1) * c
                 ELSE WRITE_BUFFERS * buffer_size)
                + (IF "encrypt" \in q THEN 0
                   ELSE WRITE_BUFFERS * buffer_size))
  BY Zenon DEF mem_size
<1> HIDE DEF lz, c
<1>4. CASE "compress" \in o
  BY <1>1, <1>2, <1>3, <1>4 DEF Encrypted, Compressed, WriteBufferSize, lz, c
<1>5. CASE "compress" \notin o
  BY <1>1, <1>2, <1>3, <1>5 DEF Encrypted, Compressed, WriteBufferSize, lz, c
<1> QED BY <1>4, <1>5

-----------------------------------------------------------------------------
(* write_image() once it has its header: the memory of the swap writer is  *)
(* got, within the pool, and given back.                                   *)
LEMMA WriterBrackets ==
  ASSUME NEW o, NEW P \in Nat, NEW N \in Nat, N >= 6, mem_size(o) <= P,
         NEW A, Holds(A, PageSize, 1, {"header"})
  PROVE  \E B : Brackets(init_swap_writer(o), free_swap_writer(o), A, B, P, N)
<1> DEFINE p == PageSize
           buf == buffer_size
           enc == encrypt_buf_size
           lzo == LZO1X_1_MEM_COMPRESS
           wsize == WriteBufferSize(o)
           top == RoundUp(lzo, PageSize)
           M == mem_size(o)
           e2 == p + p
           e3 == e2 + buf
           e4 == IF "encrypt" \in o THEN e3 + enc ELSE e3
           e5 == IF "compress" \in o THEN e4 + lzo ELSE e4
<1>1. /\ p \in Nat \ {0} /\ buf = 32 * p /\ enc = 256 * p
      /\ lzo \in Nat \ {0} /\ top \in Nat /\ top >= lzo
      /\ IsPages(p) /\ IsPages(buf) /\ IsPages(enc)
  BY SizesOfBuffers
<1>2. /\ M \in Nat /\ M <= P
      /\ e4 \in Nat /\ e4 <= M /\ e5 <= M
      /\ wsize \in Nat /\ wsize >= p
      /\ "compress" \in o => e4 + top + wsize <= M
      /\ "compress" \notin o /\ "threads" \in o => e4 + wsize <= M
  <2> DEFINE e == 2 * PageSize + buffer_size + Encrypted(o)
  <2>1. /\ M \in Nat /\ e \in Nat /\ e <= M
        /\ e + Compressed(o) <= M
        /\ wsize \in Nat /\ wsize >= p
        /\ "compress" \in o => e + top + wsize <= M
        /\ "compress" \notin o /\ "threads" \in o => e + wsize <= M
    BY MemSizeEnough, Zenon
  <2>2. e = e4 /\ e + Compressed(o) = e5
    BY <1>1 DEF Encrypted, Compressed
  <2> HIDE DEF e, e4, e5
  <2> QED BY <2>1, <2>2
<1> HIDE DEF p, buf, enc, lzo, wsize, top, M
<1>3. /\ IsPages(e2) /\ IsPages(e3) /\ IsPages(e4)
  BY <1>1, PagesSum
<1>4. e2 <= P /\ e3 <= P /\ e4 <= P /\ e5 <= P
  BY <1>1, <1>2
<1> DEFINE S1 == {"header"}
           S2 == {"header", "extents"}
           S3 == {"header", "extents", "buffer"}
           S4 == {"header", "extents", "buffer", "encrypt_buffer"}
           S5 == {"header", "extents", "buffer", "encrypt_buffer",
                  "lzo_work_buffer"}
           S6 == {"header", "extents", "buffer", "encrypt_buffer",
                  "lzo_work_buffer", "write_buffer"}
<1>5. /\ "extents" \in Objects /\ "extents" \notin S1
      /\ "buffer" \in Objects /\ "buffer" \notin S2
      /\ "encrypt_buffer" \in Objects /\ "encrypt_buffer" \notin S3
      /\ "lzo_work_buffer" \in Objects /\ "lzo_work_buffer" \notin S4
      /\ "write_buffer" \in Objects /\ "write_buffer" \notin S5
  BY DEF Objects
<1>6. /\ S2 = S1 \union {"extents"} /\ S3 = S2 \union {"buffer"}
      /\ S4 = S3 \union {"encrypt_buffer"}
      /\ S5 = S4 \union {"lzo_work_buffer"}
      /\ S6 = S5 \union {"write_buffer"}
  OBVIOUS
<1> HIDE DEF S1, S2, S3, S4, S5, S6
<1>7. PICK A2 : /\ Holds(A2, e2, 2, S2)
                /\ Brackets(<<get("extents", PageSize)>>,
                            <<free("extents")>>, A, A2, P, N)
  <2>1. Holds(A, p, 1, S1)
    BY Zenon DEF p, S1
  <2>2. p + PageSize <= P /\ p + PageSize = e2 /\ 1 < N /\ 2 = 1 + 1
        /\ PageSize \in Nat \ {0}
    BY <1>1, <1>4 DEF p
  <2> HIDE DEF e2
  <2> QED BY <1>1, <1>5, <1>6, <2>1, <2>2, GetGiveAlways
<1>8. PICK A3 : /\ Holds(A3, e3, 3, S3)
                /\ Brackets(<<get("buffer", buffer_size)>>,
                            <<free("buffer")>>, A2, A3, P, N)
  <2>1. e2 + buffer_size <= P /\ e2 + buffer_size = e3 /\ 2 < N /\ 3 = 2 + 1
        /\ buffer_size \in Nat \ {0}
    BY <1>1, <1>4 DEF buf
  <2> HIDE DEF e2, e3
  <2> QED BY <1>3, <1>5, <1>6, <1>7, <2>1, GetGiveAlways
<1>9. PICK A4 :
        /\ Holds(A4, e4, 4, S4)
        /\ Brackets(If("encrypt" \in o,
                       <<get("encrypt_buffer", encrypt_buf_size)>>),
                    If("encrypt" \in o, <<free("encrypt_buffer")>>),
                    A3, A4, P, N)
  <2>1. /\ e4 = IF "encrypt" \in o THEN e3 + encrypt_buf_size ELSE e3
        /\ "encrypt" \in o => e3 + encrypt_buf_size <= P
        /\ 3 < N /\ 4 = 3 + 1 /\ encrypt_buf_size \in Nat \ {0}
        /\ ("encrypt" \in o) \in BOOLEAN
    BY <1>1, <1>4 DEF enc
  <2> HIDE DEF e3, e4
  <2> QED BY <1>3, <1>5, <1>6, <1>8, <2>1, GetGivePages
<1>10. PICK A5 :
         /\ Holds(A5, e5, 5, S5)
         /\ Brackets(If("compress" \in o,
                        <<get("lzo_work_buffer", LZO1X_1_MEM_COMPRESS)>>),
                     If("compress" \in o, <<free("lzo_work_buffer")>>),
                     A4, A5, P, N)
  <2>1. /\ e5 = IF "compress" \in o THEN e4 + LZO1X_1_MEM_COMPRESS ELSE e4
        /\ "compress" \in o => e4 + LZO1X_1_MEM_COMPRESS <= P
        /\ 4 < N /\ 5 = 4 + 1 /\ LZO1X_1_MEM_COMPRESS \in Nat \ {0}
        /\ ("compress" \in o) \in BOOLEAN
    BY <1>1, <1>4 DEF lzo
  <2> HIDE DEF e4, e5
  <2> QED BY <1>3, <1>5, <1>6, <1>9, <2>1, GetGivePages
<1>11. PICK A6 :
         Brackets(If(Buffered(o), <<get("write_buffer", wsize)>>),
                  If(Buffered(o), <<free("write_buffer")>>), A5, A6, P, N)
  <2>1. /\ 5 < N /\ 5 \in Nat /\ Buffered(o) \in BOOLEAN
        /\ wsize \in Nat \ {0} /\ wsize >= p
    BY <1>1, <1>2 DEF Buffered
  <2>2. align_size(wsize) = PageSize
    BY <2>1 DEF align_size, p
  <2>3. Buffered(o) => RoundUp(e5, PageSize) + wsize <= P
    <3>1. CASE "compress" \in o
      <4>1. e5 = e4 + lzo
        BY <3>1
      <4>2. RoundUp(e5, PageSize) = e4 + top
        <5> HIDE DEF e4, e5
        <5> QED BY <4>1, <1>1, <1>3, RoundUpBehind DEF top
      <4> QED BY <3>1, <4>2, <1>1, <1>2
    <3>2. CASE "compress" \notin o
      <4>1. e5 = e4
        BY <3>2
      <4>2. RoundUp(e5, PageSize) = e4
        <5> HIDE DEF e4, e5
        <5> QED BY <4>1, <1>3, <2>1, <2>2, PagesAligned
      <4>3. Buffered(o) => "threads" \in o
        BY <3>2 DEF Buffered
      <4> QED BY <3>2, <4>2, <4>3, <1>1, <1>2
    <3> QED BY <3>1, <3>2
  <2> HIDE DEF e5
  <2> QED BY <1>5, <1>10, <2>1, <2>2, <2>3, GetGive
<1>12. init_swap_writer(o) =
         <<get("extents", PageSize)>> \o <<get("buffer", buffer_size)>>
         \o If("encrypt" \in o, <<get("encrypt_buffer", encrypt_buf_size)>>)
         \o If("compress" \in o,
               <<get("lzo_work_buffer", LZO1X_1_MEM_COMPRESS)>>)
         \o If(Buffered(o), <<get("write_buffer", wsize)>>)
  <2>1. <<get("extents", PageSize), get("buffer", buffer_size)>> =
          <<get("extents", PageSize)>> \o <<get("buffer", buffer_size)>>
    BY TwoCalls, Zenon
  <2>2. If(Buffered(o), <<get("write_buffer", wsize)>>) =
          CASE "compress" \in o ->
                 <<get("write_buffer",
                       (IF "threads" \in o THEN WRITE_BUFFERS ELSE 1)
                         * compress_buf_size)>>
            [] "compress" \notin o /\ "threads" \in o ->
                 <<get("write_buffer", buffer_size * WRITE_BUFFERS)>>
            [] OTHER -> <<>>
    BY Zenon DEF If, Buffered, wsize, WriteBufferSize
  <2> QED BY <2>1, <2>2, Zenon DEF init_swap_writer
<1>13. free_swap_writer(o) =
         If(Buffered(o), <<free("write_buffer")>>)
         \o If("compress" \in o, <<free("lzo_work_buffer")>>)
         \o If("encrypt" \in o, <<free("encrypt_buffer")>>)
         \o (<<free("buffer")>> \o <<free("extents")>>)
  <2>1. <<free("buffer"), free("extents")>> =
          <<free("buffer")>> \o <<free("extents")>>
    BY TwoCalls, Zenon
  <2> QED BY <2>1, Zenon DEF free_swap_writer, Buffered
<1>14. Runs(init_swap_writer(o), A, A6, P, N)
  BY <1>7, <1>8, <1>9, <1>10, <1>11, <1>12, RunsThen, Zenon DEF Brackets
<1>15. Runs(free_swap_writer(o), A6, A, P, N)
  BY <1>7, <1>8, <1>9, <1>10, <1>11, <1>13, RunsThen, Zenon DEF Brackets
<1> QED BY <1>14, <1>15, Zenon DEF Brackets

(* What the swap reader needs behind the header. *)
ReaderEnd(o) ==
  2 * PageSize + buffer_size
  + (IF "encrypt" \in o THEN PageSize ELSE 0)
  + (IF "compress" \in o
     THEN compress_buf_size + LZO1X_1_MEM_COMPRESS ELSE 0)

(* The pools of s2disk and of resume have room for it, since the buffers   *)
(* of the writer are larger.                                               *)
LEMMA ReaderFits ==
  ASSUME NEW o
  PROVE  /\ ReaderEnd(o) <= mem_size(o)
         /\ ReaderEnd(o) <= resume_mem_size
         /\ resume_mem_size \in Nat
         /\ 34 * PageSize <= resume_mem_size
<1> DEFINE lz == RoundUp(LZO1X_1_MEM_COMPRESS, PageSize)
           c == compress_buf_size
<1>1. /\ PageSize \in Nat \ {0} /\ c \in Nat /\ c >= 32 * PageSize
      /\ LZO1X_1_MEM_COMPRESS \in Nat
      /\ lz \in Nat /\ lz >= LZO1X_1_MEM_COMPRESS
      /\ buffer_size = 32 * PageSize /\ encrypt_buf_size = 256 * PageSize
      /\ WRITE_BUFFERS = 4
  BY SizesOfBuffers DEF WRITE_BUFFERS
<1>2. mem_size(o) =
        2 * PageSize + buffer_size
        + (IF "compress" \in o THEN c + lz ELSE 0)
        + (IF "encrypt" \in o THEN encrypt_buf_size ELSE 0)
        + (IF ~("threads" \in o) THEN 0
           ELSE (IF "compress" \in o THEN (WRITE_BUFFERS - 1) * c
                 ELSE WRITE_BUFFERS * buffer_size)
                + (IF "encrypt" \in o THEN 0
                   ELSE WRITE_BUFFERS * buffer_size))
  BY Zenon DEF mem_size
<1>3. resume_mem_size = 2 * PageSize + buffer_size + PageSize + c + lz
  BY Zenon DEF resume_mem_size
<1>4. ReaderEnd(o) = 2 * PageSize + buffer_size
        + (IF "encrypt" \in o THEN PageSize ELSE 0)
        + (IF "compress" \in o THEN c + LZO1X_1_MEM_COMPRESS ELSE 0)
  BY Zenon DEF ReaderEnd
<1> HIDE DEF lz, c
<1>5. ReaderEnd(o) <= mem_size(o)
  BY <1>1, <1>2, <1>4
<1>6. ReaderEnd(o) <= resume_mem_size /\ resume_mem_size \in Nat
      /\ 34 * PageSize <= resume_mem_size
  BY <1>1, <1>3, <1>4
<1> QED BY <1>5, <1>6

(* The memory of the swap reader is got, within the pool, and given back,  *)
(* for verification and by resume.                                         *)
LEMMA ReaderBrackets ==
  ASSUME NEW o, NEW P \in Nat, NEW N \in Nat, N >= 6, ReaderEnd(o) <= P,
         NEW A, Holds(A, PageSize, 1, {"header"})
  PROVE  \E B : Brackets(init_swap_reader(o), free_swap_reader(o), A, B, P, N)
<1> DEFINE p == PageSize
           buf == buffer_size
           c == compress_buf_size
           lzo == LZO1X_1_MEM_COMPRESS
           M == ReaderEnd(o)
           e2 == p + p
           e3 == e2 + buf
           e4 == IF "encrypt" \in o THEN e3 + p ELSE e3
           e5 == IF "compress" \in o THEN e4 + c ELSE e4
           e6 == IF "compress" \in o THEN e5 + lzo ELSE e5
<1>1. /\ p \in Nat \ {0} /\ buf = 32 * p /\ lzo \in Nat \ {0}
      /\ c \in Nat \ {0} /\ IsPages(p) /\ IsPages(buf) /\ IsPages(c)
  BY SizesOfBuffers
<1>2. M = 2 * p + buf + (IF "encrypt" \in o THEN p ELSE 0)
          + (IF "compress" \in o THEN c + lzo ELSE 0)
  BY Zenon DEF ReaderEnd
<1> HIDE DEF p, buf, c, lzo
<1>3. IsPages(e2) /\ IsPages(e3) /\ IsPages(e4) /\ IsPages(e5)
  BY <1>1, PagesSum
<1>4. M = e6 /\ M <= P
  BY <1>1, <1>2 DEF M
<1> HIDE DEF M
<1>5. e2 <= P /\ e3 <= P /\ e4 <= P /\ e5 <= P /\ e6 <= P
  BY <1>1, <1>4
<1> DEFINE S1 == {"header"}
           S2 == {"header", "extents"}
           S3 == {"header", "extents", "buffer"}
           S4 == {"header", "extents", "buffer", "decrypt_buffer"}
           S5 == {"header", "extents", "buffer", "decrypt_buffer",
                  "read_buffer"}
           S6 == {"header", "extents", "buffer", "decrypt_buffer",
                  "read_buffer", "lzo_work_buffer"}
<1>6. /\ "extents" \in Objects /\ "extents" \notin S1
      /\ "buffer" \in Objects /\ "buffer" \notin S2
      /\ "decrypt_buffer" \in Objects /\ "decrypt_buffer" \notin S3
      /\ "read_buffer" \in Objects /\ "read_buffer" \notin S4
      /\ "lzo_work_buffer" \in Objects /\ "lzo_work_buffer" \notin S5
  BY DEF Objects
<1>7. /\ S2 = S1 \union {"extents"} /\ S3 = S2 \union {"buffer"}
      /\ S4 = S3 \union {"decrypt_buffer"}
      /\ S5 = S4 \union {"read_buffer"}
      /\ S6 = S5 \union {"lzo_work_buffer"}
  OBVIOUS
<1> HIDE DEF S1, S2, S3, S4, S5, S6
<1>8. PICK A2 : /\ Holds(A2, e2, 2, S2)
                /\ Brackets(<<get("extents", PageSize)>>,
                            <<free("extents")>>, A, A2, P, N)
  <2>1. Holds(A, p, 1, S1)
    BY Zenon DEF p, S1
  <2>2. p + PageSize <= P /\ p + PageSize = e2 /\ 1 < N /\ 2 = 1 + 1
        /\ PageSize \in Nat \ {0}
    BY <1>1, <1>5 DEF p
  <2> HIDE DEF e2
  <2> QED BY <1>1, <1>6, <1>7, <2>1, <2>2, GetGiveAlways
<1>9. PICK A3 : /\ Holds(A3, e3, 3, S3)
                /\ Brackets(<<get("buffer", buffer_size)>>,
                            <<free("buffer")>>, A2, A3, P, N)
  <2>1. e2 + buffer_size <= P /\ e2 + buffer_size = e3 /\ 2 < N /\ 3 = 2 + 1
        /\ buffer_size \in Nat \ {0}
    BY <1>1, <1>5 DEF buf
  <2> HIDE DEF e2, e3
  <2> QED BY <1>3, <1>6, <1>7, <1>8, <2>1, GetGiveAlways
<1>10. PICK A4 :
         /\ Holds(A4, e4, 4, S4)
         /\ Brackets(If("encrypt" \in o, <<get("decrypt_buffer", PageSize)>>),
                     If("encrypt" \in o, <<free("decrypt_buffer")>>),
                     A3, A4, P, N)
  <2>1. /\ e4 = IF "encrypt" \in o THEN e3 + PageSize ELSE e3
        /\ "encrypt" \in o => e3 + PageSize <= P
        /\ 3 < N /\ 4 = 3 + 1 /\ PageSize \in Nat \ {0}
        /\ ("encrypt" \in o) \in BOOLEAN
    BY <1>1, <1>5 DEF p
  <2> HIDE DEF e3, e4
  <2> QED BY <1>3, <1>6, <1>7, <1>9, <2>1, GetGivePages
<1>11. PICK A5 :
         /\ Holds(A5, e5, 5, S5)
         /\ Brackets(If("compress" \in o,
                        <<get("read_buffer", compress_buf_size)>>),
                     If("compress" \in o, <<free("read_buffer")>>),
                     A4, A5, P, N)
  <2>1. /\ e5 = IF "compress" \in o THEN e4 + compress_buf_size ELSE e4
        /\ "compress" \in o => e4 + compress_buf_size <= P
        /\ 4 < N /\ 5 = 4 + 1 /\ compress_buf_size \in Nat \ {0}
        /\ ("compress" \in o) \in BOOLEAN
    BY <1>1, <1>5 DEF c
  <2> HIDE DEF e4, e5
  <2> QED BY <1>3, <1>6, <1>7, <1>10, <2>1, GetGivePages
<1>12. PICK A6 :
         /\ Holds(A6, e6, 6, S6)
         /\ Brackets(If("compress" \in o,
                        <<get("lzo_work_buffer", LZO1X_1_MEM_COMPRESS)>>),
                     If("compress" \in o, <<free("lzo_work_buffer")>>),
                     A5, A6, P, N)
  <2>1. /\ e6 = IF "compress" \in o THEN e5 + LZO1X_1_MEM_COMPRESS ELSE e5
        /\ "compress" \in o => e5 + LZO1X_1_MEM_COMPRESS <= P
        /\ 5 < N /\ 6 = 5 + 1 /\ LZO1X_1_MEM_COMPRESS \in Nat \ {0}
        /\ ("compress" \in o) \in BOOLEAN
    BY <1>1, <1>5 DEF lzo
  <2> HIDE DEF e5, e6
  <2> QED BY <1>3, <1>6, <1>7, <1>11, <2>1, GetGivePages
<1>13. init_swap_reader(o) =
         <<get("extents", PageSize)>> \o <<get("buffer", buffer_size)>>
         \o If("encrypt" \in o, <<get("decrypt_buffer", PageSize)>>)
         \o (If("compress" \in o, <<get("read_buffer", compress_buf_size)>>)
             \o If("compress" \in o,
                   <<get("lzo_work_buffer", LZO1X_1_MEM_COMPRESS)>>))
  <2>1. <<get("extents", PageSize), get("buffer", buffer_size)>> =
          <<get("extents", PageSize)>> \o <<get("buffer", buffer_size)>>
    BY TwoCalls, Zenon
  <2>2. If("compress" \in o,
           <<get("read_buffer", compress_buf_size),
             get("lzo_work_buffer", LZO1X_1_MEM_COMPRESS)>>) =
          If("compress" \in o, <<get("read_buffer", compress_buf_size)>>)
          \o If("compress" \in o,
                <<get("lzo_work_buffer", LZO1X_1_MEM_COMPRESS)>>)
    BY TwoCallsIf, Zenon
  <2> QED BY <2>1, <2>2, Zenon DEF init_swap_reader
<1>14. free_swap_reader(o) =
         (If("compress" \in o, <<free("lzo_work_buffer")>>)
          \o If("compress" \in o, <<free("read_buffer")>>))
         \o If("encrypt" \in o, <<free("decrypt_buffer")>>)
         \o (<<free("buffer")>> \o <<free("extents")>>)
  <2>1. <<free("buffer"), free("extents")>> =
          <<free("buffer")>> \o <<free("extents")>>
    BY TwoCalls, Zenon
  <2>2. If("compress" \in o, <<free("lzo_work_buffer"), free("read_buffer")>>)
        = If("compress" \in o, <<free("lzo_work_buffer")>>)
          \o If("compress" \in o, <<free("read_buffer")>>)
    BY TwoCallsIf, Zenon
  <2> QED BY <2>1, <2>2, Zenon DEF free_swap_reader
<1>15. Runs(init_swap_reader(o), A, A6, P, N)
  BY <1>8, <1>9, <1>10, <1>11, <1>12, <1>13, RunsThen, Zenon DEF Brackets
<1>16. Runs(free_swap_reader(o), A6, A, P, N)
  BY <1>8, <1>9, <1>10, <1>11, <1>12, <1>14, RunsThen, Zenon DEF Brackets
<1> QED BY <1>15, <1>16, Zenon DEF Brackets

(* An alignment is at most a page. *)
LEMMA AlignAtMostPage ==
  ASSUME NEW size \in Nat \ {0}
  PROVE  align_size(size) \in Nat \ {0} /\ align_size(size) <= PageSize
<1> DEFINE a == align_size(size)
<1>1. a \in Alignments
  BY AlignChosen
<1> HIDE DEF a
<1>2. a \in Nat \ {0} /\ PageSize % a = 0 /\ PageSize \in Nat \ {0}
  BY <1>1, ClientAssumption, MemAllocAssumption
<1> DEFINE d == PageSize \div a
<1>3. d \in Int /\ PageSize = a * d
  BY <1>2
<1> HIDE DEF d
<1>4. d >= 1
  <2>1. CASE d <= 0
    <3>1. a * d <= 0
      BY <2>1, <1>2, <1>3
    <3> QED BY <3>1, <1>2, <1>3
  <2> QED BY <2>1, <1>3
<1>5. a * d >= a
  BY <1>2, <1>3, <1>4
<1> QED BY <1>2, <1>3, <1>5 DEF a

(* Wherever a block is put, the gap before it is less than a page. *)
LEMMA GetGiveAnywhere ==
  ASSUME NEW P \in Nat, NEW N \in Nat,
         NEW A, NEW e \in Nat, NEW l \in Nat, NEW S, Holds(A, e, l, S),
         l < N, NEW obj \in Objects, obj \notin S, NEW size \in Nat \ {0},
         e + PageSize + size <= P, NEW m, m = l + 1, NEW T, T = S \union {obj}
  PROVE  \E B : \E f \in Nat :
           /\ Holds(B, f, m, T) /\ f <= e + PageSize + size
           /\ Brackets(<<get(obj, size)>>, <<free(obj)>>, A, B, P, N)
<1> DEFINE r == RoundUp(e, align_size(size))
           f == r + size
<1>1. align_size(size) \in Nat \ {0} /\ align_size(size) <= PageSize
      /\ PageSize \in Nat
  BY AlignAtMostPage, MemAllocAssumption
<1>2. r \in Nat /\ r < e + align_size(size)
  BY <1>1, RoundUpBound, RoundUpLess
<1> HIDE DEF r
<1>3. f \in Nat /\ f <= e + PageSize + size /\ f <= P
  BY <1>1, <1>2
<1>4. TRUE => RoundUp(e, align_size(size)) + size <= P
  BY <1>3 DEF r
<1>5. PICK B : /\ Holds(B, IF TRUE
                           THEN RoundUp(e, align_size(size)) + size ELSE e,
                        l + 1, S \union {obj})
               /\ Brackets(If(TRUE, <<get(obj, size)>>),
                           If(TRUE, <<free(obj)>>), A, B, P, N)
  BY <1>4, GetGive
<1>6. Holds(B, f, m, T)
  BY <1>5, Zenon DEF r
<1>7. Brackets(<<get(obj, size)>>, <<free(obj)>>, A, B, P, N)
  BY <1>5, Zenon DEF If
<1> HIDE DEF f
<1> QED BY <1>3, <1>6, <1>7

(* The buffers for the private key: resume has got no other memory yet. *)
LEMMA KeyRuns ==
  ASSUME NEW P \in Nat, NEW N \in Nat, N >= 6, 34 * PageSize <= P,
         PageSize >= 16, NEW A, Holds(A, PageSize, 1, {"header"})
  PROVE  Runs(decrypt_key, A, A, P, N)
<1> DEFINE S1 == {"header"}
           S2 == {"header", "key_buf"}
           S3 == {"header", "key_buf", "ivec_buf"}
           S4 == {"header", "key_buf", "ivec_buf", "out"}
<1>1. /\ "key_buf" \in Objects /\ "key_buf" \notin S1
      /\ "ivec_buf" \in Objects /\ "ivec_buf" \notin S2
      /\ "out" \in Objects /\ "out" \notin S3
  BY DEF Objects
<1>2. /\ S2 = S1 \union {"key_buf"} /\ S3 = S2 \union {"ivec_buf"}
      /\ S4 = S3 \union {"out"}
  OBVIOUS
<1>3. Holds(A, PageSize, 1, S1)
  OBVIOUS
<1> HIDE DEF S1, S2, S3, S4
<1>4. /\ PageSize \in Nat /\ 16 \in Nat \ {0} /\ 8 \in Nat \ {0}
      /\ PageSize + PageSize + 16 <= P
      /\ 1 < N /\ 2 < N /\ 3 < N /\ 2 = 1 + 1 /\ 3 = 2 + 1 /\ 4 = 3 + 1
  BY MemAllocAssumption
<1>5. PICK A2 : \E f \in Nat :
        /\ Holds(A2, f, 2, S2) /\ f <= PageSize + PageSize + 16
        /\ Brackets(<<get("key_buf", 16)>>, <<free("key_buf")>>,
                    A, A2, P, N)
  BY <1>1, <1>2, <1>3, <1>4, GetGiveAnywhere
<1>6. PICK f2 \in Nat : Holds(A2, f2, 2, S2) /\ f2 <= PageSize + PageSize + 16
  BY <1>5
<1>7. f2 + PageSize + 16 <= P /\ f2 + PageSize + 16 <= 5 * PageSize
  BY <1>4, <1>6
<1>8. PICK A3 : \E f \in Nat :
        /\ Holds(A3, f, 3, S3) /\ f <= f2 + PageSize + 16
        /\ Brackets(<<get("ivec_buf", 16)>>, <<free("ivec_buf")>>,
                    A2, A3, P, N)
  BY <1>1, <1>2, <1>4, <1>6, <1>7, GetGiveAnywhere
<1>9. PICK f3 \in Nat : Holds(A3, f3, 3, S3) /\ f3 <= f2 + PageSize + 16
  BY <1>8
<1>10. f3 + PageSize + 8 <= P
  BY <1>4, <1>7, <1>9
<1>11. PICK A4 : \E f \in Nat :
        /\ Holds(A4, f, 4, S4) /\ f <= f3 + PageSize + 8
        /\ Brackets(<<get("out", 8)>>, <<free("out")>>, A3, A4, P, N)
  BY <1>1, <1>2, <1>4, <1>9, <1>10, GetGiveAnywhere
<1>12. decrypt_key =
         (<<get("key_buf", 16)>> \o <<get("ivec_buf", 16)>>
          \o <<get("out", 8)>>)
         \o (<<free("out")>> \o (<<free("ivec_buf")>> \o <<free("key_buf")>>))
  <2> DEFINE a == get("key_buf", 16)
             b == get("ivec_buf", 16)
             c == get("out", 8)
             x == free("out")
             y == free("ivec_buf")
             z == free("key_buf")
  <2> HIDE DEF a, b, c, x, y, z
  <2>1. <<a, b, c, x, y, z>> = <<a, b, c>> \o <<x, y, z>>
    OBVIOUS
  <2>2. <<a, b, c>> = <<a, b>> \o <<c>>
    OBVIOUS
  <2>3. <<x, y, z>> = <<x>> \o <<y, z>>
    OBVIOUS
  <2>4. <<a, b>> = <<a>> \o <<b>> /\ <<y, z>> = <<y>> \o <<z>>
    BY TwoCalls, Zenon
  <2>5. decrypt_key = <<a, b, c, x, y, z>>
    BY Zenon DEF decrypt_key, a, b, c, x, y, z
  <2> QED BY <2>1, <2>2, <2>3, <2>4, <2>5, Zenon DEF a, b, c, x, y, z
<1> QED BY <1>5, <1>8, <1>11, <1>12, RunsThen, Zenon DEF Brackets

-----------------------------------------------------------------------------
(* With an empty pool the header is put at its beginning. *)
LEMMA HeaderBrackets ==
  ASSUME NEW P \in Nat, NEW N \in Nat, N >= 6, PageSize <= P
  PROVE  \E A : /\ Holds(A, PageSize, 1, {"header"})
                /\ Brackets(<<get("header", PageSize)>>, <<free("header")>>,
                            <<>>, A, P, N)
<1>1. /\ PageSize \in Nat \ {0} /\ 0 + PageSize = PageSize /\ 1 = 0 + 1
      /\ 0 < N /\ {"header"} = {} \union {"header"} /\ "header" \notin {}
      /\ 0 \in Nat
  BY MemAllocAssumption
<1>2. IsPages(0)
  BY <1>1 DEF IsPages
<1>3. Holds(<<>>, 0, 0, {})
  <2>1. <<>> \in Stacks /\ Len(<<>>) = 0
    BY EmptySeq DEF Stacks
  <2>2. 1..Len(<<>>) = {} /\ EndOf(<<>>) = 0
    BY <2>1 DEF EndOf
  <2> QED BY <2>1, <2>2 DEF Holds
<1>4. "header" \in Objects
  BY DEF Objects
<1>5. 0 + PageSize <= P
  BY <1>1
<1> DEFINE S == {"header"}
<1>6. S = {} \union {"header"}
  OBVIOUS
<1> HIDE DEF S
<1>7. \E A : /\ Holds(A, 0 + PageSize, 1, S)
            /\ Brackets(<<get("header", PageSize)>>, <<free("header")>>,
                        <<>>, A, P, N)
  BY <1>1, <1>2, <1>3, <1>4, <1>5, <1>6, GetGiveAlways
<1> QED BY <1>1, <1>7, Zenon DEF S

(* One attempt at write_image() takes no more than the pool main() asked   *)
(* for, and gives all of it back.                                          *)
LEMMA WriteImageRuns ==
  ASSUME NEW o, NEW verify, NEW P \in Nat, NEW N \in Nat, N >= 6,
         mem_size(o) <= P
  PROVE  Runs(write_image(o, verify), <<>>, <<>>, P, N)
<1>1. /\ PageSize <= P /\ ReaderEnd(o) <= P
  <2>1. /\ mem_size(o) \in Nat /\ ReaderEnd(o) <= mem_size(o)
        /\ 2 * PageSize + buffer_size + Encrypted(o) <= mem_size(o)
    BY MemSizeEnough, ReaderFits, Zenon
  <2>2. /\ PageSize \in Nat /\ buffer_size \in Nat /\ Encrypted(o) \in Nat
        /\ ReaderEnd(o) \in Nat
    BY SizesOfBuffers DEF Encrypted, ReaderEnd
  <2> QED BY <2>1, <2>2
<1>2. PICK A : /\ Holds(A, PageSize, 1, {"header"})
               /\ Brackets(<<get("header", PageSize)>>, <<free("header")>>,
                           <<>>, A, P, N)
  BY <1>1, HeaderBrackets
<1>3. PICK B : Brackets(init_swap_writer(o), free_swap_writer(o), A, B, P, N)
  BY <1>2, WriterBrackets
<1>4. Runs(If(verify, init_swap_reader(o) \o free_swap_reader(o)), A, A, P, N)
  <2>1. PICK C :
          Brackets(init_swap_reader(o), free_swap_reader(o), A, C, P, N)
    BY <1>1, <1>2, ReaderBrackets
  <2>2. Runs(init_swap_reader(o) \o free_swap_reader(o), A, A, P, N)
    BY <2>1, RunsThen, Zenon DEF Brackets
  <2>3. Runs(<<>>, A, A, P, N)
    BY <1>2, RunsNothing DEF Holds
  <2> QED BY <2>2, <2>3, Zenon DEF If
<1> QED BY <1>2, <1>3, <1>4, RunsThen, Zenon DEF Brackets, write_image

(* So does read_image() of resume. *)
LEMMA ReadImageRuns ==
  ASSUME NEW o, NEW rsa, NEW P \in Nat, NEW N \in Nat, N >= 6,
         resume_mem_size <= P, PageSize >= 16
  PROVE  Runs(read_image(o, rsa), <<>>, <<>>, P, N)
<1>1. PageSize <= P /\ ReaderEnd(o) <= P /\ 34 * PageSize <= P
  <2>1. /\ resume_mem_size \in Nat /\ ReaderEnd(o) <= resume_mem_size
        /\ 34 * PageSize <= resume_mem_size
    BY ReaderFits, Zenon
  <2>2. PageSize \in Nat /\ ReaderEnd(o) \in Nat
    BY SizesOfBuffers DEF ReaderEnd
  <2> QED BY <2>1, <2>2
<1>2. PICK A : /\ Holds(A, PageSize, 1, {"header"})
               /\ Brackets(<<get("header", PageSize)>>, <<free("header")>>,
                           <<>>, A, P, N)
  BY <1>1, HeaderBrackets
<1>3. Runs(If(rsa, decrypt_key), A, A, P, N)
  <2>1. Runs(decrypt_key, A, A, P, N)
    BY <1>1, <1>2, KeyRuns
  <2>2. Runs(<<>>, A, A, P, N)
    BY <1>2, RunsNothing DEF Holds
  <2> QED BY <2>1, <2>2, Zenon DEF If
<1>4. PICK C : Brackets(init_swap_reader(o), free_swap_reader(o), A, C, P, N)
  BY <1>1, <1>2, ReaderBrackets
<1> QED BY <1>2, <1>3, <1>4, RunsThen, Zenon DEF Brackets, read_image

-----------------------------------------------------------------------------
(* The slots and the pointers of the program agree with the stack A.       *)
(* While freemem() runs, the block it gives back is on the stack no more   *)
(* and still in the last slot.                                             *)
Covered(A) ==
  /\ \A n \in 1..Len(A) :
       /\ slots[n - 1].addr = A[n].addr /\ slots[n - 1].size = A[n].size
       /\ A[n].obj \in DOMAIN blocks /\ blocks[A[n].obj] = A[n].addr
  /\ pc = "idle" => cur_slot = Len(A)
  /\ pc = "search" => cur_slot = Len(A) + 1 /\ slots[Len(A)].addr = address
  /\ pc = "pop" => \/ cur_slot = Len(A)
                   \/ cur_slot = Len(A) + 1 /\ slots[Len(A)].size = 0

(* A program of the repository has calls left that lead, within the pool,  *)
(* from what it holds to nothing.                                          *)
ClientInv ==
  \/ client = "any" /\ script = <<>>
  \/ /\ client # "any"
     /\ \E A \in Stacks :
          Runs(script, A, <<>>, pool_size, nr_slots) /\ Covered(A)

(* getmem() puts the next block where the stack says. *)
LEMMA OffsetIsPlace ==
  ASSUME NEW A \in Stacks, Covered(A), pc = "idle", NEW size
  PROVE  Offset(size) = Place(A, size)
<1>1. cur_slot = Len(A) /\ Len(A) \in Nat
  BY LenProperties DEF Covered, Stacks
<1>2. CASE Len(A) = 0
  BY <1>1, <1>2 DEF Offset, Place
<1>3. CASE Len(A) # 0
  <2>1. Len(A) \in 1..Len(A)
    BY <1>1, <1>3
  <2>2. /\ slots[Len(A) - 1].addr = A[Len(A)].addr
        /\ slots[Len(A) - 1].size = A[Len(A)].size
    BY <2>1 DEF Covered
  <2> QED BY <1>1, <1>3, <2>2 DEF Offset, Place, EndOf
<1> QED BY <1>2, <1>3

(* When the next call asks for memory, it is there. *)
LEMMA RoomForNext ==
  ASSUME IInv, ClientInv, NextCall("get")
  PROVE  Fits(Head(script).size)
<1>1. script # <<>> /\ pc = "idle" /\ Head(script).op = "get"
  BY DEF NextCall
<1>2. PICK A \in Stacks :
        Runs(script, A, <<>>, pool_size, nr_slots) /\ Covered(A)
  BY <1>1 DEF ClientInv
<1>3. PICK C \in Stacks :
        CallStep(Head(script), A, C, pool_size, nr_slots)
  BY <1>1, <1>2, RunsHead
<1>4. Head(script) \in Calls
  BY <1>1, <1>2, RunsHead
<1> DEFINE size == Head(script).size
<1>5. /\ size \in Nat \ {0} /\ Len(A) < nr_slots
      /\ Place(A, size) + size <= pool_size
  BY <1>1, <1>3, <1>4 DEF CallStep, Calls
<1>6. Offset(size) = Place(A, size)
  BY <1>1, <1>2, OffsetIsPlace
<1>7. Place(A, size) \in Nat
  BY <1>5, PlaceIs
<1>8. cur_slot = Len(A)
  BY <1>1, <1>2 DEF Covered
<1>9. pool_size \in Nat
  BY DEF IInv, TypeOK
<1> HIDE DEF size
<1>10. Fits(size)
  BY <1>5, <1>6, <1>7, <1>8, <1>9 DEF Fits
<1> QED BY <1>10 DEF size

(* getmem() pushes a block. *)
LEMMA GetKeepsClientInv ==
  ASSUME IInv, ClientInv, Get
  PROVE  ClientInv'
<1> DEFINE c == Head(script)
<1>1. /\ script # <<>> /\ pc = "idle" /\ c.op = "get" /\ pc' = pc
      /\ slots' = [slots EXCEPT ![cur_slot] =
                     [addr |-> Offset(c.size), size |-> c.size]]
      /\ cur_slot' = cur_slot + 1
      /\ script' = Tail(script) /\ client' = client
      /\ pool_size' = pool_size /\ nr_slots' = nr_slots
      /\ blocks' = [x \in DOMAIN blocks \union {c.obj} |->
                      IF x = c.obj THEN Offset(c.size) ELSE blocks[x]]
  BY DEF Get, NextCall, getmem, poolVars
<1>2. client # "any"
  BY <1>1 DEF ClientInv
<1>3. PICK A \in Stacks :
        Runs(script, A, <<>>, pool_size, nr_slots) /\ Covered(A)
  BY <1>2 DEF ClientInv
<1>4. c \in Calls
  BY <1>1, <1>3, RunsHead
<1>5. PICK C \in Stacks :
        /\ CallStep(c, A, C, pool_size, nr_slots)
        /\ Runs(Tail(script), C, <<>>, pool_size, nr_slots)
  BY <1>1, <1>3, RunsHead
<1> HIDE DEF c
<1>6. /\ c.size \in Nat \ {0} /\ c.obj \in Objects /\ NotIn(c.obj, A)
      /\ Len(A) < nr_slots /\ C = Pushed(A, c.obj, c.size)
  BY <1>1, <1>4, <1>5 DEF CallStep, Calls
<1>7. Offset(c.size) = Place(A, c.size) /\ Place(A, c.size) \in Nat
  BY <1>1, <1>3, <1>6, OffsetIsPlace, PlaceIs
<1>8. cur_slot = Len(A) /\ Len(A) \in Nat
  BY <1>1, <1>3, LenProperties DEF Covered, Stacks
<1> DEFINE b == [obj |-> c.obj, addr |-> Place(A, c.size), size |-> c.size]
<1>9. b \in Block /\ b.obj = c.obj /\ b.addr = Place(A, c.size)
      /\ b.size = c.size
  BY <1>6, <1>7 DEF Block
<1>10. C = Append(A, b)
  BY <1>6, Zenon DEF Pushed
<1> HIDE DEF b
<1>11. /\ Len(C) = Len(A) + 1
       /\ \A n \in 1..Len(A) : C[n] = A[n]
       /\ C[Len(A) + 1] = b
  BY <1>9, <1>10, AppendProperties DEF Stacks
<1>12. /\ slots'[Len(A)].addr = b.addr /\ slots'[Len(A)].size = b.size
       /\ \A n \in 0..(nr_slots - 1) : n # Len(A) => slots'[n] = slots[n]
  <2>1. slots \in [0..(nr_slots - 1) -> Slot] /\ nr_slots \in Nat
    BY DEF IInv, TypeOK
  <2>2. Len(A) \in 0..(nr_slots - 1)
    BY <1>6, <1>8, <2>1
  <2> QED BY <1>1, <1>7, <1>8, <1>9, <2>1, <2>2
<1>13. ASSUME NEW n \in 1..Len(C)
       PROVE  /\ slots'[n - 1].addr = C[n].addr
              /\ slots'[n - 1].size = C[n].size
              /\ C[n].obj \in DOMAIN blocks' /\ blocks'[C[n].obj] = C[n].addr
  <2>1. CASE n \in 1..Len(A)
    <3>1. /\ slots[n - 1].addr = A[n].addr /\ slots[n - 1].size = A[n].size
          /\ A[n].obj \in DOMAIN blocks /\ blocks[A[n].obj] = A[n].addr
      BY <2>1, <1>3 DEF Covered
    <3>2. n - 1 \in 0..(nr_slots - 1) /\ n - 1 # Len(A)
      BY <2>1, <1>6, <1>8 DEF IInv, TypeOK
    <3>3. slots'[n - 1] = slots[n - 1]
      BY <3>2, <1>12
    <3>4. A[n].obj # c.obj
      BY <2>1, <1>6 DEF NotIn
    <3>5. C[n] = A[n]
      BY <2>1, <1>11
    <3>6. blocks'[A[n].obj] = blocks[A[n].obj] /\ A[n].obj \in DOMAIN blocks'
      BY <3>1, <3>4, <1>1
    <3> QED BY <3>1, <3>3, <3>5, <3>6, Zenon
  <2>2. CASE n = Len(A) + 1
    <3>1. n - 1 = Len(A) /\ C[n] = b
      BY <2>2, <1>8, <1>11
    <3>2. b.obj \in DOMAIN blocks' /\ blocks'[b.obj] = b.addr
      BY <1>1, <1>7, <1>9
    <3> QED BY <3>1, <3>2, <1>12
  <2> QED BY <2>1, <2>2, <1>8, <1>11
<1>14. Covered(C)'
  BY <1>1, <1>8, <1>11, <1>13 DEF Covered
<1> QED BY <1>1, <1>2, <1>5, <1>14, Zenon DEF ClientInv

(* A call of freemem() takes the last block off the stack. *)
LEMMA FreeKeepsClientInv ==
  ASSUME IInv, ClientInv, Free
  PROVE  ClientInv' /\ blocks[Head(script).obj] \in Nat
<1> DEFINE c == Head(script)
           a == blocks[c.obj]
<1>1. /\ script # <<>> /\ pc = "idle" /\ c.op = "free" /\ freemem(a)
      /\ script' = Tail(script) /\ client' = client /\ blocks' = blocks
  BY DEF Free, NextCall
<1>2. client # "any"
  BY <1>1 DEF ClientInv
<1>3. PICK A \in Stacks :
        Runs(script, A, <<>>, pool_size, nr_slots) /\ Covered(A)
  BY <1>2 DEF ClientInv
<1>4. PICK C \in Stacks :
        /\ CallStep(c, A, C, pool_size, nr_slots)
        /\ Runs(Tail(script), C, <<>>, pool_size, nr_slots)
  BY <1>1, <1>3, RunsHead
<1> HIDE DEF c
<1>5. PICK b \in Block : b.obj = c.obj /\ A = Append(C, b)
  BY <1>1, <1>4 DEF CallStep
<1>6. /\ Len(C) \in Nat /\ Len(A) = Len(C) + 1
      /\ \A n \in 1..Len(C) : A[n] = C[n]
      /\ A[Len(C) + 1] = b
  BY <1>5, AppendProperties, LenProperties DEF Stacks
<1>7. /\ cur_slot = Len(C) + 1
      /\ slots[Len(C)].addr = b.addr /\ a = b.addr /\ a \in Nat
  <2>1. Len(A) \in 1..Len(A) /\ Len(A) - 1 = Len(C)
    BY <1>6
  <2>2. /\ slots[Len(A) - 1].addr = A[Len(A)].addr
        /\ blocks[A[Len(A)].obj] = A[Len(A)].addr
        /\ cur_slot = Len(A)
    BY <2>1, <1>1, <1>3 DEF Covered
  <2>3. b.addr \in Nat
    BY DEF Block
  <2> QED BY <2>1, <2>2, <2>3, <1>5, <1>6
<1> HIDE DEF a
<1>8. /\ pc' = "search" /\ address' = a
      /\ UNCHANGED <<pool_size, nr_slots, slots, cur_slot>>
  BY <1>1, <1>6, <1>7 DEF freemem, poolVars
<1>9. \A n \in 1..Len(C) :
        /\ slots[n - 1].addr = C[n].addr /\ slots[n - 1].size = C[n].size
        /\ C[n].obj \in DOMAIN blocks /\ blocks[C[n].obj] = C[n].addr
  <2> SUFFICES ASSUME NEW n \in 1..Len(C)
      PROVE  /\ slots[n - 1].addr = C[n].addr /\ slots[n - 1].size = C[n].size
             /\ C[n].obj \in DOMAIN blocks /\ blocks[C[n].obj] = C[n].addr
    OBVIOUS
  <2>1. n \in 1..Len(A) /\ A[n] = C[n]
    BY <1>6
  <2> QED BY <2>1, <1>3 DEF Covered
<1>10. Covered(C)'
  BY <1>1, <1>7, <1>8, <1>9 DEF Covered
<1>11. ClientInv'
  BY <1>1, <1>2, <1>4, <1>8, <1>10, Zenon DEF ClientInv
<1> QED BY <1>7, <1>11 DEF a, c

(* The search of freemem() finds the block in the last slot, and the slot  *)
(* is removed with no other.                                               *)
LEMMA LoopKeepsCovered ==
  ASSUME IInv, freemem_loop, NEW A \in Stacks, Covered(A),
         UNCHANGED blocks
  PROVE  Covered(A)' /\ UNCHANGED <<pool_size, nr_slots>>
<1> DEFINE l == Len(A)
<1>1. l \in Nat
  BY LenProperties DEF Stacks
<1>2. \A n \in 1..l :
        /\ slots[n - 1].addr = A[n].addr /\ slots[n - 1].size = A[n].size
        /\ A[n].obj \in DOMAIN blocks /\ blocks[A[n].obj] = A[n].addr
  BY DEF Covered
<1>3. ASSUME pc = "search"
      PROVE  /\ cur_slot = l + 1 /\ slots[l].addr = address
             /\ l \in Used /\ k \in Used /\ i <= k /\ k <= j /\ j = l
             /\ i < j => k < j
             /\ i = k => j <= i + 1
             /\ k \in Nat /\ i \in Nat
             /\ slots[k].addr \in Nat /\ slots[k].addr <= address
             /\ slots[k].addr = address => k = l
  <2>1. cur_slot = l + 1 /\ slots[l].addr = address
    BY <1>3 DEF Covered
  <2>2. l \in Used
    BY <1>1, <2>1 DEF Used
  <2>3. /\ k \in Used /\ i \in Used /\ j \in Used
        /\ i <= k /\ k <= j
        /\ i < j => k < j
        /\ i = k => j <= i + 1
    BY <1>3, MiddleInside DEF IInv
  <2> HIDE DEF k, l
  <2>4. i \in Nat /\ j \in Nat /\ k \in Nat /\ k <= l /\ j <= l
    BY <1>1, <2>1, <2>3 DEF Used
  <2>5. j = l
    <3>1. l <= j
      BY <1>3, <2>1, <2>2 DEF IInv, SearchInv
    <3> QED BY <3>1, <2>4, <1>1
  <2>6. slots[k].addr \in Nat /\ slots[l].addr \in Nat
    BY <2>2, <2>3, SlotTypes, Zenon DEF IInv
  <2>7. k < l => slots[k].addr < slots[l].addr
    BY <2>2, <2>3 DEF IInv, Sorted
  <2> QED BY <1>1, <2>1, <2>2, <2>3, <2>4, <2>5, <2>6, <2>7
<1>4. \A n \in 1..l : n - 1 \in 0..(nr_slots - 1) /\ n - 1 # l
  <2>1. cur_slot \in {l, l + 1} /\ cur_slot <= nr_slots /\ nr_slots \in Nat
    BY <1>1 DEF Covered, IInv, TypeOK
  <2> QED BY <1>1, <2>1
<1>5. ASSUME pc = "search", free_slot(l),
             UNCHANGED <<pool_size, nr_slots, cur_slot, address>>
      PROVE  Covered(A)'
  <2>1. cur_slot = l + 1 /\ l \in Used
    BY <1>3, <1>5
  <2>2. /\ slots' = [slots EXCEPT ![l].size = 0] /\ pc' = "pop"
    BY <1>1, <1>5, <2>1 DEF free_slot
  <2>3. slots \in [0..(nr_slots - 1) -> Slot] /\ l \in 0..(nr_slots - 1)
    BY <2>1, SlotTypes DEF IInv, TypeOK
  <2> HIDE DEF l
  <2>4. slots'[l].size = 0
    BY <2>2, <2>3 DEF Slot
  <2>5. \A n \in 1..l : slots'[n - 1] = slots[n - 1]
    BY <1>4, <2>2, <2>3
  <2>6. \A n \in 1..l :
          /\ slots'[n - 1].addr = A[n].addr /\ slots'[n - 1].size = A[n].size
          /\ A[n].obj \in DOMAIN blocks' /\ blocks'[A[n].obj] = A[n].addr
    BY <1>2, <2>5
  <2> QED BY <1>5, <2>1, <2>2, <2>4, <2>6 DEF Covered, l
<1> HIDE DEF l
<1>6. CASE found
  <2>1. pc = "search" /\ slots[k].addr = address /\ free_slot(k)
        /\ UNCHANGED <<pool_size, nr_slots, cur_slot, address>>
    BY <1>6 DEF found, poolVars, searchVars
  <2>2. k = l
    BY <1>3, <2>1
  <2>3. free_slot(l)
    BY <2>1, <2>2
  <2> QED BY <2>1, <2>3, <1>5
<1>7. CASE upper_half
  <2>1. /\ pc = "search" /\ i # k
        /\ pc' = IF k < j THEN "search" ELSE "idle"
        /\ UNCHANGED <<pool_size, nr_slots, slots, cur_slot, address>>
    BY <1>7 DEF upper_half, poolVars
  <2>2. k < j
    <3> HIDE DEF k
    <3> QED BY <1>1, <1>3, <2>1
  <2>3. pc' = "search"
    BY <2>1, <2>2
  <2> QED BY <1>3, <2>1, <2>3 DEF Covered, l
<1>8. CASE last_look
  <2>1. /\ pc = "search"
        /\ \/ slots[j].addr = address /\ free_slot(j)
           \/ slots[j].addr # address /\ pc' = "idle" /\ UNCHANGED slots
        /\ UNCHANGED <<pool_size, nr_slots, cur_slot, address>>
    BY <1>8 DEF last_look, poolVars, searchVars
  <2>2. j = l /\ slots[j].addr = address
    BY <1>3, <2>1
  <2>3. free_slot(l)
    BY <2>1, <2>2
  <2> QED BY <2>1, <2>3, <1>5
<1>9. CASE lower_half
  <2>1. pc = "search" /\ address < slots[k].addr
    BY <1>9 DEF lower_half
  <2>2. slots[k].addr \in Nat /\ slots[k].addr <= address /\ address \in Nat
    BY <1>3, <2>1 DEF IInv, TypeOK
  <2> QED BY <2>1, <2>2
<1>10. CASE pop
  <2>1. /\ pc = "pop"
        /\ UNCHANGED <<pool_size, nr_slots, slots, address>>
        /\ \/ /\ cur_slot > 0 /\ slots[cur_slot - 1].size = 0
              /\ cur_slot' = cur_slot - 1 /\ pc' = pc
           \/ /\ ~(cur_slot > 0 /\ slots[cur_slot - 1].size = 0)
              /\ pc' = "idle" /\ cur_slot' = cur_slot
    BY <1>10 DEF pop, poolVars, searchVars
  <2>2. \/ cur_slot = l
        \/ cur_slot = l + 1 /\ slots[l].size = 0
    BY <2>1 DEF Covered, l
  <2>3. CASE cur_slot = l
    <3>1. l > 0 => slots[l - 1].size # 0
      <4>1. SUFFICES ASSUME l > 0 PROVE slots[l - 1].size # 0
        OBVIOUS
      <4>2. l \in 1..l
        BY <1>1, <4>1
      <4>3. A[l] \in Block
        BY <4>2, ElementOfSeq DEF Stacks, l
      <4>4. A[l].size # 0
        BY <4>3 DEF Block
      <4> QED BY <4>2, <4>4, <1>2
    <3>2. pc' = "idle" /\ cur_slot' = cur_slot
      BY <2>1, <2>3, <3>1
    <3> QED BY <2>1, <2>3, <3>2 DEF Covered, l
  <2>4. CASE cur_slot = l + 1 /\ slots[l].size = 0
    <3>1. cur_slot > 0 /\ cur_slot - 1 = l
      BY <1>1, <2>4
    <3>2. pc' = "pop" /\ cur_slot' = l
      BY <2>1, <2>4, <3>1
    <3> QED BY <2>1, <3>2 DEF Covered, l
  <2> QED BY <2>1, <2>2, <2>3, <2>4
<1> QED BY <1>6, <1>7, <1>8, <1>9, <1>10 DEF freemem_loop

(* What holds between two steps of any of the programs. *)
PoolInv == IInv /\ AlignedInv /\ ClientInv

(* s2disk and resume start with a pool that is enough for their calls. *)
LEMMA InitClientInv ==
  ASSUME Init
  PROVE  ClientInv
<1>1. CASE client = "any" /\ script = <<>>
  BY <1>1 DEF ClientInv
<1> DEFINE N == PageSize \div sizeof_mem_slot
<1>2. N \in Nat /\ N >= 6 /\ PageSize >= 16 /\ PageSize \in Nat \ {0}
  BY ClientAssumption, MemAllocAssumption DEF sizeof_mem_slot
<1> HIDE DEF N
<1>3. Covered(<<>>) /\ <<>> \in Stacks
  <2>1. Len(<<>>) = 0 /\ <<>> \in Stacks
    BY EmptySeq DEF Stacks
  <2>2. 1..Len(<<>>) = {}
    BY <2>1
  <2>3. pc = "idle" /\ cur_slot = 0
    BY DEF Init, MemInit
  <2> QED BY <2>1, <2>2, <2>3 DEF Covered
<1>4. ASSUME NEW o, script \in s2disk_calls(o), client = "s2disk",
             pool_size = RoundUp(mem_size(o), PageSize), nr_slots = N
      PROVE  ClientInv
  <2>1. mem_size(o) \in Nat /\ mem_size(o \ {"threads"}) \in Nat
        /\ mem_size(o \ {"threads"}) <= mem_size(o)
    BY MemSizeEnough, Zenon
  <2>2. pool_size \in Nat /\ mem_size(o) <= pool_size
    BY <1>2, <1>4, <2>1, RoundUpBound
  <2>3. mem_size(o \ {"threads"}) <= pool_size
    BY <2>1, <2>2
  <2>4. \A v : /\ Runs(write_image(o, v), <<>>, <<>>, pool_size, N)
               /\ Runs(write_image(o \ {"threads"}, v), <<>>, <<>>,
                       pool_size, N)
    BY <1>2, <2>2, <2>3, WriteImageRuns
  <2>5. \E v : \/ script = write_image(o, v)
               \/ script = write_image(o, FALSE) \o write_image(o, v)
               \/ script = write_image(o, FALSE)
                             \o write_image(o \ {"threads"}, v)
    BY <1>4, Zenon DEF s2disk_calls
  <2>6. Runs(script, <<>>, <<>>, pool_size, N)
    BY <2>4, <2>5, RunsThen, Zenon
  <2> QED BY <1>3, <1>4, <2>6 DEF ClientInv
<1>5. ASSUME script \in resume_calls, client = "resume",
             pool_size = RoundUp(resume_mem_size, PageSize), nr_slots = N
      PROVE  ClientInv
  <2>1. resume_mem_size \in Nat
    BY ReaderFits, Zenon
  <2>2. pool_size \in Nat /\ resume_mem_size <= pool_size
    BY <1>2, <1>5, <2>1, RoundUpBound
  <2>3. PICK o, rsa : script = read_image(o, rsa)
    BY <1>5, SMT DEF resume_calls
  <2>4. Runs(script, <<>>, <<>>, pool_size, N)
    BY <1>2, <2>2, <2>3, ReadImageRuns
  <2> QED BY <1>3, <1>5, <2>4 DEF ClientInv
<1> QED BY <1>1, <1>4, <1>5, Zenon DEF Init, N

(* Every step of every program keeps the invariant. *)
LEMMA NextKeepsPoolInv == PoolInv /\ [Next]_vars => PoolInv'
<1> SUFFICES ASSUME IInv, AlignedInv, ClientInv, [Next]_vars
             PROVE  IInv' /\ AlignedInv' /\ ClientInv'
  BY Zenon DEF PoolInv
<1>1. CASE Get
  <2>1. getmem(Head(script).size)
    BY <1>1 DEF Get
  <2>2. Head(script).size \in Nat \ {0}
    <3>1. script # <<>> /\ Head(script).op = "get"
      BY <1>1 DEF Get, NextCall
    <3>2. PICK A \in Stacks : Runs(script, A, <<>>, pool_size, nr_slots)
      BY <3>1 DEF ClientInv
    <3>3. Head(script) \in Calls /\ \E C \in Stacks :
            CallStep(Head(script), A, C, pool_size, nr_slots)
      BY <3>1, <3>2, RunsHead
    <3> QED BY <3>1, <3>3 DEF CallStep, Calls
  <2>3. Head(script).size \in Placeable
    BY <2>2, AlignChosen
  <2>4. IInv'
    BY <2>1, <2>3, GetmemKeepsIInv
  <2>5. AlignedInv'
    BY <2>1, <2>3, GetmemKeepsAligned DEF IInv
  <2> QED BY <1>1, <2>4, <2>5, GetKeepsClientInv
<1>2. CASE Free
  <2>1. freemem(blocks[Head(script).obj])
    BY <1>2 DEF Free
  <2>2. ClientInv' /\ blocks[Head(script).obj] \in Nat
    BY <1>2, FreeKeepsClientInv
  <2>3. IInv'
    BY <2>1, <2>2, FreememKeepsIInv
  <2>4. AlignedInv'
    BY <2>1, <2>2, OthersKeepAligned
  <2> QED BY <2>2, <2>3, <2>4
<1>3. CASE AnyCall
  <2>1. client = "any" /\ UNCHANGED <<client, script>>
    BY <1>3 DEF AnyCall, clientVars
  <2>2. ClientInv'
    BY <2>1 DEF ClientInv
  <2>3. ASSUME NEW size \in Sizes, getmem(size) PROVE IInv' /\ AlignedInv'
    BY <2>3, SizesPlaceable, GetmemKeepsIInv, GetmemKeepsAligned DEF IInv
  <2>4. ASSUME NEW size \in Sizes, getmem_NULL(size)
        PROVE  IInv' /\ AlignedInv'
    BY <2>4, StutterKeepsIInv, OthersKeepAligned DEF getmem_NULL
  <2>5. ASSUME NEW a \in Addrs, freemem(a) PROVE IInv' /\ AlignedInv'
    <3>1. a \in Nat
      BY MemAllocAssumption
    <3> QED BY <2>5, <3>1, FreememKeepsIInv, OthersKeepAligned
  <2> QED BY <1>3, <2>2, <2>3, <2>4, <2>5, Zenon DEF AnyCall
<1>4. CASE Loop
  <2>1. freemem_loop /\ UNCHANGED <<client, script, blocks>>
    BY <1>4 DEF Loop, clientVars
  <2>2. IInv' /\ AlignedInv'
    BY <2>1, LoopKeepsIInv, OthersKeepAligned
  <2>3. CASE client = "any" /\ script = <<>>
    BY <2>1, <2>2, <2>3 DEF ClientInv
  <2>4. CASE client # "any"
    <3>1. PICK A \in Stacks :
            Runs(script, A, <<>>, pool_size, nr_slots) /\ Covered(A)
      BY <2>4 DEF ClientInv
    <3>2. Covered(A)' /\ UNCHANGED <<pool_size, nr_slots>>
      BY <2>1, <3>1, LoopKeepsCovered
    <3> QED BY <2>1, <2>2, <2>4, <3>1, <3>2 DEF ClientInv
  <2> QED BY <2>2, <2>3, <2>4 DEF ClientInv
<1>5. CASE UNCHANGED vars
  <2>1. UNCHANGED memVars /\ UNCHANGED <<client, script, blocks>>
    BY <1>5 DEF vars, clientVars
  <2>2. IInv' /\ AlignedInv'
    BY <2>1, StutterKeepsIInv, OthersKeepAligned
  <2>3. ClientInv'
    BY <2>1 DEF memVars, ClientInv, Covered
  <2> QED BY <2>2, <2>3
<1>6. CASE Finished
  BY <1>5, <1>6 DEF Finished
<1> QED BY <1>1, <1>2, <1>3, <1>4, <1>5, <1>6 DEF Next

(* The state of the pool under the programs of the repository and under    *)
(* the arbitrary caller: the slots are sorted, and what a program holds is *)
(* a stack from which its remaining calls lead to nothing.                 *)
LEMMA ProgramsInductive == Spec => []PoolInv
<1>1. Init => PoolInv
  <2>1. Init => IInv
    BY InitIInv DEF Init
  <2>2. Init => AlignedInv
    BY DEF Init, MemInit, AlignedInv
  <2>3. Init => ClientInv
    BY InitClientInv
  <2> QED BY <2>1, <2>2, <2>3 DEF PoolInv
<1> QED BY <1>1, NextKeepsPoolInv, PTL DEF Spec

(* None of the getmem() calls of s2disk and resume, whose result none of   *)
(* them looks at, is refused: for every page size, every combination of    *)
(* compression, encryption and threads, with verification or without, in   *)
(* the first attempt and in the second.                                    *)
THEOREM PoolIsEnough == Spec => []PoolSuffices
<1>1. PoolInv => PoolSuffices
  BY RoomForNext DEF PoolInv, PoolSuffices
<1> QED BY <1>1, ProgramsInductive, PTL

(* A program of the repository that has made all its calls has given all   *)
(* its memory back.                                                        *)
AllGivenBack ==
  client # "any" /\ script = <<>> /\ pc = "idle" => cur_slot = 0 /\ held = {}

(* Every program of the repository leaves the pool as it found it, so that *)
(* the second attempt of s2disk has all of it.                             *)
THEOREM ProgramsGiveBack == Spec => []AllGivenBack
<1>1. PoolInv => AllGivenBack
  <2> SUFFICES ASSUME IInv, ClientInv, client # "any", script = <<>>,
                      pc = "idle"
               PROVE  cur_slot = 0 /\ held = {}
    BY DEF PoolInv, AllGivenBack
  <2>1. PICK A \in Stacks :
          Runs(script, A, <<>>, pool_size, nr_slots) /\ Covered(A)
    BY DEF ClientInv
  <2>2. A = <<>>
    BY <2>1, RunsEmpty
  <2>3. Len(A) = 0
    BY <2>2, EmptySeq
  <2>4. cur_slot = 0
    BY <2>1, <2>3 DEF Covered
  <2>5. Used = {}
    BY <2>4 DEF Used
  <2> QED BY <2>4, <2>5 DEF IInv, HeldInv
<1> QED BY <1>1, ProgramsInductive, PTL

(* What is proved above of arbitrary callers holds of these programs too,  *)
(* whose sizes and addresses are their own: the blocks in use are disjoint *)
(* and aligned, and freemem() frees exactly the block it is given.         *)
THEOREM ProgramsSafe ==
  Spec => [](IInv /\ NoOverlap /\ FreedExactly /\ EmptyAgain /\ Aligned)
<1>1. AlignedInv => Aligned
  BY DEF AlignedInv, Aligned
<1>2. PoolInv =>
        IInv /\ NoOverlap /\ FreedExactly /\ EmptyAgain /\ Aligned
  BY <1>1, IInvDisjoint, IInvExact, IInvEmpty DEF PoolInv
<1> QED BY <1>2, ProgramsInductive, PTL

-----------------------------------------------------------------------------
(* How far freemem() is from its end: the interval of the search, then the *)
(* slots that may have to be removed.                                      *)
LoopMeasure ==
  CASE pc = "search" -> nr_slots + 2 + (j - i)
    [] pc = "pop" -> cur_slot + 1
    [] OTHER -> 0

(* Every turn of the loops of freemem() brings it closer. *)
LEMMA LoopGetsCloser ==
  ASSUME IInv, freemem_loop
  PROVE  /\ LoopMeasure \in Nat /\ LoopMeasure' \in Nat
         /\ LoopMeasure' < LoopMeasure
<1>1. IInv'
  BY LoopKeepsIInv
<1>2. /\ nr_slots \in Nat /\ cur_slot \in 0..nr_slots
      /\ nr_slots' \in Nat /\ cur_slot' \in 0..nr_slots'
  BY <1>1 DEF IInv, TypeOK
<1>3. CASE pc = "search"
  <2>1. /\ i \in Nat /\ j \in Nat /\ k \in Nat /\ i <= k /\ k <= j
        /\ i < j => k < j
    BY <1>3, MiddleInside DEF IInv, Used
  <2>2. LoopMeasure = nr_slots + 2 + (j - i)
    BY <1>3 DEF LoopMeasure
  <2>3. nr_slots' = nr_slots /\ cur_slot' = cur_slot
    BY <1>3 DEF freemem_loop, found, upper_half, last_look, lower_half, pop,
                poolVars
  <2>4. CASE pc' = "search"
    <3>1. LoopMeasure' = nr_slots + 2 + (j' - i')
      BY <2>3, <2>4 DEF LoopMeasure
    <3>2. i' \in Nat /\ j' \in Nat /\ i' <= j'
      BY <1>1, <2>4 DEF IInv, TypeOK
    <3>3. \/ i' = k /\ i # k /\ j' = j
          \/ j' = k /\ i' = i /\ i < k
      BY <1>3, <2>4
      DEF freemem_loop, found, upper_half, last_look, lower_half, pop,
          free_slot
    <3> HIDE DEF k
    <3>4. PICK m \in Nat, n \in Nat : m = i' /\ n = j'
      BY <3>2
    <3>5. m <= n /\ n - m < j - i
      <4>1. CASE m = k /\ i # k /\ n = j
        BY <2>1, <4>1
      <4>2. CASE n = k /\ m = i /\ i < k
        BY <2>1, <4>2
      <4> QED BY <3>3, <3>4, <4>1, <4>2
    <3>6. LoopMeasure' = nr_slots + 2 + (n - m)
      BY <3>1, <3>4
    <3> QED BY <1>2, <2>1, <2>2, <3>5, <3>6
  <2>5. CASE pc' = "pop"
    <3>1. LoopMeasure' = cur_slot + 1
      BY <2>3, <2>5 DEF LoopMeasure
    <3> QED BY <1>2, <2>1, <2>2, <3>1
  <2>6. CASE pc' = "idle"
    <3>1. LoopMeasure' = 0
      BY <2>6 DEF LoopMeasure
    <3> QED BY <1>2, <2>1, <2>2, <3>1
  <2> QED BY <1>1, <2>4, <2>5, <2>6 DEF IInv, TypeOK
<1>4. CASE pc = "pop"
  <2>1. LoopMeasure = cur_slot + 1
    BY <1>4 DEF LoopMeasure
  <2>2. \/ cur_slot > 0 /\ cur_slot' = cur_slot - 1 /\ pc' = "pop"
        \/ pc' = "idle"
    BY <1>4
    DEF freemem_loop, found, upper_half, last_look, lower_half, pop
  <2>3. CASE cur_slot > 0 /\ cur_slot' = cur_slot - 1 /\ pc' = "pop"
    <3>1. LoopMeasure' = cur_slot' + 1
      BY <2>3 DEF LoopMeasure
    <3> QED BY <1>2, <2>1, <2>3, <3>1
  <2>4. CASE pc' = "idle"
    <3>1. LoopMeasure' = 0
      BY <2>4 DEF LoopMeasure
    <3> QED BY <1>2, <2>1, <3>1
  <2> QED BY <2>2, <2>3, <2>4
<1> QED BY <1>3, <1>4
    DEF freemem_loop, found, upper_half, last_look, lower_half, pop

(* Once called, freemem() takes no step that does not bring it closer to   *)
(* its end, by a natural number that cannot decrease for ever; the search  *)
(* never stays where it is.  What is left of FreememReturns is that the    *)
(* steps are taken.                                                        *)
THEOREM FreememGetsCloser ==
  Spec => [][pc # "idle" => /\ LoopMeasure \in Nat /\ LoopMeasure' \in Nat
                            /\ LoopMeasure' < LoopMeasure]_vars
<1> DEFINE Closer == pc # "idle" => /\ LoopMeasure \in Nat
                                    /\ LoopMeasure' \in Nat
                                    /\ LoopMeasure' < LoopMeasure
<1>1. PoolInv /\ [Next]_vars => [Closer]_vars
  <2> SUFFICES ASSUME PoolInv, Next, pc # "idle" PROVE Closer
    OBVIOUS
  <2>1. freemem_loop
    BY DEF Next, Get, Free, AnyCall, Loop, Finished, NextCall, getmem,
           getmem_NULL, freemem
  <2> QED BY <2>1, LoopGetsCloser DEF PoolInv
<1> QED BY <1>1, ProgramsInductive, PTL DEF Spec
=============================================================================
