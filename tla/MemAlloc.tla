------------------------------ MODULE MemAlloc ------------------------------
(***************************************************************************)
(* The memory pool of memalloc.c.  init_memalloc() takes all the memory    *)
(* the tools will need in one piece, since nothing can be allocated while  *)
(* user space is frozen; getmem() and freemem() hand it out and take it    *)
(* back, keeping an array of slots sorted by address.  Addresses are       *)
(* offsets into the page aligned pool.                                     *)
(*                                                                         *)
(* The caller here is any caller at all: it asks for blocks of any size in *)
(* any order and passes any address to freemem().  The callers there are   *)
(* in this repository are module MemClients.                               *)
(***************************************************************************)
EXTENDS Integers

CONSTANTS
  PageSize,    \* getpagesize()
  Alignments,  \* the powers of two from ALIGN_QWORD to the page size
  Sizes,       \* the sizes asked for
  Addrs        \* the addresses passed to freemem()

ASSUME MemAllocAssumption ==
  /\ PageSize \in Nat \ {0}
  /\ Alignments \subseteq Nat \ {0}
  /\ PageSize \in Alignments
  /\ Sizes \subseteq Nat \ {0}
  /\ \A size \in Sizes :
       size < PageSize =>
         \E a \in Alignments :
           /\ size <= a
           /\ \A b \in Alignments : size <= b => a <= b
  /\ Addrs \subseteq Nat

VARIABLES
  pool_size,  \* size of the pool
  nr_slots,   \* size of the slots array
  slots,      \* the array
  cur_slot,   \* index of the slot to be used next
  pc,         \* where freemem() is: "idle" if it is not running
  address,    \* its argument
  i, j,       \* its search interval
  held        \* the blocks the callers have got and not given back

poolVars == <<pool_size, nr_slots>>
searchVars == <<address, i, j>>
memVars == <<pool_size, nr_slots, slots, cur_slot, pc, address, i, j, held>>

Slot == [addr : Nat, size : Nat]
Used == 0..(cur_slot - 1)

(* Each variable has a value of its kind, and the search stays inside the  *)
(* used part of the array.                                                 *)
TypeOK ==
  /\ pool_size \in Nat /\ nr_slots \in Nat
  /\ slots \in [0..(nr_slots - 1) -> Slot]
  /\ cur_slot \in 0..nr_slots
  /\ pc \in {"idle", "search", "pop"}
  /\ address \in Nat /\ i \in Nat /\ j \in Nat
  /\ pc = "search" => i \in Used /\ j \in Used /\ i <= j
  /\ held \subseteq Slot

(* init_memalloc() with the pool and the array it has set up. *)
MemInit ==
  /\ pool_size \in Nat /\ nr_slots \in Nat
  /\ slots = [n \in 0..(nr_slots - 1) |-> [addr |-> 0, size |-> 0]]
  /\ cur_slot = 0
  /\ pc = "idle" /\ address = 0 /\ i = 0 /\ j = 0
  /\ held = {}

-----------------------------------------------------------------------------
(* round_up_page_size(): size rounded up to a multiple of a. *)
RoundUp(size, a) == size + a - 1 - ((size + a - 1) % a)

(* The alignment of a block: its size rounded up to a power of two, at     *)
(* least a quadword and at most a page.                                    *)
align_size(size) ==
  IF size >= PageSize THEN PageSize
  ELSE CHOOSE a \in Alignments :
         /\ size <= a
         /\ \A b \in Alignments : size <= b => a <= b

\* Mutant: the end of the last block is forgotten.
Offset_NoSize(size) ==
  IF cur_slot = 0 THEN 0
  ELSE RoundUp(slots[cur_slot - 1].addr + 1, align_size(size))

\* Mutant: blocks follow one another without being aligned.
Offset_Unaligned(size) ==
  IF cur_slot = 0 THEN 0
  ELSE slots[cur_slot - 1].addr + slots[cur_slot - 1].size

(* Where getmem() puts a block: behind the last slot. *)
Offset(size) ==
  IF cur_slot = 0 THEN 0
  ELSE RoundUp(slots[cur_slot - 1].addr + slots[cur_slot - 1].size,
               align_size(size))

\* Mutant: the last slot is given out twice over.
Fits_OffByOne(size) ==
  /\ cur_slot <= nr_slots
  /\ Offset(size) <= pool_size
  /\ size <= pool_size - Offset(size)

Fits(size) ==
  /\ cur_slot < nr_slots
  /\ Offset(size) <= pool_size
  /\ size <= pool_size - Offset(size)

getmem(size) ==
  /\ pc = "idle"
  /\ Fits(size)
  /\ slots' = [slots EXCEPT ![cur_slot] =
                 [addr |-> Offset(size), size |-> size]]
  /\ cur_slot' = cur_slot + 1
  /\ held' = held \union {[addr |-> Offset(size), size |-> size]}
  /\ UNCHANGED <<poolVars, pc, searchVars>>

(* getmem() warns and returns NULL. *)
getmem_NULL(size) ==
  /\ pc = "idle"
  /\ ~Fits(size)
  /\ UNCHANGED memVars

-----------------------------------------------------------------------------
(* freemem() is called: the caller counts the block as given back. *)
freemem(a) ==
  /\ pc = "idle"
  /\ address' = a
  /\ held' = {b \in held : b.addr # a}
  /\ \/ cur_slot = 0 /\ UNCHANGED <<pc, i, j>>
     \/ /\ cur_slot > 0
        /\ i' = 0 /\ j' = cur_slot - 1
        /\ pc' = "search"
  /\ UNCHANGED <<poolVars, slots, cur_slot>>

(* free_slot(): the slot is marked as free; the last one is removed, with  *)
(* the free ones before it.                                                *)
free_slot(n) ==
  /\ slots' = [slots EXCEPT ![n].size = 0]
  /\ pc' = IF n = cur_slot - 1 THEN "pop" ELSE "idle"

\* Mutant: only the slot itself is removed.
pop_Once ==
  /\ pc = "pop"
  /\ cur_slot' = cur_slot - 1
  /\ pc' = "idle"
  /\ UNCHANGED <<poolVars, slots, searchVars, held>>

(* The loop of free_slot().  It looks at the size of a slot before it      *)
(* looks whether there is one, which at the beginning of the array makes   *)
(* no difference to the outcome.                                           *)
pop ==
  /\ pc = "pop"
  /\ \/ /\ cur_slot > 0 /\ slots[cur_slot - 1].size = 0
        /\ cur_slot' = cur_slot - 1
        /\ UNCHANGED pc
     \/ /\ ~(cur_slot > 0 /\ slots[cur_slot - 1].size = 0)
        /\ pc' = "idle"
        /\ UNCHANGED cur_slot
  /\ UNCHANGED <<poolVars, slots, searchVars, held>>

k == (i + j) \div 2

(* One turn of the loop of freemem(), by how the slot in the middle        *)
(* compares with the address.                                              *)
found ==
  /\ pc = "search"
  /\ slots[k].addr = address
  /\ free_slot(k)
  /\ UNCHANGED <<poolVars, cur_slot, searchVars, held>>

upper_half ==
  /\ pc = "search"
  /\ address > slots[k].addr
  /\ i # k
  /\ i' = k
  /\ pc' = IF k < j THEN "search" ELSE "idle"
  /\ UNCHANGED <<poolVars, slots, cur_slot, address, j, held>>

\* Mutant: the loop goes on when there is nothing left between the ends.
last_look_Again ==
  /\ pc = "search"
  /\ address > slots[k].addr
  /\ i = k
  /\ UNCHANGED memVars

\* Mutant: the loop ends without looking at the upper end.
last_look_Not ==
  /\ pc = "search"
  /\ address > slots[k].addr
  /\ i = k
  /\ pc' = "idle"
  /\ UNCHANGED <<poolVars, slots, cur_slot, searchVars, held>>

last_look ==
  /\ pc = "search"
  /\ address > slots[k].addr
  /\ i = k
  /\ \/ slots[j].addr = address /\ free_slot(j)
     \/ slots[j].addr # address /\ pc' = "idle" /\ UNCHANGED slots
  /\ UNCHANGED <<poolVars, cur_slot, searchVars, held>>

lower_half ==
  /\ pc = "search"
  /\ address < slots[k].addr
  /\ j' = k
  /\ pc' = IF i < k THEN "search" ELSE "idle"
  /\ UNCHANGED <<poolVars, slots, cur_slot, address, i, held>>

(* The rest of freemem() once it is called. *)
freemem_loop == found \/ upper_half \/ last_look \/ lower_half \/ pop

MemNext ==
  \/ \E size \in Sizes : getmem(size) \/ getmem_NULL(size)
  \/ \E a \in Addrs : freemem(a)
  \/ freemem_loop

MemSpec == MemInit /\ [][MemNext]_memVars

-----------------------------------------------------------------------------
(* No byte of the pool belongs to two blocks, and every block lies in the  *)
(* pool, whatever was freed in between and in which order.                 *)
NoOverlap ==
  /\ \A b \in held : b.addr + b.size <= pool_size
  /\ \A b, c \in held :
       b # c => b.addr + b.size <= c.addr \/ c.addr + c.size <= b.addr

(* When freemem() is done, the slots in use are exactly the blocks the     *)
(* callers hold: the search, which relies on the slots being sorted, has   *)
(* found the block if there was one, and has freed no other.               *)
FreedExactly ==
  pc = "idle" => held = {slots[n] : n \in {m \in Used : slots[m].size > 0}}

(* "aligned to the first natural power of 2 greater than or equal to @size *)
(* and not greater than page_size", as the comment on getmem() says.       *)
Aligned == \A b \in held : b.addr % align_size(b.size) = 0

(* No slot is lost for good: when everything is given back, the pool is as *)
(* it was at the beginning, although free slots are only removed from the  *)
(* end of the array.                                                       *)
EmptyAgain == pc = "idle" /\ held = {} => cur_slot = 0

(* What makes these hold: the slots are sorted and do not overlap, *)
(* the last one is in use, and the block to free is in the interval of the *)
(* search.                                                                 *)
Sorted ==
  \A m, n \in Used :
    m < n => /\ slots[m].addr + slots[m].size <= slots[n].addr
             /\ slots[m].addr < slots[n].addr

InPool == \A n \in Used : slots[n].addr + slots[n].size <= pool_size

LastInUse == pc # "pop" /\ cur_slot > 0 => slots[cur_slot - 1].size > 0

HeldInv ==
  /\ \A b \in held :
       /\ b.size > 0
       /\ \E n \in Used : slots[n] = b
       /\ pc = "search" => b.addr # address
  /\ \A n \in Used :
       slots[n].size > 0 =>
         \/ slots[n] \in held
         \/ pc = "search" /\ slots[n].addr = address

SearchInv ==
  pc = "search" =>
    \A n \in Used : slots[n].addr = address => i <= n /\ n <= j

(* The inductive invariant: the state of the pool between two steps of     *)
(* memalloc.c, from which the properties above follow.                     *)
IInv ==
  /\ TypeOK
  /\ Sorted
  /\ InPool
  /\ LastInUse
  /\ HeldInv
  /\ SearchInv
=============================================================================
