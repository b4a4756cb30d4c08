-------------------------- MODULE SwapReader_proofs --------------------------
(***************************************************************************)
(* What the swap_reader of load.c gets back, for arrays of extents and     *)
(* swap areas of any size.  The invariant is about the order on the disk:  *)
(* from each page of the image, the way the reader goes on (in the extent, *)
(* to the next one, to the next array) leads to the page with the next     *)
(* number.                                                                 *)
(***************************************************************************)
EXTENDS SwapWriter_proofs, SequenceTheorems

(* The array that belongs to swap page m has been written to it. *)
OnDisk(m) == maps[m][0].start < maps[m][0].end

(* The array that belongs to swap page m begins with page d of the image;   *)
(* it is on the disk, or it is the current one and page d is its first or   *)
(* will be.                                                                 *)
Begins(m, d) ==
    \/ OnDisk(m) /\ data[maps[m][0].start] = d
    \/ /\ m = extents_spc
       /\ ~OnDisk(m)
       /\ IF pc = "ready" /\ written > 0 THEN data[extents[0].start] = d
                                         ELSE d = written + 1

(* The pages of array e are numbered in the order in which the reader takes *)
(* them, and so is the first page of the array its last slot names.         *)
Complete(e) ==
    /\ e[max_extents].start \in Pages
    /\ \A t \in 0..(max_extents - 1) : \A p \in PagesOf(e[t]) :
         /\ p \in Pages /\ data[p] \in 1..written
         /\ p + 1 < e[t].end => data[p + 1] = data[p] + 1
         /\ p + 1 = e[t].end =>
              IF t + 1 < max_extents /\ e[t + 1].start < e[t + 1].end
              THEN data[e[t + 1].start] = data[p] + 1
              ELSE Begins(e[max_extents].start, data[p] + 1)

(* Page p of extent t is not ahead of the cursor. *)
Behind(t, p) == t < cur_extent_idx \/ (t = cur_extent_idx /\ p <= cur_offset)

(* The pages of the current array up to the cursor are numbered in order,   *)
(* and the one at the cursor is the last page saved.                        *)
CurInv ==
    pc \in {"ready", "saved"} =>
        /\ cur_extent_idx \in Nat /\ cur_offset \in Nat
        /\ cur_extent_idx < max_extents
        /\ \A t \in 0..cur_extent_idx : extents[t].start < extents[t].end
        /\ cur_offset < extents[cur_extent_idx].end
        /\ written = 0 => /\ cur_extent_idx = 0
                          /\ cur_offset = extents[0].start - 1
        /\ written > 0 => /\ cur_offset >= extents[cur_extent_idx].start
                          /\ data[cur_offset] = written
        /\ \A t \in 0..cur_extent_idx : \A p \in PagesOf(extents[t]) :
             Behind(t, p) =>
               /\ data[p] \in 1..written
               /\ p + 1 < extents[t].end /\ Behind(t, p + 1) =>
                    data[p + 1] = data[p] + 1
               /\ p + 1 = extents[t].end /\ t < cur_extent_idx =>
                    data[extents[t + 1].start] = data[p] + 1

(* The chain of arrays begins at map_start with page 1, and every array on  *)
(* the disk continues it; only the last one need not be used up.            *)
ChainInv ==
    pc # "failed" =>
        /\ map_start \in Pages /\ Begins(map_start, 1)
        /\ pc # "saved" => extents_spc \in meta /\ ~OnDisk(extents_spc)
        /\ pc = "saved" => extents_spc = 0 /\ written > 0
        /\ \A m \in Pages : OnDisk(m) =>
             /\ m \in meta
             /\ Complete(maps[m]) \/ (pc = "saved" /\ maps[m] = extents)

(* Arrays are on the disk; nothing is written before the first batch is     *)
(* allocated.                                                               *)
MapsInv ==
    /\ maps \in [Pages -> Array]
    /\ first => written = 0
    /\ pc = "ready" => ~first

WInv == MapsInv /\ CurInv /\ ChainInv

-------------------------------------------------------------------------------
(* Arrays on the disk. *)
LEMMA MapTypes ==
    ASSUME maps \in [Pages -> Array], NEW m \in Pages, NEW t \in Slots
    PROVE  maps[m] \in Array /\ maps[m][t].start \in Nat
           /\ maps[m][t].end \in Nat
<1>1. maps[m] \in Array
  OBVIOUS
<1> QED BY <1>1, SlotTypes

(* The slots that are no link. *)
LEMMA SlotRange ==
    /\ max_extents \in Nat /\ max_extents > 0
    /\ 0 \in Slots /\ max_extents \in Slots /\ 0 \in 0..(max_extents - 1)
    /\ \A t \in 0..(max_extents - 1) :
         t \in Slots /\ t \in Nat /\ t + 1 \in Slots /\ t # max_extents
BY SwapAssumption DEF Slots

(* An array that is in order stays so while pages are written elsewhere. *)
LEMMA CompleteKept ==
    ASSUME NEW e \in Array, Complete(e),
           data \in [Pages -> Nat], written \in Nat, written' \in Nat,
           written' >= written,
           \A p \in Pages : data[p] # 0 => data'[p] = data[p],
           \A d \in Nat \ {0} : Begins(e[max_extents].start, d) =>
                                  Begins(e[max_extents].start, d)'
    PROVE  Complete(e)'
<1>1. e[max_extents].start \in Pages
  BY DEF Complete
<1>2. ASSUME NEW t \in 0..(max_extents - 1), NEW p \in PagesOf(e[t])
      PROVE  /\ p \in Pages /\ data'[p] \in 1..written'
             /\ p + 1 < e[t].end => data'[p + 1] = data'[p] + 1
             /\ p + 1 = e[t].end =>
                  IF t + 1 < max_extents /\ e[t + 1].start < e[t + 1].end
                  THEN data'[e[t + 1].start] = data'[p] + 1
                  ELSE Begins(e[max_extents].start, data[p] + 1)'
  <2>1. /\ p \in Pages /\ data[p] \in 1..written
        /\ p + 1 < e[t].end => data[p + 1] = data[p] + 1
        /\ p + 1 = e[t].end =>
             IF t + 1 < max_extents /\ e[t + 1].start < e[t + 1].end
             THEN data[e[t + 1].start] = data[p] + 1
             ELSE Begins(e[max_extents].start, data[p] + 1)
    BY DEF Complete
  <2>2. data'[p] = data[p] /\ data[p] \in Nat /\ data[p] # 0
    BY <2>1
  <2>3. data'[p] \in 1..written'
    BY <2>1, <2>2
  <2>4. t \in Slots /\ t + 1 \in Slots /\ t \in Nat
    BY SlotRange
  <2>5. /\ e[t].start \in Nat /\ e[t].end \in Nat
        /\ e[t + 1].start \in Nat /\ e[t + 1].end \in Nat
    BY <2>4, SlotTypes
  <2>6. p + 1 < e[t].end => data'[p + 1] = data'[p] + 1
    <3> SUFFICES ASSUME p + 1 < e[t].end PROVE data'[p + 1] = data'[p] + 1
      OBVIOUS
    <3>1. p + 1 \in PagesOf(e[t])
      BY <2>5 DEF PagesOf
    <3>2. p + 1 \in Pages
      BY <3>1 DEF Complete
    <3> QED BY <2>1, <2>2, <3>2
  <2>7. CASE t + 1 < max_extents /\ e[t + 1].start < e[t + 1].end
    <3> SUFFICES ASSUME p + 1 = e[t].end
                 PROVE  data'[e[t + 1].start] = data'[p] + 1
      BY <2>1, <2>3, <2>6, <2>7
    <3>1. e[t + 1].start \in PagesOf(e[t + 1])
      BY <2>5, <2>7 DEF PagesOf
    <3>2. t + 1 \in 0..(max_extents - 1)
      BY <2>4, <2>7, SlotRange
    <3>3. e[t + 1].start \in Pages
      BY <3>1, <3>2, ZenonT(30) DEF Complete
    <3> QED BY <2>1, <2>2, <2>7, <3>3
  <2>8. CASE ~(t + 1 < max_extents /\ e[t + 1].start < e[t + 1].end)
    <3> SUFFICES ASSUME p + 1 = e[t].end
                 PROVE  Begins(e[max_extents].start, data[p] + 1)'
      BY <2>1, <2>3, <2>6, <2>8
    <3>1. PICK d \in Nat \ {0} : d = data[p] + 1
      BY <2>2
    <3>2. Begins(e[max_extents].start, d)
      BY <2>1, <2>8, <3>1
    <3>3. Begins(e[max_extents].start, d)' /\ d = data'[p] + 1
      BY <2>2, <3>1, <3>2
    <3> QED BY <3>3, Zenon DEF Begins, OnDisk
  <2> QED BY <2>7, <2>8
<1> QED BY <1>1, <1>2 DEF Complete

(* Of an array and of the page it is on the same is said. *)
LEMMA SameComplete ==
    ASSUME NEW f, NEW m, maps'[m] = f, Complete(f)'
    PROVE  Complete(maps[m])'
BY DEF Complete, Begins, OnDisk

(* And the same is said while nothing changes that it is about. *)
LEMMA CompleteStutters ==
    ASSUME NEW m, Complete(maps[m]),
           UNCHANGED <<pc, maps, data, extents, extents_spc, written>>
    PROVE  Complete(maps[m])'
<1>1. /\ pc' = pc /\ maps' = maps /\ data' = data /\ extents' = extents
      /\ extents_spc' = extents_spc /\ written' = written
  OBVIOUS
<1> QED BY <1>1, ZenonT(60) DEF Complete, Begins, OnDisk

(* So does the whole chain, while the arrays on the disk stay and the       *)
(* current one still begins with the same page.                             *)
LEMMA ChainKept ==
    ASSUME EInv, MapsInv, ChainInv, Alive, Alive',
           UNCHANGED <<maps, map_start, extents_spc>>, meta \subseteq meta',
           written' \in Nat, written' >= written,
           \A p \in Pages : data[p] # 0 => data'[p] = data[p],
           \A d \in Nat \ {0} : Begins(extents_spc, d) =>
                                  Begins(extents_spc, d)'
    PROVE  ChainInv'
<1>1. /\ map_start \in Pages /\ Begins(map_start, 1)
      /\ extents_spc \in meta /\ ~OnDisk(extents_spc)
      /\ \A m \in Pages : OnDisk(m) => m \in meta /\ Complete(maps[m])
  BY DEF ChainInv, Alive
<1>2. data \in [Pages -> Nat] /\ written \in Nat
  BY DEF EInv, TypeInv
<1>3. ASSUME NEW m, NEW d \in Nat \ {0}, Begins(m, d), m \in Pages
      PROVE  Begins(m, d)'
  <2>1. CASE OnDisk(m)
    <3>1. maps[m] \in Array /\ maps[m][0].start \in Nat
          /\ maps[m][0].end \in Nat
      BY <1>3, MapTypes, SlotRange DEF MapsInv
    <3>2. data[maps[m][0].start] = d
      BY <1>1, <1>3, <2>1 DEF Begins
    <3>3. maps[m][0].start \in Pages
      <4>1. maps[m][0].start \in PagesOf(maps[m][0])
        BY <2>1, <3>1 DEF OnDisk, PagesOf
      <4>2. Complete(maps[m])
        BY <1>1, <1>3, <2>1
      <4> QED BY <4>1, <4>2, SlotRange DEF Complete
    <3> QED BY <2>1, <3>2, <3>3 DEF Begins, OnDisk
  <2>2. CASE ~OnDisk(m)
    <3>1. m = extents_spc
      BY <1>3, <2>2 DEF Begins
    <3>2. Begins(extents_spc, d)'
      BY <1>3, <3>1
    <3> QED BY <3>1, <3>2 DEF Begins, OnDisk
  <2> QED BY <2>1, <2>2
<1>4. ASSUME NEW m \in Pages, OnDisk(m)
      PROVE  m \in meta' /\ Complete(maps[m])'
  <2>1. PICK e \in Array : e = maps[m]
    BY DEF MapsInv
  <2>2. Complete(e) /\ m \in meta
    BY <1>1, <1>4, <2>1
  <2>3. e[max_extents].start \in Pages
    BY <2>2 DEF Complete
  <2>4. \A d \in Nat \ {0} : Begins(e[max_extents].start, d) =>
                               Begins(e[max_extents].start, d)'
    <3> SUFFICES ASSUME NEW d \in Nat \ {0}, Begins(e[max_extents].start, d)
                 PROVE  Begins(e[max_extents].start, d)'
      OBVIOUS
    <3> QED BY <1>3, <2>3
  <2>5. Complete(e)'
    BY <1>2, <2>2, <2>4, CompleteKept
  <2>6. maps'[m] = e
    BY <2>1
  <2> QED BY <2>2, <2>5, <2>6, SameComplete
<1>5. Begins(map_start, 1)'
  <2>1. Begins(map_start, 1) /\ map_start \in Pages /\ 1 \in Nat \ {0}
    BY <1>1
  <2>2. PICK m \in Pages : m = map_start
    BY <1>1
  <2>3. Begins(m, 1)'
    BY <1>3, <2>1, <2>2
  <2> QED BY <2>2, <2>3 DEF Begins, OnDisk
<1>6. pc' # "saved" /\ pc' # "failed"
      /\ (OnDisk(extents_spc)' <=> OnDisk(extents_spc))
  BY DEF Alive, OnDisk
<1>7. \A m \in Pages : OnDisk(m)' => OnDisk(m)
  BY DEF OnDisk
<1> QED BY <1>1, <1>4, <1>5, <1>6, <1>7 DEF ChainInv

(* alloc_swap() writes nothing. *)
LEMMA AllocKeepsWInv ==
    ASSUME EInv, WInv,
           Preallocate \/ AllocInitial \/ AllocPage \/ MatchStart \/ MatchEnd
             \/ SearchOn \/ Place
    PROVE  WInv'
<1>1. /\ pc \in {"prealloc", "initial", "alloc", "search", "place"}
      /\ pc' \in {"initial", "alloc", "search", "place"}
      /\ UNCHANGED <<maps, meta, map_start, extents_spc, data, written, first>>
  BY DEF Preallocate, AllocInitial, AllocPage, MatchStart, MatchEnd, SearchOn,
         Place, Matched, handlevars, diskvars
<1>2. MapsInv'
  BY <1>1 DEF WInv, MapsInv
<1>3. CurInv'
  BY <1>1 DEF CurInv
<1>4. ChainInv'
  <2>1. Alive /\ Alive'
    BY <1>1 DEF Alive
  <2>2. \A d \in Nat \ {0} : Begins(extents_spc, d) => Begins(extents_spc, d)'
    BY <1>1 DEF Begins, OnDisk
  <2>3. written \in Nat
    BY DEF EInv, TypeInv
  <2> QED BY <1>1, <2>1, <2>2, <2>3, ChainKept DEF WInv
<1> QED BY <1>2, <1>3, <1>4 DEF WInv

(* Saving fails. *)
LEMMA FailKeepsWInv ==
    ASSUME WInv, Fail
    PROVE  WInv'
<1>1. pc' = "failed" /\ UNCHANGED <<maps, written, first>>
  BY DEF Fail, handlevars, diskvars
<1> QED BY <1>1 DEF WInv, MapsInv, CurInv, ChainInv

(* The pool is allocated: nothing is saved of it yet, or its first page. *)
LEMMA AllocDoneKeepsWInv ==
    ASSUME EInv, FInv, WInv, AllocDone
    PROVE  WInv'
<1> DEFINE a == extents[0].start
<1>1. /\ pc = "alloc" /\ pc' = "ready" /\ cur_extent_idx' = 0 /\ ~first'
      /\ UNCHANGED <<extents, maps, meta, map_start, extents_spc>>
  BY DEF AllocDone, WriteData, allocvars, diskvars
<1>2. \/ /\ written = 0 /\ cur_offset' = a - 1
         /\ UNCHANGED <<written, data>>
      \/ /\ cur_offset' = a /\ written' = written + 1
         /\ data' = [data EXCEPT ![a] = written + 1]
  <2>1. CASE first
    BY <2>1 DEF AllocDone, diskvars, WInv, MapsInv
  <2>2. CASE ~first
    BY <2>2 DEF AllocDone, WriteData
  <2> QED BY <2>1, <2>2
<1>3. /\ a \in pool /\ a \in Pages /\ a \in Nat /\ 0 \in 0..(nr - 1)
  BY <1>1, FirstPage
<1>4. /\ data \in [Pages -> Nat] /\ written \in Nat
      /\ data[a] = 0
  BY <1>1, <1>3 DEF EInv, TypeInv, FInv, FreshInv
<1>5. extents[0].start < extents[0].end /\ extents[0].end \in Nat
  BY <1>1, <1>3, ArrayTypes
  DEF EInv, ExactInv, Alive, Count, Exact, Ordered
<1>6. MapsInv'
  BY <1>1 DEF WInv, MapsInv
<1>7. CurInv'
  <2>1. CASE written = 0 /\ cur_offset' = a - 1 /\ UNCHANGED <<written, data>>
    <3>1. \A p \in PagesOf(extents[0]) : ~Behind(0, p)'
      BY <1>1, <1>3, <1>5, <2>1 DEF PagesOf, Behind
    <3>2. 0..0 = {0} /\ 0 < max_extents /\ a - 1 \in Nat
      BY <1>3, SlotRange DEF Pages
    <3> QED BY <1>1, <1>3, <1>5, <2>1, <3>1, <3>2 DEF CurInv, Behind
  <2>2. CASE /\ cur_offset' = a /\ written' = written + 1
             /\ data' = [data EXCEPT ![a] = written + 1]
    <3>1. data'[a] = written + 1
      BY <1>3, <1>4, <2>2
    <3>2. \A p \in PagesOf(extents[0]) : Behind(0, p)' => p = a
      BY <1>1, <1>3, <1>5, <2>2 DEF PagesOf, Behind
    <3>3. 0..0 = {0} /\ 0 < max_extents
      BY SlotRange
    <3>4. /\ written' > 0 /\ written' # 0 /\ data'[a] \in 1..written'
          /\ data'[a] = written'
      BY <1>4, <2>2, <3>1
    <3>5. ASSUME NEW p \in PagesOf(extents[0]), Behind(0, p)'
          PROVE  /\ data'[p] \in 1..written'
                 /\ ~Behind(0, p + 1)'
      <4>1. p = a
        BY <3>2, <3>5
      <4>2. data'[p] \in 1..written'
        BY <3>4, <4>1
      <4>3. ~Behind(0, p + 1)'
        BY <1>1, <1>3, <2>2, <4>1 DEF Behind
      <4> QED BY <4>2, <4>3
    <3>6. cur_offset' = a /\ cur_extent_idx' = 0 /\ extents' = extents
          /\ cur_offset' < extents'[0].end
      BY <1>1, <1>5, <2>2
    <3>7. \A t \in 0..cur_extent_idx' : t = 0
      BY <3>3, <3>6
    <3> QED BY <1>3, <1>5, <3>3, <3>4, <3>5, <3>6, <3>7
            DEF CurInv, Behind
  <2> QED BY <1>2, <2>1, <2>2
<1>8. ChainInv'
  <2>1. Alive /\ Alive'
    BY <1>1 DEF Alive
  <2>2. \A p \in Pages : data[p] # 0 => data'[p] = data[p]
    BY <1>2, <1>4
  <2>3. written' \in Nat /\ written' >= written
    BY <1>2, <1>4
  <2>4. ~OnDisk(extents_spc) /\ ~OnDisk(extents_spc)'
    BY <1>1 DEF WInv, ChainInv, OnDisk
  <2>5. \A d \in Nat \ {0} : Begins(extents_spc, d) => d = written + 1
    BY <1>1, <2>4 DEF Begins
  <2>6. (pc' = "ready" /\ written' > 0 => data'[a] = written + 1)
        /\ (written' = 0 => written' + 1 = written + 1)
    BY <1>2, <1>3, <1>4
  <2>7. ASSUME NEW d \in Nat \ {0}, Begins(extents_spc, d)
        PROVE  Begins(extents_spc, d)'
    BY <1>1, <2>3, <2>4, <2>5, <2>6, <2>7 DEF Begins
  <2> QED BY <1>1, <2>1, <2>2, <2>3, <2>7, ChainKept DEF WInv
<1> QED BY <1>6, <1>7, <1>8 DEF WInv

(* A page is saved: the cursor goes on to it, and it has the next number. *)
LEMMA SavePageKeepsWInv ==
    ASSUME EInv, FInv, WInv, SavePage
    PROVE  WInv'
<1> DEFINE c == cur_extent_idx
           o == cur_offset
           d == NextIdx
           q == NextOffset
<1>1. /\ pc = "ready" /\ pc' = "ready" /\ ~Exhausted
      /\ cur_extent_idx' = d /\ cur_offset' = q
      /\ written' = written + 1
      /\ data' = [data EXCEPT ![q] = written + 1]
      /\ UNCHANGED <<extents, maps, meta, map_start, extents_spc, first>>
  BY DEF SavePage, WriteData, allocvars
<1>2. /\ d \in Nat /\ d \in Slots /\ d < nr_extents /\ d \in 0..(nr - 1)
      /\ q \in Nat
      /\ extents[d].start <= q /\ q < extents[d].end
      /\ q \in Pages
      /\ \/ d = c /\ q = o + 1
         \/ d = c + 1 /\ q = extents[d].start /\ o + 1 = extents[c].end
  BY <1>1, NextPage DEF Taken
<1>3. /\ c \in Nat /\ o \in Nat /\ c < max_extents
      /\ \A t \in 0..c : extents[t].start < extents[t].end
      /\ written = 0 => c = 0 /\ o = extents[0].start - 1
      /\ written > 0 => o >= extents[c].start /\ data[o] = written
  BY <1>1 DEF WInv, CurInv
<1>4. ASSUME NEW t \in 0..c, NEW p \in PagesOf(extents[t]), Behind(t, p)
      PROVE  /\ data[p] \in 1..written
             /\ p + 1 < extents[t].end /\ Behind(t, p + 1) =>
                  data[p + 1] = data[p] + 1
             /\ p + 1 = extents[t].end /\ t < c =>
                  data[extents[t + 1].start] = data[p] + 1
  BY <1>1, <1>4 DEF WInv, CurInv
<1>5. /\ data \in [Pages -> Nat] /\ written \in Nat /\ data[q] = 0
      /\ data'[q] = written + 1
      /\ \A p \in Pages : p # q => data'[p] = data[p]
  <2>1. data \in [Pages -> Nat] /\ written \in Nat
    BY DEF EInv, TypeInv
  <2>2. data[q] = 0
    BY <1>1, SaveAhead DEF FInv, FreshInv
  <2> QED BY <1>1, <1>2, <2>1, <2>2
<1>6. /\ \A t \in Slots : /\ extents[t].start \in Nat
                          /\ extents[t].end \in Nat
                          /\ PagesOf(extents[t]) \subseteq Pages
      /\ \A t \in 0..c : t \in Slots /\ t \in Nat /\ t + 1 \in Slots
  <2>1. \A t \in Slots : extents[t].start \in Nat /\ extents[t].end \in Nat
    BY ArrayTypes DEF EInv
  <2>2. \A t \in Slots : PagesOf(extents[t]) \subseteq Pages
    BY DEF EInv, OwnInv, Taken
  <2>3. \A t \in 0..c : t \in Slots /\ t \in Nat /\ t + 1 \in Slots
    BY <1>3, SlotRange
  <2> QED BY <2>1, <2>2, <2>3
<1>7. d < max_extents
  BY <1>1, <1>2, SwapAssumption DEF EInv, TypeInv
<1>8. MapsInv'
  BY <1>1 DEF WInv, MapsInv
<1> HIDE DEF c, o, d, q
<1>9. c = cur_extent_idx /\ o = cur_offset
  BY DEF c, o
<1>10. ASSUME NEW t \in 0..d, NEW p \in PagesOf(extents[t]),
              t < d \/ (t = d /\ p <= q)
       PROVE  \/ t = d /\ p = q
              \/ t \in 0..c /\ (t < c \/ (t = c /\ p <= o)) /\ p \in Nat
                 /\ p \in Pages
  <2>1. t \in Slots /\ p \in Nat /\ p >= extents[t].start /\ p < extents[t].end
    BY <1>2, <1>3, <1>6, <1>7, SlotRange DEF PagesOf
  <2>2. p \in Pages
    BY <1>6, <2>1
  <2>3. CASE d = c /\ q = o + 1
    BY <1>2, <1>3, <1>10, <2>1, <2>2, <2>3
  <2>4. CASE d = c + 1 /\ q = extents[d].start /\ o + 1 = extents[c].end
    BY <1>2, <1>3, <1>6, <1>10, <2>1, <2>2, <2>4
  <2> QED BY <1>2, <2>3, <2>4
<1>11. ASSUME NEW t \in 0..d, NEW p \in PagesOf(extents[t]),
              t < d \/ (t = d /\ p <= q)
       PROVE  /\ data'[p] \in 1..(written + 1)
              /\ p + 1 < extents[t].end /\ (t < d \/ (t = d /\ p + 1 <= q)) =>
                   data'[p + 1] = data'[p] + 1
              /\ p + 1 = extents[t].end /\ t < d =>
                   data'[extents[t + 1].start] = data'[p] + 1
  <2>1. CASE t = d /\ p = q
    BY <1>2, <1>5, <2>1
  <2>2. CASE t \in 0..c /\ (t < c \/ (t = c /\ p <= o)) /\ p \in Nat
             /\ p \in Pages
    <3>1. /\ data[p] \in 1..written
          /\ p + 1 < extents[t].end /\ (t < c \/ (t = c /\ p + 1 <= o)) =>
               data[p + 1] = data[p] + 1
          /\ p + 1 = extents[t].end /\ t < c =>
               data[extents[t + 1].start] = data[p] + 1
      BY <1>4, <1>9, <2>2 DEF Behind, c
    <3>2. /\ p # q /\ data'[p] = data[p] /\ written > 0
          /\ data[p] \in Nat /\ data[p] # 0
      BY <1>5, <2>2, <3>1
    <3>3. o >= extents[c].start /\ data[o] = written
          /\ o \in PagesOf(extents[c])
      <4>1. o >= extents[c].start /\ data[o] = written
        BY <1>3, <3>2
      <4>2. o < extents[c].end
        BY <1>1, <1>9 DEF WInv, CurInv
      <4>3. c \in 0..c
        BY <1>3
      <4> QED BY <1>3, <1>6, <4>1, <4>2, <4>3 DEF PagesOf
    <3>4. /\ t \in Slots /\ p >= extents[t].start /\ p < extents[t].end
          /\ t \in Nat
      BY <1>6, <2>2 DEF PagesOf
    <3>5. ASSUME p + 1 < extents[t].end, t < d \/ (t = d /\ p + 1 <= q)
          PROVE  data'[p + 1] = data'[p] + 1
      <4>1. p + 1 \in Pages
        <5>1. p + 1 \in PagesOf(extents[t])
          BY <1>6, <3>4, <3>5, <2>2 DEF PagesOf
        <5> QED BY <5>1, <1>6, <3>4
      <4>2. CASE t < c \/ (t = c /\ p + 1 <= o)
        <5>1. data[p + 1] = data[p] + 1
          BY <3>1, <3>5, <4>2
        <5> QED BY <5>1, <4>1, <3>2, <1>5
      <4>3. CASE ~(t < c \/ (t = c /\ p + 1 <= o))
        <5>1. t = c /\ p = o
          BY <2>2, <4>3, <1>3
        <5>2. d = c /\ q = o + 1
          BY <5>1, <3>4, <3>5, <1>2, <1>3, <1>6, <2>2
        <5> QED BY <5>1, <5>2, <3>2, <3>3, <1>5
      <4> QED BY <4>2, <4>3
    <3>6. ASSUME p + 1 = extents[t].end, t < d
          PROVE  data'[extents[t + 1].start] = data'[p] + 1
      <4>1. CASE t < c
        <5>1. t + 1 \in 0..c /\ t + 1 \in Slots
          BY <4>1, <1>3, <2>2, <1>6
        <5>2. extents[t + 1].start \in PagesOf(extents[t + 1])
          BY <5>1, <1>3, <1>6 DEF PagesOf
        <5>3. extents[t + 1].start \in Pages
          BY <5>1, <5>2, <1>6
        <5>4. data[extents[t + 1].start] = data[p] + 1
          BY <3>1, <3>6, <4>1
        <5> QED BY <5>3, <5>4, <3>2, <1>5
      <4>2. CASE ~(t < c)
        <5>1. t = c /\ d = c + 1 /\ q = extents[d].start
              /\ o + 1 = extents[c].end
          BY <4>2, <3>6, <2>2, <1>2, <1>3, <3>4
        <5>2. p = o
          BY <5>1, <3>6, <1>3, <2>2
        <5> QED BY <5>1, <5>2, <3>2, <3>3, <1>5
      <4> QED BY <4>1, <4>2
    <3>7. data'[p] \in 1..(written + 1)
      BY <3>1, <3>2, <1>5
    <3> QED BY <3>5, <3>6, <3>7
  <2> QED BY <1>10, <1>11, <2>1, <2>2
<1>12. \A t \in 0..d : extents[t].start < extents[t].end
  BY <1>2, <1>3, <1>6
<1>13. CurInv'
  <2>1. written' > 0 /\ written' # 0 /\ q >= extents[d].start
        /\ data'[q] = written'
    BY <1>1, <1>2, <1>5, <1>6
  <2>2. cur_extent_idx' = d /\ cur_offset' = q /\ extents' = extents
        /\ written' = written + 1
    BY <1>1
  <2> QED BY <1>2, <1>7, <1>11, <1>12, <2>1, <2>2 DEF CurInv, Behind
<1>14. ChainInv'
  <2>1. Alive /\ Alive'
    BY <1>1 DEF Alive
  <2>2. \A p \in Pages : data[p] # 0 => data'[p] = data[p]
    BY <1>5
  <2>3. written' \in Nat /\ written' >= written /\ written' > 0
    BY <1>1, <1>5
  <2>4. ~OnDisk(extents_spc) /\ ~OnDisk(extents_spc)'
    BY <1>1 DEF WInv, ChainInv, OnDisk
  <2>5. extents[0].start \in Pages /\ extents[0].start \in Nat
    <3>1. 0 \in 0..c /\ 0 \in Slots
      BY <1>3, SlotRange
    <3>2. extents[0].start \in PagesOf(extents[0])
      BY <1>3, <1>6, <3>1 DEF PagesOf
    <3> QED BY <1>6, <3>1, <3>2
  <2>6. ASSUME NEW n \in Nat \ {0}, Begins(extents_spc, n)
        PROVE  data'[extents[0].start] = n
    <3>1. CASE written > 0
      <4>1. data[extents[0].start] = n
        BY <1>1, <2>4, <2>6, <3>1 DEF Begins
      <4> QED BY <4>1, <2>5, <2>2
    <3>2. CASE written = 0
      <4>1. n = 1
        BY <1>1, <2>4, <2>6, <3>2 DEF Begins
      <4>2. q = extents[0].start
        BY <1>2, <1>3, <1>12, <2>5, <3>2
      <4> QED BY <4>1, <4>2, <1>5, <3>2
    <3> QED BY <1>5, <3>1, <3>2
  <2>7. ASSUME NEW n \in Nat \ {0}, Begins(extents_spc, n)
        PROVE  Begins(extents_spc, n)'
    BY <1>1, <2>3, <2>4, <2>6, <2>7 DEF Begins
  <2> QED BY <1>1, <2>1, <2>2, <2>3, <2>7, ChainKept DEF WInv
<1> QED BY <1>8, <1>13, <1>14 DEF WInv

(* The current array is written to its page: whatever began with it still   *)
(* does.                                                                    *)
LEMMA SavedBegins ==
    ASSUME EInv, WInv, pc = "ready", written > 0,
           NEW e \in Array, e[0] = extents[0],
           maps' = [maps EXCEPT ![extents_spc] = e],
           UNCHANGED <<data, written>>,
           NEW m \in Pages, NEW d, Begins(m, d)
    PROVE  Begins(m, d)'
<1>1. extents_spc \in Pages /\ ~OnDisk(extents_spc)
      /\ maps \in [Pages -> Array]
  BY DEF WInv, ChainInv, MapsInv, EInv, TypeInv
<1>2. extents[0].start < extents[0].end
  BY DEF WInv, CurInv
<1>3. CASE m = extents_spc
  <2>1. data[extents[0].start] = d
    BY <1>1, <1>3 DEF Begins
  <2>2. maps'[m] = e
    BY <1>1, <1>3
  <2> QED BY <1>2, <2>1, <2>2 DEF Begins, OnDisk
<1>4. CASE m # extents_spc
  <2>1. OnDisk(m) /\ data[maps[m][0].start] = d
    BY <1>4 DEF Begins
  <2>2. maps'[m] = maps[m]
    BY <1>1, <1>4, ZenonT(30)
  <2> QED BY <2>1, <2>2 DEF Begins, OnDisk
<1> QED BY <1>3, <1>4

(* And the arrays that were on the disk are as they were. *)
LEMMA SavedComplete ==
    ASSUME EInv, WInv, pc = "ready", written > 0,
           NEW e \in Array, e[0] = extents[0],
           maps' = [maps EXCEPT ![extents_spc] = e],
           UNCHANGED <<data, written>>,
           NEW m \in Pages, OnDisk(m)
    PROVE  m \in meta /\ maps'[m] = maps[m] /\ Complete(maps[m])'
<1>1. /\ extents_spc \in Pages /\ ~OnDisk(extents_spc)
      /\ maps \in [Pages -> Array]
      /\ m \in meta /\ Complete(maps[m])
      /\ data \in [Pages -> Nat] /\ written \in Nat
  BY DEF WInv, ChainInv, MapsInv, EInv, TypeInv
<1>2. maps'[m] = maps[m]
  BY <1>1
<1>3. PICK f \in Array : f = maps[m]
  BY <1>1
<1>4. Complete(f) /\ f[max_extents].start \in Pages
  BY <1>1, <1>3 DEF Complete
<1>5. \A d \in Nat \ {0} : Begins(f[max_extents].start, d) =>
                             Begins(f[max_extents].start, d)'
  <2> SUFFICES ASSUME NEW d \in Nat \ {0}, Begins(f[max_extents].start, d)
               PROVE  Begins(f[max_extents].start, d)'
    OBVIOUS
  <2> QED BY <1>4, SavedBegins
<1>6. written' \in Nat /\ written' >= written
      /\ \A p \in Pages : data[p] # 0 => data'[p] = data[p]
  BY <1>1
<1>7. Complete(f)'
  BY <1>1, <1>4, <1>5, <1>6, CompleteKept
<1>8. maps'[m] = f
  BY <1>2, <1>3
<1> QED BY <1>1, <1>2, <1>7, <1>8, SameComplete

(* The pool is used up and its array saved: it is in order, and the next    *)
(* array will begin with the next page.                                     *)
LEMMA SaveFullKeepsWInv ==
    ASSUME EInv, FInv, WInv, NoMergeWithCompression, SaveFullExtents
    PROVE  WInv'
<1> DEFINE c == cur_extent_idx
           o == cur_offset
           s == c + 1
           some == extents[s].start < extents[s].end
           g == IF some THEN [extents EXCEPT ![s] = None] ELSE extents
<1>1. PICK p \in Pages :
        /\ p \in free
        /\ maps' = [maps EXCEPT ![extents_spc] = Linked(g, p)]
        /\ extents_spc' = p /\ meta' = meta \cup {p}
  BY DEF SaveFullExtents, GetSwapPage, Available
<1>2. /\ pc = "ready" /\ pc' = "prealloc" /\ More /\ Exhausted
      /\ UNCHANGED <<first, written, data, map_start>>
  BY DEF SaveFullExtents
<1>3. /\ c \in Nat /\ s \in Slots /\ o + 1 = extents[c].end
      /\ \/ s = max_extents
         \/ \A t \in Slots : t >= s => extents[t].start >= extents[t].end
  BY <1>2, UsedUp, BehindThePool
<1>4. /\ extents \in Array /\ max_extents \in Nat /\ max_extents > 0
      /\ 0 \in Slots /\ max_extents \in Slots /\ p \in Nat /\ s # 0
      /\ \A t \in Slots : extents[t].start \in Nat /\ extents[t].end \in Nat
      /\ \A t \in Slots : t \in Nat /\ t <= max_extents
      /\ s \in Nat /\ c < s
  BY <1>3, ArrayTypes, SlotRange DEF EInv, Slots, Pages
<1>5. some => s = max_extents
  BY <1>3, <1>4
<1>6. g \in Array /\ \A t \in Slots : t # max_extents => g[t] = extents[t]
  <2>1. CASE some
    BY <1>3, <1>4, <1>5, <2>1 DEF Array, Extent, None
  <2>2. CASE ~some
    BY <1>4, <2>2
  <2> QED BY <2>1, <2>2
<1> HIDE DEF g
<1>7. PICK e \in Array :
        /\ e = Linked(g, p) /\ e[max_extents].start = p
        /\ \A t \in Slots : t # max_extents => e[t] = extents[t]
  <2>1. /\ Linked(g, p) \in Array /\ Linked(g, p)[max_extents].start = p
        /\ \A t \in Slots : t # max_extents => Linked(g, p)[t] = extents[t]
    BY <1>4, <1>6 DEF Linked, Array, Extent
  <2> QED BY <2>1
<1> HIDE DEF c, o, some
<1>8. /\ o \in Nat /\ c < max_extents
      /\ \A t \in 0..c : extents[t].start < extents[t].end
      /\ o < extents[c].end
      /\ written = 0 => c = 0 /\ o = extents[0].start - 1
      /\ written > 0 => o >= extents[c].start /\ data[o] = written
      /\ written \in Nat /\ data \in [Pages -> Nat]
  BY <1>2 DEF WInv, CurInv, c, o, EInv, TypeInv
<1>9. written > 0
  <2> SUFFICES ASSUME written = 0 PROVE FALSE
    BY <1>8
  <2>1. 0 \in 0..c
    BY <1>3
  <2> QED BY <1>3, <1>4, <1>8, <2>1
<1>10. ASSUME NEW t \in 0..c, NEW q \in PagesOf(extents[t])
       PROVE  /\ q \in Pages /\ q \in Nat /\ q < extents[t].end
              /\ data[q] \in 1..written
              /\ q + 1 < extents[t].end => data[q + 1] = data[q] + 1
              /\ q + 1 = extents[t].end /\ t < c =>
                   data[extents[t + 1].start] = data[q] + 1
              /\ q + 1 = extents[t].end /\ t = c => data[q] = written
  <2>1. t \in Slots /\ t \in Nat /\ t <= c
    BY <1>3, <1>4, <1>8 DEF Slots
  <2>2. q \in Nat /\ q < extents[t].end /\ q \in Pages
    <3>1. q \in Pages
      BY <2>1 DEF EInv, OwnInv, Taken
    <3> QED BY <1>4, <2>1, <3>1 DEF PagesOf, Pages
  <2>3. Behind(t, q) /\ (q + 1 < extents[t].end => Behind(t, q + 1))
    BY <1>3, <1>8, <2>1, <2>2 DEF Behind, c, o
  <2>4. /\ data[q] \in 1..written
        /\ q + 1 < extents[t].end /\ Behind(t, q + 1) =>
             data[q + 1] = data[q] + 1
        /\ q + 1 = extents[t].end /\ t < c =>
             data[extents[t + 1].start] = data[q] + 1
    BY <1>2, <2>3 DEF WInv, CurInv, c
  <2>5. q + 1 = extents[t].end /\ t = c => data[q] = written
    BY <1>3, <1>8, <1>9, <2>2
  <2> QED BY <2>2, <2>3, <2>4, <2>5
<1>11. /\ ~OnDisk(p) /\ p # extents_spc /\ extents_spc \in meta
       /\ extents_spc \in Pages /\ maps \in [Pages -> Array]
       /\ maps' = [maps EXCEPT ![extents_spc] = e]
  BY <1>1, <1>2, <1>7 DEF WInv, ChainInv, MapsInv, EInv, OwnInv, TypeInv
<1>12. \A n \in Nat : n = written + 1 => Begins(p, n)'
  <2>1. ~OnDisk(p)'
    BY <1>11 DEF OnDisk
  <2> QED BY <1>1, <1>2, <2>1 DEF Begins
<1>13. Complete(e)'
  <2> SUFFICES ASSUME NEW t \in 0..(max_extents - 1), NEW q \in PagesOf(e[t])
               PROVE  /\ q \in Pages /\ data[q] \in 1..written
                      /\ q + 1 < e[t].end => data[q + 1] = data[q] + 1
                      /\ q + 1 = e[t].end =>
                           IF /\ t + 1 < max_extents
                              /\ e[t + 1].start < e[t + 1].end
                           THEN data[e[t + 1].start] = data[q] + 1
                           ELSE Begins(p, data[q] + 1)'
    BY <1>2, <1>7 DEF Complete
  <2>1. t \in Slots /\ t \in Nat /\ t # max_extents /\ e[t] = extents[t]
        /\ t + 1 \in Slots /\ t < max_extents
    BY <1>7, SlotRange
  <2>2. t <= c
    <3> SUFFICES ASSUME t > c PROVE FALSE
      BY <1>3, <2>1
    <3>1. t >= s /\ s # max_extents
      BY <1>3, <1>4, <2>1 DEF s
    <3>2. extents[t].start >= extents[t].end
      BY <1>3, <2>1, <3>1
    <3> QED BY <3>2, <1>4, <2>1 DEF PagesOf
  <2>3. t \in 0..c
    BY <1>3, <2>1, <2>2
  <2>4. /\ q \in Pages /\ q \in Nat /\ q < extents[t].end
        /\ data[q] \in 1..written
        /\ q + 1 < extents[t].end => data[q + 1] = data[q] + 1
        /\ q + 1 = extents[t].end /\ t < c =>
             data[extents[t + 1].start] = data[q] + 1
        /\ q + 1 = extents[t].end /\ t = c => data[q] = written
    BY <1>10, <2>1, <2>3
  <2>5. CASE t < c
    <3>1. t + 1 \in 0..c /\ t + 1 < max_extents
      BY <1>3, <1>4, <1>8, <2>1, <2>5
    <3>2. e[t + 1] = extents[t + 1]
          /\ extents[t + 1].start < extents[t + 1].end
      BY <1>7, <1>8, <2>1, <3>1, <1>4
    <3> QED BY <2>1, <2>4, <2>5, <3>1, <3>2
  <2>6. CASE t = c
    <3>1. ~(t + 1 < max_extents /\ e[t + 1].start < e[t + 1].end)
      <4> SUFFICES ASSUME t + 1 < max_extents
                   PROVE  ~(e[t + 1].start < e[t + 1].end)
        OBVIOUS
      <4>1. t + 1 = s /\ s # max_extents /\ s >= s
        BY <2>6, <1>4 DEF s
      <4>2. e[t + 1] = extents[s]
        BY <1>7, <2>1, <4>1
      <4> QED BY <1>3, <1>4, <4>1, <4>2
    <3>2. ASSUME q + 1 = extents[t].end PROVE Begins(p, data[q] + 1)'
      <4>1. PICK n \in Nat : n = written + 1
        BY <1>8
      <4>2. Begins(p, n)' /\ n = data'[q] + 1
        BY <1>2, <1>12, <2>4, <2>6, <3>2, <4>1
      <4> QED BY <4>2 DEF Begins, OnDisk
    <3> QED BY <2>1, <2>4, <2>6, <3>1, <3>2
  <2> QED BY <1>3, <2>1, <2>2, <2>5, <2>6
<1>14. e[0] = extents[0]
  BY <1>4, <1>7
<1>15. MapsInv'
  <2>1. maps' \in [Pages -> Array]
    BY <1>7, <1>11
  <2> QED BY <1>2, <2>1 DEF WInv, MapsInv
<1>16. CurInv'
  BY <1>2 DEF CurInv
<1>17. ChainInv'
  <2>1. map_start \in Pages /\ Begins(map_start, 1)
    BY <1>2 DEF WInv, ChainInv
  <2>2. Begins(map_start, 1)'
    <3>1. PICK m \in Pages : m = map_start
      BY <2>1
    <3>2. Begins(m, 1)'
      BY <1>2, <1>7, <1>9, <1>11, <1>14, <2>1, <3>1, SavedBegins
    <3> QED BY <1>2, <3>1, <3>2 DEF Begins, OnDisk
  <2>3. extents_spc' \in meta' /\ ~OnDisk(extents_spc)'
    BY <1>1, <1>11 DEF OnDisk
  <2>4. ASSUME NEW m \in Pages, OnDisk(m)'
        PROVE  m \in meta' /\ Complete(maps[m])'
    <3>1. CASE m = extents_spc
      <4>1. maps'[m] = e
        BY <1>11, <3>1
      <4> QED BY <1>1, <1>11, <1>13, <3>1, <4>1, SameComplete
    <3>2. CASE m # extents_spc
      <4>1. OnDisk(m)
        BY <1>11, <2>4, <3>2 DEF OnDisk
      <4> QED BY <1>1, <1>2, <1>7, <1>9, <1>11, <1>14, <4>1, SavedComplete
    <3> QED BY <3>1, <3>2
  <2> QED BY <1>2, <2>1, <2>2, <2>3, <2>4 DEF ChainInv
<1> QED BY <1>15, <1>16, <1>17 DEF WInv

(* The last array is saved. *)
LEMMA FinishKeepsWInv ==
    ASSUME EInv, WInv, Finish
    PROVE  WInv'
<1>1. /\ pc = "ready" /\ pc' = "saved" /\ written > 0 /\ extents_spc' = 0
      /\ maps' = [maps EXCEPT ![extents_spc] = extents]
      /\ UNCHANGED <<extents, cur_extent_idx, cur_offset, first, written, data,
                     meta, map_start>>
  BY DEF Finish, allocvars
<1>2. /\ extents \in Array /\ extents_spc \in Pages
      /\ extents_spc \in meta /\ maps \in [Pages -> Array]
      /\ map_start \in Pages /\ Begins(map_start, 1)
  BY <1>1 DEF EInv, TypeInv, WInv, ChainInv, MapsInv
<1>3. MapsInv'
  <2>1. maps' \in [Pages -> Array]
    BY <1>1, <1>2
  <2> QED BY <1>1, <2>1 DEF WInv, MapsInv
<1>4. CurInv'
  BY <1>1 DEF WInv, CurInv, Behind
<1>5. ChainInv'
  <2>1. Begins(map_start, 1)'
    <3>1. PICK m \in Pages : m = map_start
      BY <1>2
    <3>2. Begins(m, 1)'
      BY <1>1, <1>2, <3>1, SavedBegins
    <3> QED BY <1>1, <3>1, <3>2 DEF Begins, OnDisk
  <2>2. ASSUME NEW m \in Pages, OnDisk(m)'
        PROVE  /\ m \in meta'
               /\ Complete(maps[m])' \/ maps'[m] = extents'
    <3>1. CASE m = extents_spc
      BY <1>1, <1>2, <3>1
    <3>2. CASE m # extents_spc
      <4>1. OnDisk(m)
        BY <1>1, <1>2, <2>2, <3>2 DEF OnDisk
      <4> QED BY <1>1, <1>2, <4>1, SavedComplete
    <3> QED BY <3>1, <3>2
  <2> QED BY <1>1, <1>2, <2>1, <2>2 DEF ChainInv
<1> QED BY <1>3, <1>4, <1>5 DEF WInv

(* At the start nothing is on the disk, and page 1 will be the first of the *)
(* current array.                                                           *)
LEMMA InitWInv == Init => WInv
<1> SUFFICES ASSUME Init PROVE WInv
  OBVIOUS
<1>1. /\ pc = "prealloc" /\ first /\ written = 0 /\ map_start \in Pages
      /\ extents_spc = map_start /\ map_start \in meta
      /\ maps = [p \in Pages |-> EmptyMap]
  BY DEF Init
<1>2. EmptyMap \in Array /\ EmptyMap[0] = None
  BY SlotRange DEF EmptyMap, Array, Extent, None
<1>3. \A m \in Pages : ~OnDisk(m)
  BY <1>1, <1>2 DEF OnDisk, None
<1>4. Begins(map_start, 1)
  BY <1>1, <1>3 DEF Begins
<1>5. MapsInv
  BY <1>1, <1>2 DEF MapsInv
<1>6. CurInv
  BY <1>1 DEF CurInv
<1>7. ChainInv
  BY <1>1, <1>3, <1>4 DEF ChainInv
<1> QED BY <1>5, <1>6, <1>7 DEF WInv

(* The reader, and steps that change nothing. *)
LEMMA StutterKeepsWInv ==
    ASSUME WInv, UNCHANGED vars
    PROVE  WInv'
<1>1. UNCHANGED <<pc, extents, cur_extent_idx, cur_offset, extents_spc, first,
                  written, data, maps, meta, map_start>>
  BY DEF vars, allocvars, handlevars, diskvars
<1>2. MapsInv'
  BY <1>1 DEF WInv, MapsInv
<1>3. CurInv'
  BY <1>1, SMTT(30) DEF WInv, CurInv, Behind
<1>4. ChainInv'
  <2>1. \A m : OnDisk(m)' <=> OnDisk(m)
    BY <1>1 DEF OnDisk
  <2>2. Begins(map_start, 1) => Begins(map_start, 1)'
    BY <1>1 DEF Begins, OnDisk
  <2>3. ASSUME NEW m \in Pages, Complete(maps[m]) PROVE Complete(maps[m])'
    BY <1>1, <2>3, CompleteStutters
  <2>4. OnDisk(extents_spc)' <=> OnDisk(extents_spc)
    BY <1>1 DEF OnDisk
  <2> QED BY <1>1, <2>1, <2>2, <2>3, <2>4 DEF WInv, ChainInv
<1> QED BY <1>2, <1>3, <1>4 DEF WInv

(* Every step keeps it. *)
LEMMA NextWInv ==
    ASSUME EInv, FInv, WInv, NoMergeWithCompression, [RNext]_allvars
    PROVE  WInv'
<1>1. CASE UNCHANGED vars
  BY <1>1, StutterKeepsWInv
<1>2. CASE WriterNext
  <2>1. CASE Preallocate \/ AllocInitial \/ AllocPage \/ MatchStart
             \/ MatchEnd \/ SearchOn \/ Place
    BY <2>1, AllocKeepsWInv
  <2>2. CASE PreallocateNothing \/ AllocFails \/ SaveFails
    <3>1. Fail
      BY <2>2 DEF PreallocateNothing, AllocFails, SaveFails
    <3> QED BY <3>1, FailKeepsWInv
  <2>3. CASE AllocDone
    BY <2>3, AllocDoneKeepsWInv
  <2>4. CASE SavePage
    BY <2>4, SavePageKeepsWInv
  <2>5. CASE SaveFullExtents
    BY <2>5, SaveFullKeepsWInv
  <2>6. CASE Finish
    BY <2>6, FinishKeepsWInv
  <2> QED BY <1>2, <2>1, <2>2, <2>3, <2>4, <2>5, <2>6 DEF WriterNext
<1> QED BY <1>1, <1>2, WriterSteps

-------------------------------------------------------------------------------
(* The reader.                                                              *)

(* It has the array of swap page m and is at the page of the image that is  *)
(* to be loaded next; in the last array, that one was saved.                *)
At(m) ==
    /\ OnDisk(m)
    /\ r_extents = [maps[m] EXCEPT ![max_extents] = None]
    /\ next_extents = maps[m][max_extents].start
    /\ r_idx \in 0..(max_extents - 1) /\ r_offset \in PagesOf(maps[m][r_idx])
    /\ data[r_offset] = Len(loaded) + 1
    /\ \/ Complete(maps[m])
       \/ /\ maps[m] = extents
          /\ r_idx <= cur_extent_idx /\ Behind(r_idx, r_offset)

(* What was loaded is the beginning of the image, and the reader is at the  *)
(* next page as long as there is one.                                       *)
ReadInv ==
    /\ loaded \in Seq(Nat) /\ total_size \in Nat
    /\ \A n \in 1..Len(loaded) : loaded[n] = n
    /\ rpc = "off" => loaded = <<>>
    /\ rpc # "off" => pc = "saved" /\ Len(loaded) + total_size = written
    /\ rpc = "loaded" => total_size = 0
    /\ rpc = "failed" => "read" \in Faults
    /\ rpc = "load" /\ total_size > 0 => \E m \in Pages : At(m)

(* Loading an array that begins with the page to be loaded next leads to it. *)
LEMMA EntersArray ==
    ASSUME EInv, WInv, pc = "saved", UNCHANGED vars,
           NEW m \in Pages, NEW d \in Nat, Begins(m, d), d = Len(loaded') + 1,
           LoadExtentsPage(m)
    PROVE  At(m)'
<1>1. /\ m # 0 /\ extents_spc = 0 /\ written > 0
      /\ maps \in [Pages -> Array] /\ maps[m] \in Array
  BY DEF WInv, ChainInv, MapsInv, Pages
<1>2. OnDisk(m) /\ data[maps[m][0].start] = d
  BY <1>1 DEF Begins
<1>3. /\ maps[m][0].start \in Nat /\ maps[m][0].end \in Nat
      /\ maps[m][0].start < maps[m][0].end
  BY <1>1, <1>2, MapTypes, SlotRange DEF OnDisk
<1>4. /\ next_extents' = maps[m][max_extents].start
      /\ r_extents' = [maps[m] EXCEPT ![max_extents] = None]
      /\ r_idx' = 0 /\ r_offset' = maps[m][0].start
  BY <1>1 DEF LoadExtentsPage
<1>5. UNCHANGED <<pc, maps, data, extents, extents_spc, written,
                  cur_extent_idx, cur_offset>>
  BY DEF vars, allocvars, handlevars, diskvars
<1>6. \/ Complete(maps[m])
      \/ /\ maps[m] = extents /\ 0 <= cur_extent_idx
         /\ Behind(0, maps[m][0].start)
  <2>1. CASE maps[m] = extents
    <3>1. /\ cur_extent_idx \in Nat /\ cur_offset \in Nat
          /\ cur_offset >= extents[cur_extent_idx].start
      BY <1>1 DEF WInv, CurInv
    <3>2. Behind(0, maps[m][0].start)
      BY <1>3, <2>1, <3>1 DEF Behind
    <3> QED BY <2>1, <3>1, <3>2
  <2>2. CASE maps[m] # extents
    BY <1>2, <2>2 DEF WInv, ChainInv
  <2> QED BY <2>1, <2>2
<1>7. 0 \in 0..(max_extents - 1) /\ maps[m][0].start \in PagesOf(maps[m][0])
  BY <1>3, SlotRange, SMTT(30) DEF PagesOf
<1>8. OnDisk(m)' /\ (Complete(maps[m]) => Complete(maps[m])')
      /\ (Behind(0, maps[m][0].start) => Behind(0, maps[m][0].start)')
  <2>1. OnDisk(m)'
    BY <1>2, <1>5 DEF OnDisk
  <2>2. Complete(maps[m]) => Complete(maps[m])'
    BY <1>5, CompleteStutters
  <2>3. Behind(0, maps[m][0].start) => Behind(0, maps[m][0].start)'
    BY <1>5 DEF Behind
  <2> QED BY <2>1, <2>2, <2>3
<1>9. r_offset' \in PagesOf(maps'[m][0]) /\ data'[r_offset'] = Len(loaded') + 1
  BY <1>2, <1>4, <1>5, <1>7
<1>10. \/ Complete(maps[m])'
       \/ /\ maps'[m] = extents'
          /\ r_idx' <= cur_extent_idx' /\ Behind(r_idx, r_offset)'
  BY <1>4, <1>5, <1>6, <1>8 DEF Behind
<1> QED BY <1>4, <1>5, <1>7, <1>8, <1>9, <1>10 DEF At

(* find_next_image_page() goes on to the page of the image with the next    *)
(* number, wherever that is, as long as there is one.                       *)
LEMMA FindsNextPage ==
    ASSUME EInv, WInv, pc = "saved", UNCHANGED vars, loaded \in Seq(Nat),
           NEW m \in Pages, At(m), Len(loaded) + 1 < written,
           Len(loaded') = Len(loaded) + 1, FindNextImagePage
    PROVE  \E n \in Pages : At(n)'
<1>1. UNCHANGED <<pc, maps, data, extents, extents_spc, written,
                  cur_extent_idx, cur_offset>>
  BY DEF vars, allocvars, handlevars, diskvars
<1>2. PICK e \in Array : e = maps[m]
  BY DEF WInv, MapsInv
<1>3. PICK t \in 0..(max_extents - 1) :
        \E p \in PagesOf(e[t]) : t = r_idx /\ p = r_offset
  BY <1>2 DEF At
<1> PICK p \in PagesOf(e[t]) : t = r_idx /\ p = r_offset
  BY <1>3
<1>4. PICK d \in Nat : d = Len(loaded) + 1
  BY LenProperties
<1>5. /\ data[p] = d /\ d < written /\ d + 1 = Len(loaded') + 1
      /\ written \in Nat
  BY <1>3, <1>4 DEF At, EInv, TypeInv
<1>6. /\ t \in Nat /\ t \in Slots /\ t + 1 \in Slots /\ t < max_extents
      /\ max_extents \in Slots /\ max_extents \in Nat
      /\ e[t].start \in Nat /\ e[t].end \in Nat
      /\ e[t + 1].start \in Nat /\ e[t + 1].end \in Nat
  BY SlotRange, SlotTypes
<1>7. p \in Nat /\ e[t].start <= p /\ p < e[t].end
  BY <1>6, SMTT(30) DEF PagesOf
<1>8. /\ r_extents = [e EXCEPT ![max_extents] = None]
      /\ next_extents = e[max_extents].start
      /\ \A u \in Slots : u # max_extents => r_extents[u] = e[u]
      /\ r_extents[max_extents].start = 0 /\ r_extents[max_extents].end = 0
  BY <1>2, <1>6 DEF At, Array, None
(* In the last array there is a page saved after this one. *)
<1>9. ASSUME e = extents, t <= cur_extent_idx, Behind(t, p)
      PROVE  /\ cur_extent_idx \in Nat /\ cur_offset \in Nat
             /\ cur_extent_idx < max_extents
             /\ p + 1 < e[t].end => Behind(t, p + 1) /\ data[p + 1] = d + 1
             /\ p + 1 = e[t].end =>
                  /\ t < cur_extent_idx
                  /\ e[t + 1].start < e[t + 1].end
                  /\ data[e[t + 1].start] = d + 1
                  /\ Behind(t + 1, e[t + 1].start)
  <2>1. /\ cur_extent_idx \in Nat /\ cur_offset \in Nat
        /\ cur_extent_idx < max_extents
        /\ \A u \in 0..cur_extent_idx : extents[u].start < extents[u].end
        /\ cur_offset < extents[cur_extent_idx].end
        /\ cur_offset >= extents[cur_extent_idx].start
        /\ data[cur_offset] = written
    BY DEF WInv, CurInv, ChainInv
  <2>2. t \in 0..cur_extent_idx
    BY <1>6, <1>9, <2>1
  <2>3. /\ p + 1 < e[t].end /\ Behind(t, p + 1) => data[p + 1] = d + 1
        /\ p + 1 = e[t].end /\ t < cur_extent_idx =>
             data[e[t + 1].start] = d + 1
    BY <1>5, <1>9, <2>2 DEF WInv, CurInv
  <2>4. p # cur_offset
    BY <1>5, <2>1
  <2>5. p + 1 < e[t].end => Behind(t, p + 1)
    BY <1>7, <1>9, <2>1, <2>4 DEF Behind
  <2>6. p + 1 = e[t].end => t < cur_extent_idx
    BY <1>6, <1>7, <1>9, <2>1, <2>4 DEF Behind
  <2>7. t < cur_extent_idx => /\ e[t + 1].start < e[t + 1].end
                              /\ Behind(t + 1, e[t + 1].start)
    <3> SUFFICES ASSUME t < cur_extent_idx
                 PROVE  /\ e[t + 1].start < e[t + 1].end
                        /\ Behind(t + 1, e[t + 1].start)
      OBVIOUS
    <3>1. t + 1 \in 0..cur_extent_idx
      BY <1>6, <2>1
    <3>2. t + 1 < cur_extent_idx \/ t + 1 = cur_extent_idx
      BY <1>6, <2>1
    <3> QED BY <1>9, <2>1, <3>1, <3>2 DEF Behind
  <2> QED BY <2>1, <2>3, <2>5, <2>6, <2>7
<1>10. \/ Complete(e)
       \/ e = extents /\ t <= cur_extent_idx /\ Behind(t, p)
  BY <1>2, <1>3 DEF At
(* It is in the same array. *)
<1>11. ASSUME NEW u \in 0..(max_extents - 1), NEW q \in PagesOf(e[u]),
              r_idx' = u, r_offset' = q, UNCHANGED <<r_extents, next_extents>>,
              data[q] = d + 1,
              \/ Complete(e)
              \/ e = extents /\ u <= cur_extent_idx /\ Behind(u, q)
       PROVE  At(m)'
  <2>1. OnDisk(m)' /\ maps'[m] = e
    BY <1>1, <1>2 DEF At, OnDisk
  <2>2. \/ Complete(maps[m])'
        \/ /\ maps'[m] = extents'
           /\ r_idx' <= cur_extent_idx' /\ Behind(r_idx, r_offset)'
    <3>1. CASE Complete(e)
      BY <1>1, <2>1, <3>1 DEF Complete, Begins, OnDisk
    <3>2. CASE e = extents /\ u <= cur_extent_idx /\ Behind(u, q)
      BY <1>1, <1>11, <2>1, <3>2 DEF Behind
    <3> QED BY <1>11, <3>1, <3>2
  <2>3. data'[r_offset'] = Len(loaded') + 1
    BY <1>1, <1>5, <1>11
  <2>4. /\ r_extents' = [maps'[m] EXCEPT ![max_extents] = None]
        /\ next_extents' = maps'[m][max_extents].start
    BY <1>8, <1>11, <2>1
  <2>5. r_idx' \in 0..(max_extents - 1)
        /\ r_offset' \in PagesOf(maps'[m][r_idx'])
    BY <1>11, <2>1
  <2> QED BY <2>1, <2>2, <2>3, <2>4, <2>5 DEF At
<1>12. CASE p + 1 < e[t].end
  <2>1. r_idx' = t /\ r_offset' = p + 1
        /\ UNCHANGED <<r_extents, next_extents>>
    BY <1>3, <1>6, <1>8, <1>12 DEF FindNextImagePage
  <2>2. p + 1 \in PagesOf(e[t])
    BY <1>6, <1>7, <1>12, SMTT(30) DEF PagesOf
  <2>3. /\ data[p + 1] = d + 1
        /\ \/ Complete(e)
           \/ e = extents /\ t <= cur_extent_idx /\ Behind(t, p + 1)
    <3>1. CASE Complete(e)
      <4>1. data[p + 1] = data[p] + 1
        BY <1>12, <3>1 DEF Complete
      <4> QED BY <1>5, <3>1, <4>1
    <3>2. CASE e = extents /\ t <= cur_extent_idx /\ Behind(t, p)
      BY <1>9, <1>12, <3>2
    <3> QED BY <1>10, <3>1, <3>2
  <2>4. At(m)'
    BY <1>11, <2>1, <2>2, <2>3
  <2> QED BY <2>4
<1>13. CASE /\ ~(p + 1 < e[t].end)
            /\ r_extents[t + 1].start < r_extents[t + 1].end
  <2>1. t + 1 # max_extents
    BY <1>8, <1>13
  <2>2. /\ t + 1 \in 0..(max_extents - 1) /\ t + 1 < max_extents
        /\ r_extents[t + 1] = e[t + 1] /\ e[t + 1].start < e[t + 1].end
    BY <1>6, <1>8, <1>13, <2>1
  <2>3. r_idx' = t + 1 /\ r_offset' = e[t + 1].start
        /\ UNCHANGED <<r_extents, next_extents>>
    BY <1>3, <1>6, <1>8, <1>13, <2>2 DEF FindNextImagePage
  <2>4. p + 1 = e[t].end /\ e[t + 1].start \in PagesOf(e[t + 1])
    <3>1. p + 1 = e[t].end
      BY <1>6, <1>7, <1>13
    <3>2. e[t + 1].start \in PagesOf(e[t + 1])
      BY <1>6, <2>2, SMTT(30) DEF PagesOf
    <3> QED BY <3>1, <3>2
  <2>5. /\ data[e[t + 1].start] = d + 1
        /\ \/ Complete(e)
           \/ /\ e = extents /\ t + 1 <= cur_extent_idx
              /\ Behind(t + 1, e[t + 1].start)
    <3>1. CASE Complete(e)
      <4>1. data[e[t + 1].start] = data[p] + 1
        BY <2>2, <2>4, <3>1 DEF Complete
      <4> QED BY <1>5, <3>1, <4>1
    <3>2. CASE e = extents /\ t <= cur_extent_idx /\ Behind(t, p)
      <4>1. /\ cur_extent_idx \in Nat /\ t < cur_extent_idx
            /\ data[e[t + 1].start] = d + 1
            /\ Behind(t + 1, e[t + 1].start)
        BY <1>9, <2>4, <3>2
      <4>2. t + 1 <= cur_extent_idx
        BY <1>6, <4>1
      <4> QED BY <3>2, <4>1, <4>2
    <3> QED BY <1>10, <3>1, <3>2
  <2>6. At(m)'
    BY <1>11, <2>2, <2>3, <2>4, <2>5
  <2> QED BY <2>6
<1>14. CASE /\ ~(p + 1 < e[t].end)
            /\ ~(r_extents[t + 1].start < r_extents[t + 1].end)
  <2>1. LoadExtentsPage(next_extents)
    BY <1>3, <1>6, <1>8, <1>14 DEF FindNextImagePage
  <2>2. p + 1 = e[t].end
    BY <1>6, <1>7, <1>14
  <2>3. ~(t + 1 < max_extents /\ e[t + 1].start < e[t + 1].end)
    <3> SUFFICES ASSUME t + 1 < max_extents
                 PROVE  ~(e[t + 1].start < e[t + 1].end)
      OBVIOUS
    <3>1. r_extents[t + 1] = e[t + 1]
      BY <1>6, <1>8
    <3> QED BY <1>14, <3>1
  <2>4. Complete(e)
    <3> SUFFICES ASSUME e = extents, t <= cur_extent_idx, Behind(t, p)
                 PROVE  FALSE
      BY <1>10
    <3>1. /\ cur_extent_idx \in Nat /\ cur_extent_idx < max_extents
          /\ t < cur_extent_idx /\ e[t + 1].start < e[t + 1].end
      BY <1>9, <2>2
    <3> QED BY <1>6, <2>3, <3>1
  <2>5. PICK n \in Pages : n = e[max_extents].start
    BY <2>4 DEF Complete
  <2>6. Begins(e[max_extents].start, data[p] + 1)
    BY <2>2, <2>3, <2>4 DEF Complete
  <2>7. PICK f \in Nat : f = d + 1
    BY <1>4
  <2>8. Begins(n, f) /\ f = Len(loaded') + 1
    BY <1>5, <2>5, <2>6, <2>7
  <2>9. LoadExtentsPage(n)
    BY <1>8, <2>1, <2>5 DEF LoadExtentsPage
  <2>10. At(n)'
    BY <2>8, <2>9, EntersArray
  <2> QED BY <2>10
<1> QED BY <1>12, <1>13, <1>14

(* init_swap_reader() finds page 1. *)
LEMMA InitReaderKeepsReadInv ==
    ASSUME EInv, WInv, ReadInv, InitSwapReader
    PROVE  ReadInv'
<1>1. /\ pc = "saved" /\ rpc = "off" /\ LoadExtentsPage(map_start)
      /\ total_size' = written /\ rpc' = "load" /\ UNCHANGED <<vars, loaded>>
  BY DEF InitSwapReader
<1>2. pc' = "saved" /\ written' = written /\ written \in Nat
  BY <1>1 DEF vars, handlevars, EInv, TypeInv
<1>3. loaded = <<>> /\ loaded' = <<>> /\ Len(loaded') = 0
  BY <1>1 DEF ReadInv
<1>4. PICK m \in Pages : m = map_start
  BY <1>1 DEF WInv, ChainInv
<1>5. Begins(m, 1) /\ LoadExtentsPage(m)
  BY <1>1, <1>4 DEF WInv, ChainInv, LoadExtentsPage
<1>6. PICK d \in Nat : d = 1
  OBVIOUS
<1>7. Begins(m, d) /\ d = Len(loaded') + 1
  BY <1>3, <1>5, <1>6
<1>8. At(m)'
  BY <1>1, <1>5, <1>7, EntersArray
<1>9. loaded' \in Seq(Nat) /\ \A n \in 1..Len(loaded') : loaded'[n] = n
  BY <1>1, <1>3 DEF ReadInv
<1> QED BY <1>1, <1>2, <1>3, <1>8, <1>9 DEF ReadInv

(* load_and_decrypt_page() loads the page with the next number. *)
LEMMA LoadPageKeepsReadInv ==
    ASSUME EInv, WInv, ReadInv, LoadPage
    PROVE  ReadInv'
<1>1. /\ rpc = "load" /\ rpc' = "load" /\ UNCHANGED vars
      /\ total_size > 0 /\ total_size' = total_size - 1
      /\ loaded' = Append(loaded, data[r_offset]) /\ FindNextImagePage
  BY DEF LoadPage
<1>2. PICK m \in Pages : At(m)
  BY <1>1 DEF ReadInv
<1>3. /\ loaded \in Seq(Nat) /\ Len(loaded) \in Nat /\ total_size \in Nat
      /\ pc = "saved" /\ Len(loaded) + total_size = written
      /\ \A n \in 1..Len(loaded) : loaded[n] = n
  BY <1>1, LenProperties DEF ReadInv
<1>4. PICK d \in Nat : d = Len(loaded) + 1
  BY <1>3
<1>5. data[r_offset] = d
  BY <1>2, <1>4 DEF At
<1>6. /\ loaded' \in Seq(Nat) /\ Len(loaded') = Len(loaded) + 1
      /\ \A n \in 1..Len(loaded) : loaded'[n] = loaded[n]
      /\ loaded'[Len(loaded) + 1] = d
  BY <1>1, <1>3, <1>5, AppendProperties
<1>7. \A n \in 1..Len(loaded') : loaded'[n] = n
  BY <1>3, <1>4, <1>6, SMTT(30)
<1>8. pc' = pc /\ written' = written
  BY <1>1 DEF vars, handlevars
<1>9. total_size' \in Nat /\ Len(loaded') + total_size' = written'
  BY <1>1, <1>3, <1>6, <1>8
<1>10. ASSUME total_size' > 0 PROVE \E n \in Pages : At(n)'
  <2>1. Len(loaded) + 1 < written
    BY <1>1, <1>3, <1>10
  <2> QED BY <1>1, <1>2, <1>3, <1>6, <2>1, FindsNextPage
<1> QED BY <1>1, <1>3, <1>6, <1>7, <1>8, <1>9, <1>10 DEF ReadInv

(* The reader stops; only an error ends it before the last page. *)
LEMMA StopsKeepReadInv ==
    ASSUME EInv, WInv, ReadInv, LoadFails \/ LoadDone
    PROVE  ReadInv'
<1>1. rpc = "load" /\ UNCHANGED <<vars, loaded, total_size>>
  BY DEF LoadFails, LoadDone
<1>2. pc' = pc /\ written' = written
  BY <1>1 DEF vars, handlevars
<1>3. CASE LoadDone
  <2>1. total_size = 0 /\ rpc' = "loaded"
    BY <1>3 DEF LoadDone
  <2> QED BY <1>1, <1>2, <2>1 DEF ReadInv
<1>4. CASE LoadFails
  <2>1. total_size > 0 /\ rpc' = "failed"
        /\ (r_offset = 0 \/ "read" \in Faults)
    BY <1>4 DEF LoadFails
  <2>2. PICK m \in Pages : At(m)
    BY <1>1, <2>1 DEF ReadInv
  <2>3. r_offset # 0
    <3>1. PICK e \in Array : e = maps[m]
      BY DEF WInv, MapsInv
    <3>2. PICK t \in 0..(max_extents - 1) :
            t = r_idx /\ r_offset \in PagesOf(e[t])
      BY <2>2, <3>1 DEF At
    <3>3. CASE Complete(e)
      <4>1. r_offset \in Pages
        BY <3>2, <3>3 DEF Complete
      <4> QED BY <4>1 DEF Pages
    <3>4. CASE e = extents /\ t <= cur_extent_idx
      <4>1. t \in Slots
        BY <3>2, SlotRange
      <4>2. r_offset \in Pages
        BY <1>1, <3>2, <3>4, <4>1 DEF ReadInv, EInv, OwnInv, Taken
      <4> QED BY <4>2 DEF Pages
    <3> QED BY <2>2, <3>1, <3>2, <3>3, <3>4 DEF At
  <2> QED BY <1>1, <1>2, <2>1, <2>3 DEF ReadInv
<1> QED BY <1>3, <1>4

(* Every step keeps it: the writer has nothing to do once the reader began. *)
LEMMA NextReadInv ==
    ASSUME EInv, WInv, ReadInv, [RNext]_allvars
    PROVE  ReadInv'
<1>1. CASE UNCHANGED allvars
  <2>1. UNCHANGED <<rpc, r_extents, r_idx, r_offset, next_extents, total_size,
                    loaded, pc, written, data, maps, extents, extents_spc,
                    cur_extent_idx, cur_offset>>
    BY <1>1 DEF allvars, readervars, vars, allocvars, handlevars, diskvars
  <2> QED BY <2>1 DEF ReadInv, At, Complete, Begins, Behind, OnDisk
<1>2. CASE WriterNext /\ UNCHANGED readervars
  <2>1. UNCHANGED <<rpc, total_size, loaded>>
    BY <1>2 DEF readervars
  <2>2. pc # "saved"
    BY <1>2 DEF WriterNext, Preallocate, PreallocateNothing, AllocInitial,
                AllocPage, AllocFails, MatchStart, MatchEnd, SearchOn, Place,
                AllocDone, SavePage, SaveFullExtents, SaveFails, Finish
  <2>3. rpc = "off"
    BY <2>2 DEF ReadInv
  <2> QED BY <2>1, <2>3 DEF ReadInv
<1>3. CASE InitSwapReader
  BY <1>3, InitReaderKeepsReadInv
<1>4. CASE LoadPage
  BY <1>4, LoadPageKeepsReadInv
<1>5. CASE LoadFails \/ LoadDone
  BY <1>5, StopsKeepReadInv
<1> QED BY <1>1, <1>2, <1>3, <1>4, <1>5, Zenon DEF RNext

(* What is saved is what is loaded: in order and all of it, for arrays of   *)
(* extents and swap areas of any size, however many arrays the chain has    *)
(* and in whatever order the kernel hands out its pages, unless extents are *)
(* merged while half the estimate is allocated at a time.                   *)
THEOREM ImageComesBack == NoMergeWithCompression => (RSpec => []RoundTrip)
<1> SUFFICES ASSUME NoMergeWithCompression PROVE RSpec => []RoundTrip
  OBVIOUS
<1>1. RInit => EInv /\ FInv /\ WInv /\ ReadInv
  <2> SUFFICES ASSUME RInit PROVE EInv /\ FInv /\ WInv /\ ReadInv
    OBVIOUS
  <2>1. EInv /\ FInv /\ WInv
    BY InitEInv, InitFInv, InitWInv DEF RInit
  <2>2. rpc = "off" /\ total_size = 0 /\ loaded = <<>> /\ Len(loaded) = 0
    BY DEF RInit
  <2> QED BY <2>1, <2>2 DEF ReadInv
<1>2. EInv /\ FInv /\ WInv /\ ReadInv /\ [RNext]_allvars
        => EInv' /\ FInv' /\ WInv' /\ ReadInv'
  BY NextEInv, NextFInv, NextWInv, NextReadInv
<1>3. ReadInv => RoundTrip
  <2> SUFFICES ASSUME ReadInv, rpc = "loaded" PROVE Len(loaded) = written
    BY DEF ReadInv, RoundTrip
  <2>1. Len(loaded) \in Nat /\ Len(loaded) + 0 = written
    BY LenProperties DEF ReadInv
  <2> QED BY <2>1
<1> QED BY <1>1, <1>2, <1>3, PTL DEF RSpec
===============================================================================
