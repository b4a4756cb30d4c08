------------------------------ MODULE SwapWriter ------------------------------
(***************************************************************************)
(* The swap_writer of suspend.c: swap pages are taken from the kernel in   *)
(* batches, kept as an array of extents, handed out one by one to the      *)
(* pages of the image, and the array is written to a swap page of its own  *)
(* when it is used up, with the place of the next one in its last slot.    *)
(*                                                                         *)
(* Offsets and sizes count pages; offset 0 is "no page".  The loop of      *)
(* alloc_swap() takes a step per swap page and per iteration of its binary *)
(* search; everything else is a step per call.                             *)
(***************************************************************************)
EXTENDS Integers, FiniteSets

CONSTANTS
    max_extents,    \* page_size / sizeof(struct extent) - 1
    SwapSize,       \* swap pages 1..SwapSize
    Needed,         \* sets of estimates: swap_needed of write_image()
    Configs,        \* sets of the two Options below
    Faults          \* subset of {"alloc", "write", "read"}

\* do_compress is set; the kernel hands out swap pages in ascending order.
Options == {"compress", "ascending"}

ASSUME SwapAssumption ==
    /\ max_extents \in Nat \ {0}
    /\ SwapSize \in Nat
    /\ Needed \subseteq Nat \ {0}
    /\ Configs \subseteq SUBSET Options
    /\ Faults \subseteq {"alloc", "write", "read"}

VARIABLES
    pc,             \* where the writer is
    options,        \* the options of this run
    free,           \* swap pages the kernel has left
    extents,        \* handle->extents: slot -> [start, end)
    nr,             \* nr_extents of alloc_swap()
    total, asize,   \* pages alloc_swap() has to get, and got
    offset,         \* the page to be placed
    i, j,           \* bounds of the binary search
    nr_extents,     \* handle->nr_extents
    cur_extent_idx, \* handle->cur_extent_idx (and cur_extent)
    cur_offset,     \* handle->cur_offset
    swap_needed,    \* handle->swap_needed
    extents_spc,    \* handle->extents_spc
    first,          \* preallocate_swap() was called by write_image()
    written,        \* pages saved: handle->written_data
    data,           \* swap page -> the page of the image on it, or 0
    maps,           \* swap page -> the array of extents on it
    meta,           \* swap pages for the header and the arrays of extents
    map_start,      \* first array of extents, as the header has it
    pool            \* swap pages the current array has to stand for

allocvars == <<free, extents, nr, total, asize, offset, i, j, pool>>
handlevars == <<nr_extents, cur_extent_idx, cur_offset, swap_needed,
                extents_spc, first, written>>
diskvars == <<data, maps, meta, map_start>>
vars == <<pc, options, allocvars, handlevars, diskvars>>

do_compress == "compress" \in options
ascending == "ascending" \in options

Pages == 1..SwapSize
Slots == 0..max_extents
None == [start |-> 0, end |-> 0]
EmptyMap == [s \in Slots |-> None]
PagesOf(e) == e.start..(e.end - 1)

-------------------------------------------------------------------------------
(* The kernel's swap allocator, SNAPSHOT_ALLOC_SWAP_PAGE.                   *)

Available == {p \in free : ascending => \A q \in Pages \ free : q < p}

GetSwapPage(p) == p \in Available /\ free' = free \ {p}

NoSwapPage == Available = {} \/ "alloc" \in Faults

\* The image cannot be saved.
Fail ==
    /\ pc' = "failed"
    /\ UNCHANGED <<allocvars, handlevars, diskvars>>

-------------------------------------------------------------------------------
(* preallocate_swap() and alloc_swap().                                     *)

\* Pages to ask for.
Request == IF do_compress /\ swap_needed > 1 THEN (swap_needed + 1) \div 2
                                            ELSE swap_needed

Preallocate ==
    /\ pc = "prealloc"
    /\ swap_needed >= 1
    /\ total' = Request
    /\ nr' = nr_extents
    /\ asize' = 0
    /\ pc' = IF nr_extents <= 0 THEN "initial" ELSE "alloc"
    /\ UNCHANGED <<free, extents, offset, i, j, pool, handlevars, diskvars>>

PreallocateNothing ==
    /\ pc = "prealloc"
    /\ swap_needed < 1
    /\ Fail

\* The first extent, when there is none to start from.
AllocInitial ==
    /\ pc = "initial"
    /\ \E p \in Pages :
           /\ GetSwapPage(p)
           /\ extents' = [extents EXCEPT ![0] = [start |-> p, end |-> p + 1]]
           /\ pool' = pool \cup {p}
    /\ nr' = 1
    /\ asize' = 1
    /\ pc' = "alloc"
    /\ UNCHANGED <<total, offset, i, j, handlevars, diskvars>>

AllocMore == asize < total /\ nr <= max_extents

\* One more page, for which the search begins.
AllocPage ==
    /\ pc = "alloc"
    /\ AllocMore
    /\ \E p \in Pages :
           /\ GetSwapPage(p)
           /\ offset' = p
           /\ pool' = pool \cup {p}
    /\ i' = 0
    /\ j' = nr - 1
    /\ pc' = "search"
    /\ UNCHANGED <<extents, nr, total, asize, handlevars, diskvars>>

AllocFails ==
    /\ \/ pc = "initial"
       \/ pc = "alloc" /\ AllocMore
    /\ NoSwapPage
    /\ Fail

\* Mutant: one slot too few is moved.
PullForward_Short(e, s, n) ==
    [t \in Slots |-> IF s <= t /\ t < n - 2 THEN e[t + 1] ELSE e[t]]

\* The array without slot s of the first n, the slots after it pulled
\* forward; slot n - 1 keeps what it has.
PullForward(e, s, n) ==
    [t \in Slots |-> IF s <= t /\ t < n - 1 THEN e[t + 1] ELSE e[t]]

\* The page was added to an extent: e is the array, n the number of extents.
Matched(e, n) ==
    /\ extents' = e
    /\ nr' = n
    /\ offset' = 0
    /\ asize' = asize + 1
    /\ pc' = "alloc"
    /\ UNCHANGED <<free, total, i, j, pool, handlevars, diskvars>>

k == (i + j) \div 2

\* The page precedes extent k, and may close the gap to the one before.
MatchStart ==
    /\ pc = "search"
    /\ offset = extents[k].start - 1
    /\ IF k > 0 /\ extents[k - 1].end = offset
       THEN Matched(PullForward(
                [extents EXCEPT ![k - 1].end = extents[k].end,
                                ![k].start = offset], k, nr), nr - 1)
       ELSE Matched([extents EXCEPT ![k].start = offset], nr)

\* The page follows extent k, and may close the gap to the one after.
MatchEnd ==
    /\ pc = "search"
    /\ offset = extents[k].end
    /\ IF k + 1 < nr /\ extents[k + 1].start = offset + 1
       THEN Matched(PullForward(
                [extents EXCEPT ![k].end = extents[k + 1].end], k + 1, nr),
                nr - 1)
       ELSE Matched([extents EXCEPT ![k].end = offset + 1], nr)

\* Mutant: nothing is done about i = k.
UpperHalf_Naive == k

\* Where to look after extent k: from k, or at j when that is all there is left.
UpperHalf == IF i = k THEN j ELSE k

\* Neither: the search goes on in one half, or ends.  ("Repeat" with k = j is
\* the next step with i = j.)
SearchOn ==
    /\ pc = "search"
    /\ offset # extents[k].start - 1 /\ offset # extents[k].end
    /\ IF offset > extents[k].end
       THEN /\ i' = UpperHalf
            /\ j' = j
            /\ pc' = IF i < j THEN "search" ELSE "place"
       ELSE /\ j' = k
            /\ i' = i
            /\ pc' = IF i < k THEN "search" ELSE "place"
    /\ UNCHANGED <<free, extents, nr, total, asize, offset, pool, handlevars,
                   diskvars>>

\* The slot of a new extent: its place or, if there is no room, the last one.
NewSlot == IF nr >= max_extents THEN nr
           ELSE IF offset > extents[i].end THEN i + 1 ELSE i

\* No match: a new extent, the later ones pushed backwards.
Place ==
    /\ pc = "place"
    /\ extents' = [t \in Slots |->
           IF t = NewSlot THEN [start |-> offset, end |-> offset + 1]
           ELSE IF NewSlot < t /\ t <= nr THEN extents[t - 1] ELSE extents[t]]
    /\ nr' = nr + 1
    /\ offset' = 0
    /\ asize' = asize + 1
    /\ pc' = "alloc"
    /\ UNCHANGED <<free, total, i, j, pool, handlevars, diskvars>>

-------------------------------------------------------------------------------
(* save_page() and what it calls.                                           *)

\* write_page() of the next page of the image to swap page p.
WriteData(p) ==
    /\ data' = [data EXCEPT ![p] = written + 1]
    /\ swap_needed' = swap_needed - 1
    /\ written' = written + 1
    /\ UNCHANGED <<maps, meta, map_start>>

\* alloc_swap() returns; preallocate_swap() sets the cursor to the first page
\* of the pool.  write_image() shifts it back by one, save_page() uses it.
AllocDone ==
    /\ pc = "alloc"
    /\ ~AllocMore
    /\ nr_extents' = IF nr < max_extents THEN nr ELSE max_extents
    /\ cur_extent_idx' = 0
    /\ first' = FALSE
    /\ pc' = "ready"
    /\ IF first
       THEN /\ cur_offset' = extents[0].start - 1
            /\ UNCHANGED <<swap_needed, written, diskvars>>
       ELSE /\ cur_offset' = extents[0].start
            /\ WriteData(extents[0].start)
    /\ UNCHANGED <<allocvars, extents_spc>>

\* Mutant: the end of an extent taken for its last page.
InExtent_Last == cur_offset + 1 <= extents[cur_extent_idx].end

\* The current extent has another page.
InExtent == cur_offset + 1 < extents[cur_extent_idx].end

\* The pool has a page: the next one of the extent, or of the next extent.
NextOffset == IF InExtent THEN cur_offset + 1
              ELSE extents[cur_extent_idx + 1].start
NextIdx == IF InExtent THEN cur_extent_idx ELSE cur_extent_idx + 1

Exhausted == NextIdx # cur_extent_idx /\ NextIdx >= nr_extents

\* There is a page to save: without compression as many as were asked for.
More == do_compress \/ swap_needed > 0

SavePage ==
    /\ pc = "ready" /\ More
    /\ ~Exhausted
    /\ cur_extent_idx' = NextIdx
    /\ cur_offset' = NextOffset
    /\ WriteData(NextOffset)
    /\ UNCHANGED <<pc, allocvars, nr_extents, extents_spc, first>>

\* Mutant: the next array cannot be found.
Linked_Not(e, p) == e

\* The last slot of a saved array has the place of the next one.
Linked(e, p) == [e EXCEPT ![max_extents].start = p]

\* The pool is used up.  What is in the next slot, if anything, is where the
\* next batch starts from; the array is saved with the place of the next one.
SaveFullExtents ==
    LET s == cur_extent_idx + 1
        some == extents[s].start < extents[s].end
        cleared == [extents EXCEPT ![s] = None]
    IN /\ pc = "ready" /\ More
       /\ Exhausted
       /\ \E p \in Pages :
              /\ GetSwapPage(p)
              /\ maps' = [maps EXCEPT ![extents_spc] =
                             Linked(IF some THEN cleared ELSE extents, p)]
              /\ extents_spc' = p
              /\ meta' = meta \cup {p}
       /\ nr_extents' = IF some THEN 1 ELSE 0
       /\ extents' = [EmptyMap EXCEPT ![0] = IF some THEN extents[s] ELSE None]
       /\ pool' = IF some THEN PagesOf(extents[s]) ELSE {}
       /\ cur_extent_idx' = s
       /\ cur_offset' = cur_offset + 1
       /\ pc' = "prealloc"
       /\ UNCHANGED <<nr, total, asize, offset, i, j, swap_needed, first,
                      written, data, map_start>>

\* A swap page cannot be had, or a page cannot be written.
SaveFails ==
    /\ \/ pc = "ready" /\ More /\ Exhausted /\ NoSwapPage
       \/ pc = "ready" /\ "write" \in Faults
       \/ pc = "alloc" /\ ~AllocMore /\ ~first /\ "write" \in Faults
    /\ Fail

\* The whole image is saved: save_extents(handle, 1).
Finish ==
    /\ pc = "ready"
    /\ written > 0
    /\ do_compress \/ swap_needed = 0
    /\ maps' = [maps EXCEPT ![extents_spc] = extents]
    /\ extents_spc' = 0
    /\ pc' = "saved"
    /\ UNCHANGED <<allocvars, nr_extents, cur_extent_idx, cur_offset,
                   swap_needed, first, written, data, meta, map_start>>

-------------------------------------------------------------------------------
\* write_image() has swap pages for its header and the first array.
Init ==
    /\ pc = "prealloc"
    /\ options \in Configs
    /\ \E h, m \in Pages :
           /\ h # m
           /\ ascending => h < m
           /\ meta = {h, m}
           /\ map_start = m
    /\ free = Pages \ meta
    /\ extents = EmptyMap
    /\ nr = 0 /\ total = 0 /\ asize = 0 /\ offset = 0 /\ i = 0 /\ j = 0
    /\ nr_extents = 0 /\ cur_extent_idx = 0 /\ cur_offset = 0
    /\ swap_needed \in Needed
    /\ extents_spc = map_start
    /\ first = TRUE
    /\ written = 0
    /\ data = [p \in Pages |-> 0]
    /\ maps = [p \in Pages |-> EmptyMap]
    /\ pool = {}

WriterNext ==
    /\ \/ Preallocate \/ PreallocateNothing \/ AllocInitial \/ AllocPage
       \/ AllocFails \/ MatchStart \/ MatchEnd \/ SearchOn \/ Place \/ AllocDone
       \/ SavePage \/ SaveFullExtents \/ SaveFails \/ Finish
    /\ UNCHANGED options

-------------------------------------------------------------------------------
(* Properties.                                                              *)

Used == {extents[t] : t \in 0..(nr - 1)}

\* alloc_swap() keeps the array in order: the extents it has found room for are
\* sorted and have gaps between them, so that none could be merged, and all of
\* them, the one in the last slot included, hold exactly the pages taken from
\* the kernel, each once.  Its binary search relies on the first, the image on
\* the second.
ExtentsExact ==
    pc \in {"alloc", "search", "place", "ready"} =>
        /\ \A s \in 0..(nr - 1) : extents[s].start < extents[s].end
        /\ \A s, t \in 0..(nr - 1) :
               s < t /\ t < max_extents => extents[s].end < extents[t].start
        /\ \A s, t \in 0..(nr - 1) :
               s # t => PagesOf(extents[s]) \cap PagesOf(extents[t]) = {}
        /\ UNION {PagesOf(e) : e \in Used} = pool \ {offset}

\* save_page() takes every swap page out of the pool once: it never writes over
\* a page of the image, over the header's page or one for an array of extents,
\* or over a page the kernel did not give.
NeverOverwritten ==
    [][\A p \in Pages : data'[p] # data[p] =>
           data[p] = 0 /\ p \notin meta /\ p \notin free]_vars
===============================================================================
