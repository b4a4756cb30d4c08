------------------------------ MODULE SwapReader ------------------------------
(***************************************************************************)
(* The swap_reader of load.c, reading back what the swap_writer of         *)
(* SwapWriter left: it follows the chain of arrays of extents from the one *)
(* the header names and loads the pages of the image one by one.           *)
(***************************************************************************)
EXTENDS SwapWriter, Sequences

VARIABLES
    rpc,            \* where the reader is
    r_extents,      \* handle->extents of the reader
    r_idx,          \* index of handle->cur_extent
    r_offset,       \* handle->cur_offset
    next_extents,   \* handle->next_extents
    total_size,     \* handle->total_size
    loaded          \* pages of the image, in the order of their loading

readervars == <<rpc, r_extents, r_idx, r_offset, next_extents, total_size,
                loaded>>
allvars == <<vars, readervars>>

\* load_extents_page(): offset 0 is not read, and leaves the array as it is.
LoadExtentsPage(p) ==
    LET map == IF p = 0 THEN r_extents ELSE maps[p]
    IN /\ next_extents' = map[max_extents].start
       /\ r_extents' = [map EXCEPT ![max_extents] = None]
       /\ r_idx' = 0
       /\ r_offset' = map[0].start

\* init_swap_reader() with map_start and image_data_size of the header.
InitSwapReader ==
    /\ pc = "saved"
    /\ rpc = "off"
    /\ LoadExtentsPage(map_start)
    /\ total_size' = written
    /\ rpc' = "load"
    /\ UNCHANGED <<vars, loaded>>

\* find_next_image_page()
FindNextImagePage ==
    IF r_offset + 1 < r_extents[r_idx].end
    THEN /\ r_offset' = r_offset + 1
         /\ UNCHANGED <<r_extents, r_idx, next_extents>>
    ELSE IF r_extents[r_idx + 1].start < r_extents[r_idx + 1].end
    THEN /\ r_idx' = r_idx + 1
         /\ r_offset' = r_extents[r_idx + 1].start
         /\ UNCHANGED <<r_extents, next_extents>>
    ELSE LoadExtentsPage(next_extents)

\* load_and_decrypt_page()
LoadPage ==
    /\ rpc = "load"
    /\ total_size > 0
    /\ r_offset # 0
    /\ loaded' = Append(loaded, data[r_offset])
    /\ total_size' = total_size - 1
    /\ FindNextImagePage
    /\ UNCHANGED <<vars, rpc>>

\* There is no page where the next one should be, or it cannot be read.
LoadFails ==
    /\ rpc = "load"
    /\ total_size > 0
    /\ r_offset = 0 \/ "read" \in Faults
    /\ rpc' = "failed"
    /\ UNCHANGED <<vars, r_extents, r_idx, r_offset, next_extents, total_size,
                   loaded>>

LoadDone ==
    /\ rpc = "load"
    /\ total_size = 0
    /\ rpc' = "loaded"
    /\ UNCHANGED <<vars, r_extents, r_idx, r_offset, next_extents, total_size,
                   loaded>>

RInit ==
    /\ Init
    /\ rpc = "off"
    /\ r_extents = EmptyMap
    /\ r_idx = 0 /\ r_offset = 0 /\ next_extents = 0 /\ total_size = 0
    /\ loaded = <<>>

RNext ==
    \/ WriterNext /\ UNCHANGED readervars
    \/ InitSwapReader \/ LoadPage \/ LoadFails \/ LoadDone

RSpec == RInit /\ [][RNext]_allvars

\* Both programs are sequential and take their next step.
RFairSpec == RSpec /\ WF_allvars(RNext)

-------------------------------------------------------------------------------
\* The loop of alloc_swap() ends, and with it the saving: the image is read
\* back or saving it failed.
SavedOrFailed == <>(pc = "failed" \/ rpc \in {"loaded", "failed"})

\* What is loaded is what was saved: the pages of the image in order, all of
\* them, from wherever they and the arrays of extents were put.
RoundTrip ==
    /\ \A n \in 1..Len(loaded) : loaded[n] = n
    /\ rpc = "loaded" => Len(loaded) = written
    /\ rpc = "failed" => "read" \in Faults
===============================================================================
