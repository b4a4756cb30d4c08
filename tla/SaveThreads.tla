------------------------------ MODULE SaveThreads ------------------------------
(***************************************************************************)
(* save_image() of suspend.c with its threads: the main thread fills       *)
(* "write" buffers, the "move" thread encrypts them page by page into the  *)
(* circular "encrypt" buffer (or, without encryption, writes them out),    *)
(* the "save" thread writes the encrypted pages to the swap.               *)
(*                                                                         *)
(* Steps.  A critical section is one step, taken when its mutexes are      *)
(* free, except that pthread_cond_wait() is two: the predicate is          *)
(* evaluated with the mutex held (label ..._sleep is reached with the      *)
(* mutex still held), and then the mutex is released and the thread falls  *)
(* asleep.  save_ret is read and written under different mutexes, so every *)
(* read of it is a step of its own.  Signals are sent after the unlock,    *)
(* one step each (sigs).                                                   *)
(*                                                                         *)
(* A page is its number in the image, 1, 2, ...; page 0 is whatever was in *)
(* a buffer that no page was put into.                                     *)
(***************************************************************************)
EXTENDS Integers, Sequences

CONSTANTS
    WRITE_BUFFERS,      \* number of "write" buffers (4 in swsusp.h)
    ENCRYPT_BUF_PAGES,  \* pages in the "encrypt" buffer (256 in encrypt.h)
    NumBuffers,         \* bound: buffers flushed by one save_image()
    BufPages,           \* bound: swap pages a flushed buffer takes
    Attempts,           \* calls of write_image() by suspend_system() (2)
    Configs,            \* configurations: the sets of Options switched on
    SaveErrors,         \* errors save_page() and save_extents() may return
    OtherFaults         \* which of the faults below may happen

Options == {"encrypt", "compress", "threads"}

Faults == {"read", "abort", "encrypt", "init", "spawn_save", "spawn_move",
           "init_finish", "spurious"}

ASSUME ConstantsAssumption ==
    /\ WRITE_BUFFERS \in Nat \ {0, 1}
    /\ ENCRYPT_BUF_PAGES \in Nat \ {0, 1}
    /\ NumBuffers \in Nat
    /\ BufPages \in Nat \ {0}
    /\ Attempts \in Nat \ {0}
    /\ Configs \subseteq SUBSET Options
    /\ SaveErrors \subseteq {"ENOSPC", "EIO"}
    /\ OtherFaults \subseteq Faults

VARIABLES
    pc,             \* where each thread is
    sigs,           \* condition variables each thread has still to signal
    asleep,         \* the condition variable a thread sleeps on, or "awake"
    owner,          \* the owner of each mutex while it is held across steps
    save_ret,       \* first error of any thread, or FORCE_EXIT
    move_start, move_end,       \* next "write" buffer to fill, to process
    save_start, save_end,       \* next "encrypt" page to fill, to write out
    write_buffers,  \* index -> the page before its first one, and its size
    encrypt_buf,    \* index -> page
    moved,          \* pages of the current buffer the move thread is done with
    options,        \* the configuration of this run of s2disk
    use_threads,    \* cleared when the threads cannot be started
    aliased,        \* handle->write_buffer = handle->buffer
    size,           \* pages the buffer being flushed takes
    last,           \* it is the final flush of save_image()
    direct,         \* pages of it written without threads
    filled,         \* buffers flushed
    accepted,       \* pages of the buffers flushed
    written,        \* the pages on the swap, in the order of their writing
    error,          \* what save_image() will return
    attempt         \* number of this write_image() call

syncvars == <<sigs, asleep, owner>>
ringvars == <<move_start, move_end, save_start, save_end, write_buffers,
              encrypt_buf, moved>>
mainvars == <<options, use_threads, aliased, size, last, direct, filled,
              accepted, error, attempt>>
vars == <<pc, syncvars, save_ret, ringvars, mainvars, written>>

Threads == {"main", "move", "save"}
Conds   == {"move_cond", "save_cond", "finish_cond"}
Mutexes == {"move_mutex", "save_mutex", "finish_mutex"}
NoError == "none"
Errors  == {NoError, "FORCE_EXIT", "ENOSPC", "EIO", "EINTR", "EGCRY"}

MainLabels == {"start", "spawn_save", "spawn_move", "init_finish",
               "undo_move", "undo_save", "fill", "flush", "direct", "prep",
               "prep_sleep", "prep_ret", "finish", "finish2", "finish_busy",
               "finish_ret", "extents", "stop", "join_move",
               "join_save", "done"}
MoveLabels == {"none", "top", "sleep", "test", "encrypt", "put", "put_sleep",
               "loop", "save", "after", "advance", "exited"}
SaveLabels == {"none", "top", "sleep", "test", "page", "advance", "exited"}

\* Mutant: no wrap-around.
save_inc_NoWrap(i) == i + 1

do_encrypt == "encrypt" \in options
do_compress == "compress" \in options

save_inc(i) == (i + 1) % ENCRYPT_BUF_PAGES
move_inc(i) == (i + 1) % WRITE_BUFFERS

-------------------------------------------------------------------------------
(* Threads, mutexes and condition variables.                                *)

\* Thread t is at label l and has nothing left to signal before it.
At(t, l) == pc[t] = l /\ asleep[t] = "awake" /\ sigs[t] = <<>>

Goto(t, l) == pc' = [pc EXCEPT ![t] = l]

Free(m) == owner[m] = "none"

\* The waiting half of pthread_cond_wait(): m is released and t sleeps on c;
\* when woken it takes m again and re-evaluates its predicate at label l.
CondWait(t, c, m, l) ==
    /\ Goto(t, l)
    /\ asleep' = [asleep EXCEPT ![t] = c]
    /\ owner' = [owner EXCEPT ![m] = "none"]
    /\ UNCHANGED <<sigs, save_ret, ringvars, mainvars, written>>

\* pthread_cond_signal(): wakes one of the threads asleep on c, if any.
Signal(t) ==
    LET c == Head(sigs[t])
        waiters == {u \in Threads : asleep[u] = c}
    IN /\ sigs[t] # <<>>
       /\ sigs' = [sigs EXCEPT ![t] = Tail(@)]
       /\ \/ /\ waiters = {}
             /\ UNCHANGED asleep
          \/ \E u \in waiters : asleep' = [asleep EXCEPT ![u] = "awake"]
       /\ UNCHANGED <<pc, owner, save_ret, ringvars, mainvars, written>>

\* pthread_cond_wait() may return without a signal.
SpuriousWakeup(t) ==
    /\ "spurious" \in OtherFaults
    /\ asleep[t] # "awake"
    /\ asleep' = [asleep EXCEPT ![t] = "awake"]
    /\ UNCHANGED <<pc, sigs, owner, save_ret, ringvars, mainvars, written>>

\* "if (!save_ret) save_ret = error", the signals that follow the unlock,
\* and what thread t does next.
Report(t, e, cs, l) ==
    /\ Free("finish_mutex")
    /\ save_ret' = IF save_ret = NoError THEN e ELSE save_ret
    /\ sigs' = [sigs EXCEPT ![t] = cs]
    /\ Goto(t, l)
    /\ UNCHANGED <<asleep, owner, ringvars, mainvars, written>>

-------------------------------------------------------------------------------
(* The move thread.                                                         *)

\* Mutant: the move thread does not wait for data.
MoveMustWait_Never == FALSE

MoveMustWait == move_end = move_start /\ save_ret = NoError

\* Wait for a "write" buffer.
MoveTop ==
    /\ At("move", "top")
    /\ Free("move_mutex")
    /\ IF MoveMustWait
       THEN /\ Goto("move", "sleep")
            /\ owner' = [owner EXCEPT !["move_mutex"] = "move"]
       ELSE /\ Goto("move", "test")
            /\ UNCHANGED owner
    /\ UNCHANGED <<sigs, asleep, save_ret, ringvars, mainvars, written>>

MoveSleep ==
    /\ At("move", "sleep")
    /\ CondWait("move", "move_cond", "move_mutex", "top")

MoveTest ==
    /\ At("move", "test")
    /\ Goto("move", IF save_ret # NoError THEN "exited"
                    ELSE IF do_encrypt THEN "encrypt" ELSE "save")
    /\ moved' = 0
    /\ UNCHANGED <<syncvars, save_ret, move_start, move_end, save_start,
                   save_end, write_buffers, encrypt_buf, mainvars, written>>

\* The page of the current "write" buffer that comes next.
NextPage == write_buffers[move_end].base + moved + 1

\* encrypt_and_save_buffer(): a page is encrypted into the page at save_start,
MoveEncrypt ==
    /\ At("move", "encrypt")
    /\ Goto("move", "put")
    /\ encrypt_buf' = [encrypt_buf EXCEPT ![save_start] = NextPage]
    /\ moved' = moved + 1
    /\ UNCHANGED <<syncvars, save_ret, move_start, move_end, save_start,
                   save_end, write_buffers, mainvars, written>>

\* or cannot be encrypted;
MoveEncryptFails ==
    /\ "encrypt" \in OtherFaults
    /\ At("move", "encrypt")
    /\ Report("move", "EGCRY", <<"move_cond", "save_cond", "finish_cond">>,
              "after")

\* Mutant: the move thread does not wait for room.
PutMustWait_Never == FALSE

PutMustWait == save_inc(save_start) = save_end /\ save_ret = NoError

\* save_start moves on, unless the "encrypt" buffer is full,
MovePut ==
    /\ At("move", "put")
    /\ Free("save_mutex")
    /\ IF PutMustWait
       THEN /\ Goto("move", "put_sleep")
            /\ owner' = [owner EXCEPT !["save_mutex"] = "move"]
            /\ UNCHANGED <<sigs, save_start>>
       ELSE /\ Goto("move", "loop")
            /\ save_start' = save_inc(save_start)
            /\ sigs' = [sigs EXCEPT !["move"] = <<"save_cond">>]
            /\ UNCHANGED owner
    /\ UNCHANGED <<asleep, save_ret, move_start, move_end, save_end,
                   write_buffers, encrypt_buf, moved, mainvars, written>>

MovePutSleep ==
    /\ At("move", "put_sleep")
    /\ CondWait("move", "save_cond", "save_mutex", "put")

\* Mutant: the loop does not stop at an error.
LoopGoesOn_Blind == moved < write_buffers[move_end].size

LoopGoesOn == moved < write_buffers[move_end].size /\ save_ret = NoError

\* and the loop goes on until the buffer is done or an error is seen.
MoveLoop ==
    /\ At("move", "loop")
    /\ Goto("move", IF LoopGoesOn THEN "encrypt" ELSE "after")
    /\ UNCHANGED <<syncvars, save_ret, ringvars, mainvars, written>>

\* save_buffer(): the same without encryption.
MoveSave ==
    /\ At("move", "save")
    /\ IF moved < write_buffers[move_end].size
       THEN /\ written' = Append(written, NextPage)
            /\ moved' = moved + 1
            /\ UNCHANGED pc
       ELSE /\ Goto("move", "after")
            /\ UNCHANGED <<written, moved>>
    /\ UNCHANGED <<syncvars, save_ret, move_start, move_end, save_start,
                   save_end, write_buffers, encrypt_buf, mainvars>>

MoveSaveFails ==
    /\ At("move", "save")
    /\ moved < write_buffers[move_end].size
    /\ \E e \in SaveErrors :
           Report("move", e, <<"move_cond", "finish_cond">>, "after")

MoveAfter ==
    /\ At("move", "after")
    /\ Goto("move", IF save_ret # NoError THEN "exited" ELSE "advance")
    /\ UNCHANGED <<syncvars, save_ret, ringvars, mainvars, written>>

\* Mutant: the main thread is not told.
MoveAdvance_NoSignal ==
    /\ At("move", "advance")
    /\ Free("finish_mutex") /\ Free("move_mutex")
    /\ move_end' = move_inc(move_end)
    /\ sigs' = [sigs EXCEPT !["move"] = <<"move_cond">>]
    /\ Goto("move", "top")
    /\ UNCHANGED <<asleep, owner, save_ret, move_start, save_start, save_end,
                   write_buffers, encrypt_buf, moved, mainvars, written>>

MoveAdvance ==
    /\ At("move", "advance")
    /\ Free("finish_mutex") /\ Free("move_mutex")
    /\ move_end' = move_inc(move_end)
    /\ sigs' = [sigs EXCEPT !["move"] = <<"move_cond", "finish_cond">>]
    /\ Goto("move", "top")
    /\ UNCHANGED <<asleep, owner, save_ret, move_start, save_start, save_end,
                   write_buffers, encrypt_buf, moved, mainvars, written>>

MoveNext ==
    \/ MoveTop \/ MoveSleep \/ MoveTest \/ MoveEncrypt \/ MoveEncryptFails
    \/ MovePut \/ MovePutSleep \/ MoveLoop \/ MoveSave \/ MoveSaveFails
    \/ MoveAfter \/ MoveAdvance \/ Signal("move")

-------------------------------------------------------------------------------
(* The save thread.                                                         *)

SaveTop ==
    /\ At("save", "top")
    /\ Free("save_mutex")
    /\ IF save_end = save_start /\ save_ret = NoError
       THEN /\ Goto("save", "sleep")
            /\ owner' = [owner EXCEPT !["save_mutex"] = "save"]
       ELSE /\ Goto("save", "test")
            /\ UNCHANGED owner
    /\ UNCHANGED <<sigs, asleep, save_ret, ringvars, mainvars, written>>

SaveSleep ==
    /\ At("save", "sleep")
    /\ CondWait("save", "save_cond", "save_mutex", "top")

SaveTest ==
    /\ At("save", "test")
    /\ Goto("save", IF save_ret # NoError THEN "exited" ELSE "page")
    /\ UNCHANGED <<syncvars, save_ret, ringvars, mainvars, written>>

\* save_page() of the page at save_end succeeds,
SavePage ==
    /\ At("save", "page")
    /\ Goto("save", "advance")
    /\ written' = Append(written, encrypt_buf[save_end])
    /\ UNCHANGED <<syncvars, save_ret, ringvars, mainvars>>

\* or fails, and the thread is over.
SavePageFails ==
    /\ At("save", "page")
    /\ \E e \in SaveErrors :
           Report("save", e, <<"move_cond", "save_cond", "finish_cond">>,
                  "exited")

\* Mutant: the move thread is not told that there is room.
SaveAdvance_NoSignal ==
    /\ At("save", "advance")
    /\ Free("finish_mutex") /\ Free("save_mutex")
    /\ save_end' = save_inc(save_end)
    /\ sigs' = [sigs EXCEPT !["save"] = <<"finish_cond">>]
    /\ Goto("save", "top")
    /\ UNCHANGED <<asleep, owner, save_ret, move_start, move_end, save_start,
                   write_buffers, encrypt_buf, moved, mainvars, written>>

SaveAdvance ==
    /\ At("save", "advance")
    /\ Free("finish_mutex") /\ Free("save_mutex")
    /\ save_end' = save_inc(save_end)
    /\ sigs' = [sigs EXCEPT !["save"] = <<"save_cond", "finish_cond">>]
    /\ Goto("save", "top")
    /\ UNCHANGED <<asleep, owner, save_ret, move_start, move_end, save_start,
                   write_buffers, encrypt_buf, moved, mainvars, written>>

SaveNext ==
    \/ SaveTop \/ SaveSleep \/ SaveTest \/ SavePage \/ SavePageFails
    \/ SaveAdvance \/ Signal("save")

-------------------------------------------------------------------------------
(* The main thread: start_threads().                                        *)

\* Threads are given up, save_image() goes on without them.
NoThreads == use_threads' = FALSE /\ Goto("main", "fill")

ThreadVars == <<options, aliased, size, last, direct, filled, accepted, error,
                attempt>>

\* The indices are reset and the mutexes and condition variables of the two
\* rings initialised.  save_ret keeps the value it has.
StartRings ==
    /\ At("main", "start")
    /\ move_start' = 0 /\ move_end' = 0
    /\ save_start' = 0 /\ save_end' = 0
    /\ \/ /\ Goto("main", IF do_encrypt THEN "spawn_save" ELSE "spawn_move")
          /\ UNCHANGED use_threads
       \/ "init" \in OtherFaults /\ NoThreads
    /\ UNCHANGED <<syncvars, save_ret, write_buffers, encrypt_buf, moved,
                   ThreadVars, written>>

SpawnSave ==
    /\ At("main", "spawn_save")
    /\ \/ /\ pc' = [pc EXCEPT !["main"] = "spawn_move", !["save"] = "top"]
          /\ UNCHANGED use_threads
       \/ "spawn_save" \in OtherFaults /\ NoThreads
    /\ UNCHANGED <<syncvars, save_ret, ringvars, ThreadVars, written>>

\* Stop_save_thread: the save thread, if there is one, is told to exit.
StopSaveThread ==
    /\ use_threads' = FALSE
    /\ IF do_encrypt
       THEN /\ save_ret' = "FORCE_EXIT"
            /\ sigs' = [sigs EXCEPT !["main"] = <<"save_cond">>]
            /\ Goto("main", "undo_save")
       ELSE /\ Goto("main", "fill")
            /\ UNCHANGED <<save_ret, sigs>>

SpawnMove ==
    /\ At("main", "spawn_move")
    /\ pc' = [pc EXCEPT !["main"] = "init_finish", !["move"] = "top"]
    /\ UNCHANGED <<syncvars, save_ret, ringvars, mainvars, written>>

SpawnMoveFails ==
    /\ "spawn_move" \in OtherFaults
    /\ At("main", "spawn_move")
    /\ StopSaveThread
    /\ UNCHANGED <<asleep, owner, ringvars, ThreadVars, written>>

InitFinish ==
    /\ At("main", "init_finish")
    /\ Goto("main", "fill")
    /\ UNCHANGED <<syncvars, save_ret, ringvars, mainvars, written>>

\* Stop_move_thread, without a mutex.
InitFinishFails ==
    /\ "init_finish" \in OtherFaults
    /\ At("main", "init_finish")
    /\ save_ret' = "FORCE_EXIT"
    /\ sigs' = [sigs EXCEPT !["main"] = <<"move_cond">>]
    /\ Goto("main", "undo_move")
    /\ UNCHANGED <<asleep, owner, ringvars, mainvars, written>>

UndoMove ==
    /\ At("main", "undo_move") /\ At("move", "exited")
    /\ StopSaveThread
    /\ UNCHANGED <<asleep, owner, ringvars, ThreadVars, written>>

UndoSave ==
    /\ At("main", "undo_save") /\ At("save", "exited")
    /\ Goto("main", "fill")
    /\ UNCHANGED <<syncvars, save_ret, ringvars, mainvars, written>>

-------------------------------------------------------------------------------
(* The main thread: save_image() and flush_buffer().                        *)

\* The work buffer fills up, or holds something at the end of the image.
ReadBuffer ==
    /\ At("main", "fill")
    /\ filled < NumBuffers
    /\ size' \in 1..BufPages
    /\ last' \in BOOLEAN
    /\ Goto("main", "flush")
    /\ UNCHANGED <<syncvars, save_ret, ringvars, options, use_threads, aliased,
                   direct, filled, accepted, written, error, attempt>>

\* The image ends with the work buffer empty: nothing to flush.
ReadEnd ==
    /\ At("main", "fill")
    /\ Goto("main", IF use_threads THEN "finish" ELSE "extents")
    /\ UNCHANGED <<syncvars, save_ret, ringvars, mainvars, written>>

\* save_image() leaves with error e.
Exit(e) ==
    /\ error' = e
    /\ Goto("main", IF use_threads THEN "stop" ELSE "done")
    /\ UNCHANGED <<syncvars, save_ret, ringvars, options, use_threads, aliased,
                   size, last, direct, filled, accepted, attempt, written>>

\* An image page cannot be read, or the user pressed the abort key.
ReadFails ==
    /\ At("main", "fill")
    /\ \/ "read" \in OtherFaults /\ Exit("EIO")
       \/ "abort" \in OtherFaults /\ Exit("EINTR")

\* The contents of the work buffer go to write_buffers[move_start], or will
\* be written out by the main thread.
FlushBuffer ==
    /\ At("main", "flush")
    /\ filled' = filled + 1
    /\ accepted' = accepted + size
    /\ direct' = 0
    /\ IF use_threads
       THEN /\ write_buffers' = [write_buffers EXCEPT
                   ![move_start] = [base |-> accepted, size |-> size]]
            /\ Goto("main", "prep")
       ELSE /\ Goto("main", "direct")
            /\ UNCHANGED write_buffers
    /\ UNCHANGED <<syncvars, save_ret, move_start, move_end, save_start,
                   save_end, encrypt_buf, moved, options, use_threads, aliased,
                   size, last, error, attempt, written>>

\* Without threads the pages are taken out of handle->write_buffer.
DirectPage ==
    /\ At("main", "direct")
    /\ direct < size
    /\ written' = Append(written, IF do_compress \/ aliased
                                  THEN accepted - size + direct + 1 ELSE 0)
    /\ direct' = direct + 1
    /\ UNCHANGED <<pc, syncvars, save_ret, ringvars, options, use_threads,
                   aliased, size, last, filled, accepted, error, attempt>>

DirectPageFails ==
    /\ At("main", "direct")
    /\ direct < size
    /\ \/ \E e \in SaveErrors : Exit(e)
       \/ do_encrypt /\ "encrypt" \in OtherFaults /\ Exit("EGCRY")

DirectEnd ==
    /\ At("main", "direct")
    /\ direct = size
    /\ Goto("main", IF last THEN "extents" ELSE "fill")
    /\ UNCHANGED <<syncvars, save_ret, ringvars, mainvars, written>>

PrepareMustWait == move_inc(move_start) = move_end /\ save_ret = NoError

\* prepare_next_write_buffer(): waits while all "write" buffers are full.
PrepareNextWriteBuffer ==
    /\ At("main", "prep")
    /\ Free("move_mutex")
    /\ IF PrepareMustWait
       THEN /\ Goto("main", "prep_sleep")
            /\ owner' = [owner EXCEPT !["move_mutex"] = "main"]
            /\ UNCHANGED <<sigs, move_start>>
       ELSE /\ Goto("main", "prep_ret")
            /\ move_start' = move_inc(move_start)
            /\ sigs' = [sigs EXCEPT !["main"] = <<"move_cond">>]
            /\ UNCHANGED owner
    /\ UNCHANGED <<asleep, save_ret, move_end, save_start, save_end,
                   write_buffers, encrypt_buf, moved, mainvars, written>>

PrepareSleep ==
    /\ At("main", "prep_sleep")
    /\ CondWait("main", "move_cond", "move_mutex", "prep")

\* Its result; that of the final flush is dropped for wait_for_finish()'s.
PrepareReturns ==
    /\ At("main", "prep_ret")
    /\ IF last \/ save_ret = NoError
       THEN /\ Goto("main", IF last THEN "finish" ELSE "fill")
            /\ UNCHANGED <<syncvars, save_ret, ringvars, mainvars, written>>
       ELSE Exit(save_ret)

\* wait_for_finish(): the two rings are looked at one after the other, with
\* finish_mutex held.
WaitForFinish ==
    /\ At("main", "finish")
    /\ Free("finish_mutex")
    /\ owner' = [owner EXCEPT !["finish_mutex"] = "main"]
    /\ Goto("main", IF save_end # save_start THEN "finish_busy" ELSE "finish2")
    /\ UNCHANGED <<sigs, asleep, save_ret, ringvars, mainvars, written>>

\* Mutant: the ring of "write" buffers is not looked at.
WaitForFinishMove_Skip ==
    /\ At("main", "finish2")
    /\ Goto("main", "finish_ret")
    /\ owner' = [owner EXCEPT !["finish_mutex"] = "none"]
    /\ UNCHANGED <<sigs, asleep, save_ret, ringvars, mainvars, written>>

WaitForFinishMove ==
    /\ At("main", "finish2")
    /\ IF move_start # move_end
       THEN /\ Goto("main", "finish_busy")
            /\ UNCHANGED owner
       ELSE /\ Goto("main", "finish_ret")
            /\ owner' = [owner EXCEPT !["finish_mutex"] = "none"]
    /\ UNCHANGED <<sigs, asleep, save_ret, ringvars, mainvars, written>>

\* Something is left to write: wait, unless there was an error.
WaitForFinishBusy ==
    /\ At("main", "finish_busy")
    /\ IF save_ret = NoError
       THEN CondWait("main", "finish_cond", "finish_mutex", "finish")
       ELSE /\ Goto("main", "finish_ret")
            /\ owner' = [owner EXCEPT !["finish_mutex"] = "none"]
            /\ UNCHANGED <<sigs, asleep, save_ret, ringvars, mainvars, written>>

FinishReturns ==
    /\ At("main", "finish_ret")
    /\ IF save_ret = NoError
       THEN /\ Goto("main", "extents")
            /\ UNCHANGED <<syncvars, save_ret, ringvars, mainvars, written>>
       ELSE Exit(save_ret)

\* save_extents(handle, 1)
SaveExtents ==
    /\ At("main", "extents")
    /\ \E e \in SaveErrors \cup {NoError} : Exit(e)

-------------------------------------------------------------------------------
(* The main thread: stop_threads() and a second attempt.                    *)

\* The threads are told to exit; finish_cond and finish_mutex are destroyed.
StopThreads ==
    /\ At("main", "stop")
    /\ Report("main", "FORCE_EXIT", <<"move_cond">>, "join_move")

JoinMove ==
    /\ At("main", "join_move") /\ At("move", "exited")
    /\ IF do_encrypt
       THEN /\ Goto("main", "join_save")
            /\ sigs' = [sigs EXCEPT !["main"] = <<"save_cond">>]
       ELSE /\ Goto("main", "done")
            /\ UNCHANGED sigs
    /\ UNCHANGED <<asleep, owner, save_ret, ringvars, mainvars, written>>

JoinSave ==
    /\ At("main", "join_save") /\ At("save", "exited")
    /\ Goto("main", "done")
    /\ UNCHANGED <<syncvars, save_ret, ringvars, mainvars, written>>

\* suspend_system() tries once more after ENOSPC, with a smaller image and a
\* new swap_writer.
Retry ==
    /\ At("main", "done")
    /\ error = "ENOSPC"
    /\ attempt < Attempts
    /\ attempt' = attempt + 1
    /\ error' = NoError
    /\ aliased' = (~do_compress /\ ~use_threads)
    /\ filled' = 0 /\ accepted' = 0
    /\ written' = <<>>
    /\ Goto("main", IF use_threads THEN "start" ELSE "fill")
    /\ UNCHANGED <<syncvars, save_ret, ringvars, options, use_threads, size,
                   last, direct>>

MainNext ==
    \/ StartRings \/ SpawnSave \/ SpawnMove \/ SpawnMoveFails \/ InitFinish
    \/ InitFinishFails \/ UndoMove \/ UndoSave \/ ReadBuffer \/ ReadEnd
    \/ ReadFails \/ FlushBuffer \/ DirectPage \/ DirectPageFails \/ DirectEnd
    \/ PrepareNextWriteBuffer \/ PrepareSleep \/ PrepareReturns
    \/ WaitForFinish \/ WaitForFinishMove \/ WaitForFinishBusy
    \/ FinishReturns \/ SaveExtents \/ StopThreads \/ JoinMove \/ JoinSave
    \/ Retry \/ Signal("main")

-------------------------------------------------------------------------------
Init ==
    /\ options \in Configs
    /\ use_threads = ("threads" \in options)
    /\ pc = [t \in Threads |-> IF t # "main" THEN "none"
                               ELSE IF use_threads THEN "start" ELSE "fill"]
    /\ sigs = [t \in Threads |-> <<>>]
    /\ asleep = [t \in Threads |-> "awake"]
    /\ owner = [m \in Mutexes |-> "none"]
    /\ save_ret = NoError
    /\ move_start = 0 /\ move_end = 0 /\ save_start = 0 /\ save_end = 0
    /\ write_buffers = [i \in 0..WRITE_BUFFERS-1 |-> [base |-> 0, size |-> 0]]
    /\ encrypt_buf = [i \in 0..ENCRYPT_BUF_PAGES-1 |-> 0]
    /\ moved = 0
    /\ aliased = (~do_compress /\ ~use_threads)
    /\ size = 0 /\ last = FALSE /\ direct = 0
    /\ filled = 0 /\ accepted = 0 /\ written = <<>>
    /\ error = NoError
    /\ attempt = 1

Next ==
    \/ MainNext \/ MoveNext \/ SaveNext
    \/ \E t \in Threads : SpuriousWakeup(t)

Spec == Init /\ [][Next]_vars

\* The scheduler runs every thread that can run; a thread that has a signal to
\* send or a mutex to take gets to do so.  Faults are not fair.
Fairness == WF_vars(MainNext) /\ WF_vars(MoveNext) /\ WF_vars(SaveNext)

FairSpec == Spec /\ Fairness

-------------------------------------------------------------------------------
(* Properties.                                                              *)

\* Every variable has a value of its type: a thread is at one of its labels,
\* the indices stay inside their rings.
PcOK ==
    /\ pc \in [Threads -> MainLabels \cup MoveLabels \cup SaveLabels]
    /\ pc["main"] \in MainLabels
    /\ pc["move"] \in MoveLabels
    /\ pc["save"] \in SaveLabels

SyncOK ==
    /\ sigs \in [Threads -> Seq(Conds)]
    /\ asleep \in [Threads -> Conds \cup {"awake"}]
    /\ owner \in [Mutexes -> Threads \cup {"none"}]
    /\ save_ret \in Errors

RingOK ==
    /\ move_start \in 0..WRITE_BUFFERS-1 /\ move_end \in 0..WRITE_BUFFERS-1
    /\ save_start \in 0..ENCRYPT_BUF_PAGES-1
    /\ save_end \in 0..ENCRYPT_BUF_PAGES-1
    /\ write_buffers \in [0..WRITE_BUFFERS-1 -> [base : Nat, size : Nat]]
    /\ encrypt_buf \in [0..ENCRYPT_BUF_PAGES-1 -> Nat]
    /\ moved \in Nat

MainOK ==
    /\ options \in Configs
    /\ use_threads \in BOOLEAN /\ aliased \in BOOLEAN /\ last \in BOOLEAN
    /\ size \in Nat /\ direct \in Nat /\ filled \in Nat /\ accepted \in Nat
    /\ written \in Seq(Nat)
    /\ error \in Errors
    /\ attempt \in 1..Attempts

\* Type correctness of save_image()'s state.
TypeOK == PcOK /\ SyncOK /\ RingOK /\ MainOK

\* The pages on the swap are those of the image, in the image's order, none
\* twice: load_image() reads them back one after the other and cannot tell.
InOrder == \A i \in 1..Len(written) : written[i] = i

MoveUsesWriteBuffer == pc["move"] \in {"encrypt", "put", "put_sleep", "loop",
                                       "save"}

\* "the threads don't access the same buffer at any time" (the comment above
\* save_ret): not even after an error, when a producer passes the consumer's
\* index without waiting.
BuffersDisjoint ==
    /\ pc["main"] = "flush" /\ use_threads /\ MoveUsesWriteBuffer =>
           move_start # move_end
    /\ pc["move"] = "encrypt" /\ pc["save"] = "page" => save_start # save_end

\* The threads are created before finish_mutex and finish_cond are initialised;
\* still no thread gets to use them before that.
FinishMutexReady ==
    pc["main"] \in {"spawn_save", "spawn_move", "init_finish", "undo_move",
                    "undo_save"} =>
        /\ pc["move"] \in {"none", "top", "sleep", "test", "exited"}
        /\ pc["save"] \in {"none", "top", "sleep", "test", "exited"}
        /\ pc["main"] # "spawn_save" =>
               \A t \in {"move", "save"} : sigs[t] = <<>>

\* stop_threads() destroys finish_mutex before it joins the threads.  When the
\* image was saved without an error, both rings are empty by then, every page
\* is on the swap, and no thread will take the mutex any more.
QuietOnSuccess ==
    pc["main"] \in {"extents", "stop", "join_move", "join_save", "done"}
    /\ error = NoError =>
        /\ Len(written) = accepted
        /\ pc["move"] \in {"none", "top", "sleep", "test", "exited"}
        /\ pc["save"] \in {"none", "top", "sleep", "test", "exited"}

\* save_image() seen from write_image().
Result == IF pc["main"] # "done" THEN "busy"
          ELSE IF error = NoError THEN "ok" ELSE "failed"

PS == INSTANCE PageStream WITH out <- written, result <- Result

\* save_image() implements the abstract page stream: pages go to the swap in
\* order, exactly once, success means all of them, and no thread writes after
\* save_image() returned.
ImplementsPageStream == PS!PSSpec

\* The kernel wakes waiting threads over and over again although nobody sent a
\* signal.  POSIX allows a spurious wakeup, and each one makes the waiter take
\* its mutex again; no program can progress against an endless run of them.
SpuriousForEver == []<><<\E t \in Threads : SpuriousWakeup(t)>>_vars

\* wait_for_finish() returns, whatever fails: errors and progress are published
\* under finish_mutex before finish_cond is signalled.
WaitForFinishReturns ==
    SpuriousForEver \/ (pc["main"] = "finish" ~> pc["main"] = "finish_ret")

\* The whole image gets written, or something fails (the threads are told to
\* exit, in start_threads(), when one of them cannot be created): no wakeup
\* that announces data or room in a ring is lost.
ImageGetsWritten ==
    SpuriousForEver \/
    <>(\/ pc["main"] = "extents" /\ Len(written) = accepted
       \/ error # NoError
       \/ save_ret # NoError)

-------------------------------------------------------------------------------
(* What the comments and the documentation say and the code does not do.    *)

\* save_image() returns, be it with an error.  stop_threads() changes save_ret
\* without move_mutex (save_mutex), so that its signal may come between a
\* thread's last look at save_ret and its falling asleep: pthread_join() then
\* waits for ever.
SaveImageReturns == <>(pc["main"] = "done")

\* The move thread waits while move_end = move_start: it is not gone before
\* the main thread handed it the first buffer of this image.  save_ret still
\* has the error of the attempt before.
MoveThreadWaitsForData ==
    pc["main"] \in {"init_finish", "fill", "flush"} /\ use_threads
    /\ filled = 0 => pc["move"] # "exited"

\* "If there's no compression and threads are not used, handle->buffer is equal
\* to handle->write_buffer [...] the data are taken directly out of
\* handle->buffer": not when the threads were configured and could not be
\* started; what is written then was never put into the buffer.
DirectFromBuffer ==
    ~do_compress /\ ~use_threads =>
        \A i \in 1..Len(written) : written[i] # 0
===============================================================================
