--------------------------- MODULE SaveThreads_order ---------------------------
(***************************************************************************)
(* The order of the pages, for rings of any size: what the two rings of    *)
(* save_image() hold, how that relates to the pages accepted and written,  *)
(* and from there that the pages reach the swap in the image's order, that *)
(* nothing is left to do when save_image() succeeds, and that it           *)
(* implements PageStream.                                                  *)
(*                                                                         *)
(* As long as there was no error, the rings are chains: the buffers (the   *)
(* pages) between the consumer's and the producer's index follow one       *)
(* another, from the last page written to the last page accepted.  After   *)
(* an error the producers go past the consumers and the chains are lost;   *)
(* what stays is that the page a thread already holds is the next one.     *)
(***************************************************************************)
EXTENDS SaveThreads_proofs

\* Index i is one of those between the consumer's index e and the producer's s.
InRing(i, e, s) == IF e <= s THEN e <= i /\ i < s ELSE e <= i \/ i < s

\* The pages of the buffers handed to the move thread: a buffer is accepted a
\* step before move_start moves on.
Preparing == pc["main"] \in {"prep", "prep_sleep"}
Queued == IF Preparing THEN accepted - size ELSE accepted

\* The page before the first one of "write" buffer i, or of the next one to be
\* queued.
Base(i) == IF i = move_start THEN Queued ELSE write_buffers[i].base

\* The pages the move thread has passed on: encrypted ones count once
\* save_start has moved past them.
InBuffer == {"encrypt", "put", "put_sleep", "loop", "save", "after", "advance"}
Putting == {"put", "put_sleep"}
Passed == IF pc["move"] \in Putting
          THEN write_buffers[move_end].base + moved - 1
          ELSE IF pc["move"] \in InBuffer
          THEN write_buffers[move_end].base + moved
          ELSE Base(move_end)

\* The page at index i of the "encrypt" buffer, or the next to be put there.
PageAt(i) == IF i = save_start THEN Passed + 1 ELSE encrypt_buf[i]

\* The main thread's own account.
SizeInv ==
    /\ pc["main"] \in {"flush", "direct", "prep", "prep_sleep"} => size > 0
    /\ pc["main"] \in {"prep", "prep_sleep"} => size <= accepted
    /\ pc["main"] = "direct" => ~use_threads
    /\ pc["main"] = "start" \/ pc["main"] \in Starting =>
           accepted = 0 /\ written = <<>>

\* Without threads the main thread writes each buffer before it reads on.
DirectInv ==
    ~use_threads =>
        /\ pc["main"] \in {"fill", "flush", "extents"} =>
               Len(written) = accepted
        /\ pc["main"] = "done" /\ error = NoError => Len(written) = accepted
        /\ pc["main"] = "direct" =>
               direct <= size /\ Len(written) + size = accepted + direct

\* Who may write to the swap, and which of the rings are in use.
LabelInv ==
    /\ pc["move"] \in {"encrypt", "put", "put_sleep", "loop"} => do_encrypt
    /\ pc["move"] = "save" => ~do_encrypt
    /\ ~do_encrypt => save_start = save_end

\* The page a thread is about to write is the next one, error or not.
HandInv ==
    /\ pc["save"] = "page" =>
           /\ encrypt_buf[save_end] = Len(written) + 1
           /\ Len(written) < accepted
    /\ pc["move"] = "save" =>
           /\ write_buffers[move_end].base + moved = Len(written)
           /\ write_buffers[move_end].base + write_buffers[move_end].size
                  <= accepted
           /\ moved <= write_buffers[move_end].size

\* The threads are at work and nothing has failed.
Flowing == use_threads /\ save_ret = NoError /\ pc["main"] # "start"

\* As long as there was no error: the "write" buffers in the ring follow one
\* another and the last one ends with the last page queued,
WriteChain ==
    Flowing =>
        /\ \A i \in 0..WRITE_BUFFERS-1 :
               InRing(i, move_end, move_start) =>
                   /\ write_buffers[i].size > 0
                   /\ write_buffers[i].base + write_buffers[i].size
                          = Base(move_inc(i))
                   /\ write_buffers[i].base + write_buffers[i].size <= Queued
        /\ Preparing => write_buffers[move_start] =
                            [base |-> Queued, size |-> size]

\* the move thread is inside its buffer,
MoveInv ==
    Flowing =>
        /\ pc["move"] = "encrypt" => moved < write_buffers[move_end].size
        /\ pc["move"] \in {"put", "put_sleep", "loop"} =>
               0 < moved /\ moved <= write_buffers[move_end].size
        /\ pc["move"] \in {"put", "put_sleep"} =>
               encrypt_buf[save_start] = Passed + 1
        /\ pc["move"] \in {"after", "advance"} =>
               moved = write_buffers[move_end].size

\* and the pages in the "encrypt" ring are consecutive, from the next one to be
\* written (or the one just written) to the last one passed on.
EncryptChain ==
    Flowing =>
        /\ \A i \in 0..ENCRYPT_BUF_PAGES-1 :
               InRing(i, save_end, save_start) =>
                   /\ encrypt_buf[i] + 1 = PageAt(save_inc(i))
                   /\ encrypt_buf[i] <= accepted
        /\ PageAt(save_end) =
               Len(written) + (IF pc["save"] = "advance" THEN 0 ELSE 1)

\* The rings are empty and neither thread will take anything out of them.
Drained ==
    /\ move_start = move_end /\ save_start = save_end
    /\ pc["move"] \in Idle /\ pc["save"] \in Idle

\* save_image() is past wait_for_finish(), without an error so far.
Succeeding ==
    \/ pc["main"] = "extents"
    \/ /\ pc["main"] \in {"stop", "join_move", "join_save", "done"}
       /\ error = NoError

\* wait_for_finish() finds both rings empty although it looks at them one after
\* the other: neither index moves while finish_mutex is held.
FinishHeld == pc["main"] \in {"finish2", "finish_busy"} =>
                  owner["finish_mutex"] = "main"

FinishInv ==
    save_ret = NoError =>
        /\ pc["main"] = "finish2" /\ move_start = move_end =>
               save_start = save_end
        /\ pc["main"] = "finish_ret" =>
               move_start = move_end /\ save_start = save_end

\* Then nothing is left to write, and no thread will write again.
DrainInv == use_threads /\ Succeeding => Drained /\ Len(written) = accepted

\* What the main thread writes without threads was put into the buffer it
\* takes it from.  (It was not when "compress" is off and the threads were
\* configured but could not be started: see DirectFromBuffer.)
StartFaults == {"init", "spawn_save", "spawn_move", "init_finish"}

BufferHoldsData ==
    \/ \A c \in Configs : "threads" \in c => "compress" \in c
    \/ OtherFaults \cap StartFaults = {}

AliasInv ==
    /\ use_threads => "threads" \in options
    /\ pc["main"] = "undo_move" => "init_finish" \in OtherFaults
    /\ ~use_threads => do_compress \/ aliased

OInv == /\ IInv /\ SizeInv /\ DirectInv /\ LabelInv /\ HandInv
        /\ WriteChain /\ MoveInv /\ EncryptChain
        /\ FinishHeld /\ FinishInv /\ DrainInv

-------------------------------------------------------------------------------
(* Rings.  Putting at s adds index s to those in use, taking from e removes  *)
(* index e.                                                                  *)
LEMMA RingSteps ==
    ASSUME NEW N \in Nat \ {0, 1}, NEW e \in 0..N-1, NEW s \in 0..N-1,
           NEW i \in 0..N-1
    PROVE  /\ ~InRing(s, e, s)
           /\ ~InRing(i, e, e)
           /\ e # s => InRing(e, e, s)
           /\ (s + 1) % N # e =>
                  (InRing(i, e, (s + 1) % N) <=> InRing(i, e, s) \/ i = s)
           /\ e # s =>
                  (InRing(i, (e + 1) % N, s) <=> InRing(i, e, s) /\ i # e)
<1>1. \A j \in 0..N-1 : (j + 1) % N = IF j = N - 1 THEN 0 ELSE j + 1
  OBVIOUS
<1>2. (s + 1) % N = IF s = N - 1 THEN 0 ELSE s + 1
  BY <1>1
<1>3. (e + 1) % N = IF e = N - 1 THEN 0 ELSE e + 1
  BY <1>1
<1> HIDE <1>1
<1> QED
  BY <1>2, <1>3 DEF InRing

(* Two indices have different successors; none is its own.                   *)
LEMMA RingSucc ==
    ASSUME NEW N \in Nat \ {0, 1}, NEW i \in 0..N-1, NEW j \in 0..N-1
    PROVE  /\ (i + 1) % N = (j + 1) % N => i = j
           /\ (i + 1) % N # i
           /\ (i + 1) % N \in 0..N-1
<1>1. \A k \in 0..N-1 : (k + 1) % N = IF k = N - 1 THEN 0 ELSE k + 1
  OBVIOUS
<1>2. (i + 1) % N = IF i = N - 1 THEN 0 ELSE i + 1
  BY <1>1
<1>3. (j + 1) % N = IF j = N - 1 THEN 0 ELSE j + 1
  BY <1>1
<1> HIDE <1>1
<1> QED
  BY <1>2, <1>3

(* The two rings of save_image().                                            *)
LEMMA WriteRing ==
    ASSUME RingOK, NEW i \in 0..WRITE_BUFFERS-1
    PROVE  /\ ~InRing(move_start, move_end, move_start)
           /\ move_end = move_start => ~InRing(i, move_end, move_start)
           /\ move_end # move_start => InRing(move_end, move_end, move_start)
           /\ move_inc(move_start) # move_end =>
                  (InRing(i, move_end, move_inc(move_start)) <=>
                       InRing(i, move_end, move_start) \/ i = move_start)
           /\ move_end # move_start =>
                  (InRing(i, move_inc(move_end), move_start) <=>
                       InRing(i, move_end, move_start) /\ i # move_end)
           /\ move_inc(i) \in 0..WRITE_BUFFERS-1 /\ move_inc(i) # i
           /\ \A j \in 0..WRITE_BUFFERS-1 : move_inc(i) = move_inc(j) => i = j
<1>1. /\ WRITE_BUFFERS \in Nat \ {0, 1}
      /\ move_start \in 0..WRITE_BUFFERS-1 /\ move_end \in 0..WRITE_BUFFERS-1
  BY ConstantsAssumption DEF RingOK
<1>2. \A j \in 0..WRITE_BUFFERS-1 :
          /\ move_inc(i) = move_inc(j) => i = j
          /\ move_inc(i) # i
          /\ move_inc(i) \in 0..WRITE_BUFFERS-1
  BY <1>1, RingSucc DEF move_inc
<1>3. /\ ~InRing(move_start, move_end, move_start)
      /\ ~InRing(i, move_end, move_end)
      /\ move_end # move_start => InRing(move_end, move_end, move_start)
      /\ move_inc(move_start) # move_end =>
             (InRing(i, move_end, move_inc(move_start)) <=>
                  InRing(i, move_end, move_start) \/ i = move_start)
      /\ move_end # move_start =>
             (InRing(i, move_inc(move_end), move_start) <=>
                  InRing(i, move_end, move_start) /\ i # move_end)
  BY <1>1, RingSteps, ZenonT(90) DEF move_inc
<1> QED
  BY <1>1, <1>2, <1>3

(* The same for the "encrypt" buffer.                                        *)
LEMMA EncryptRing ==
    ASSUME RingOK, NEW i \in 0..ENCRYPT_BUF_PAGES-1
    PROVE  /\ ~InRing(save_start, save_end, save_start)
           /\ save_end = save_start => ~InRing(i, save_end, save_start)
           /\ save_end # save_start => InRing(save_end, save_end, save_start)
           /\ save_inc(save_start) # save_end =>
                  (InRing(i, save_end, save_inc(save_start)) <=>
                       InRing(i, save_end, save_start) \/ i = save_start)
           /\ save_end # save_start =>
                  (InRing(i, save_inc(save_end), save_start) <=>
                       InRing(i, save_end, save_start) /\ i # save_end)
           /\ save_inc(i) \in 0..ENCRYPT_BUF_PAGES-1 /\ save_inc(i) # i
           /\ \A j \in 0..ENCRYPT_BUF_PAGES-1 :
                  save_inc(i) = save_inc(j) => i = j
<1>1. /\ ENCRYPT_BUF_PAGES \in Nat \ {0, 1}
      /\ save_start \in 0..ENCRYPT_BUF_PAGES-1
      /\ save_end \in 0..ENCRYPT_BUF_PAGES-1
  BY ConstantsAssumption DEF RingOK
<1>2. \A j \in 0..ENCRYPT_BUF_PAGES-1 :
          /\ save_inc(i) = save_inc(j) => i = j
          /\ save_inc(i) # i
          /\ save_inc(i) \in 0..ENCRYPT_BUF_PAGES-1
  BY <1>1, RingSucc DEF save_inc
<1>3. /\ ~InRing(save_start, save_end, save_start)
      /\ ~InRing(i, save_end, save_end)
      /\ save_end # save_start => InRing(save_end, save_end, save_start)
      /\ save_inc(save_start) # save_end =>
             (InRing(i, save_end, save_inc(save_start)) <=>
                  InRing(i, save_end, save_start) \/ i = save_start)
      /\ save_end # save_start =>
             (InRing(i, save_inc(save_end), save_start) <=>
                  InRing(i, save_end, save_start) /\ i # save_end)
  BY <1>1, RingSteps, ZenonT(90) DEF save_inc
<1> QED
  BY <1>1, <1>2, <1>3

-------------------------------------------------------------------------------
(* The steps that matter to the order of the pages.  In all others the rings *)
(* keep their contents and no thread gets to a place that counts.            *)
Still ==
    /\ UNCHANGED <<ringvars, accepted, written>>
    /\ Flowing' => Flowing
    /\ Preparing' <=> Preparing
    /\ Preparing => UNCHANGED size
    /\ \/ pc'["move"] = pc["move"]
       \/ pc["move"] \notin InBuffer /\ pc'["move"] \notin InBuffer
       \/ pc["move"] \in Putting /\ pc'["move"] \in Putting
    /\ pc'["save"] = "advance" <=> pc["save"] = "advance"

PageSteps ==
    \/ StartRings \/ FlushBuffer \/ PrepareNextWriteBuffer
    \/ MoveTest \/ MoveEncrypt \/ MovePut \/ MoveLoop \/ MoveSave \/ MoveAfter
    \/ MoveAdvance \/ SavePage \/ SaveAdvance

(* Every step is one of those, or does not count, or follows an error.       *)
LEMMA Dispatch ==
    IInv /\ SizeInv /\ [Next]_vars => PageSteps \/ Still \/ ~Flowing'
<1> SUFFICES ASSUME IInv, SizeInv, [Next]_vars, ~PageSteps, Flowing'
             PROVE  Still
  OBVIOUS
<1> USE DEF IInv, TypeInv, TypeOK, PcOK, SyncOK, ThreadInv, Starting, Threads,
        PageSteps, Still, Flowing, SizeInv, Preparing, InBuffer, Putting, At,
        Goto, ringvars, mainvars, syncvars, NoError, MoveGone, SaveGone, Gone
<1>0. SaveErrors \subseteq {"ENOSPC", "EIO"}
  BY ConstantsAssumption
<1>1. CASE MainNext
  <2>1. UNCHANGED <<ringvars, accepted, written>>
    BY <1>1, <1>0 DEF MainNext, Signal, StartRings, NoThreads, ThreadVars,
      SpawnSave, SpawnMove, SpawnMoveFails, StopSaveThread, InitFinish,
      InitFinishFails, UndoMove, UndoSave, ReadBuffer, ReadEnd, ReadFails,
      Exit, FlushBuffer, DirectPage, DirectPageFails, DirectEnd,
      PrepareNextWriteBuffer, PrepareMustWait, PrepareSleep, CondWait,
      PrepareReturns, WaitForFinish, WaitForFinishMove, WaitForFinishBusy,
      FinishReturns, SaveExtents, StopThreads, Report, JoinMove, JoinSave,
      Retry
  <2>2. /\ Flowing
        /\ Preparing' <=> Preparing
        /\ Preparing => UNCHANGED size
    BY ZenonT(60), <1>1, <1>0 DEF MainNext, Signal, StartRings, NoThreads,
      ThreadVars, SpawnSave, SpawnMove, SpawnMoveFails, StopSaveThread,
      InitFinish, InitFinishFails, UndoMove, UndoSave, ReadBuffer, ReadEnd,
      ReadFails, Exit, FlushBuffer, DirectPage, DirectPageFails, DirectEnd,
      PrepareNextWriteBuffer, PrepareMustWait, PrepareSleep, CondWait,
      PrepareReturns, WaitForFinish, WaitForFinishMove, WaitForFinishBusy,
      FinishReturns, SaveExtents, StopThreads, Report, JoinMove, JoinSave,
      Retry
  <2>3. \/ pc'["move"] = pc["move"] /\ pc'["save"] = pc["save"]
        \/ SpawnSave \/ SpawnMove
    BY ZenonT(60), <1>1 DEF MainNext, Signal, StartRings, NoThreads,
      ThreadVars, SpawnSave, SpawnMove, SpawnMoveFails, StopSaveThread,
      InitFinish, InitFinishFails, UndoMove, UndoSave, ReadBuffer, ReadEnd,
      ReadFails, Exit, FlushBuffer, DirectPage, DirectPageFails, DirectEnd,
      PrepareNextWriteBuffer, PrepareMustWait, PrepareSleep, CondWait,
      PrepareReturns, WaitForFinish, WaitForFinishMove, WaitForFinishBusy,
      FinishReturns, SaveExtents, StopThreads, Report, JoinMove, JoinSave,
      Retry
  <2>4. /\ \/ pc'["move"] = pc["move"]
           \/ pc["move"] \notin InBuffer /\ pc'["move"] \notin InBuffer
        /\ pc'["save"] = "advance" <=> pc["save"] = "advance"
    BY <2>3 DEF SpawnSave, SpawnMove, NoThreads
  <2> QED
    BY <2>1, <2>2, <2>4
<1>2. CASE MoveNext
  BY ZenonT(60), <1>2, <1>0 DEF MoveNext, Signal, MoveTop, MoveMustWait,
    MoveSleep, CondWait, MoveTest, MoveEncrypt, NextPage, MoveEncryptFails,
    Report, MovePut, PutMustWait, MovePutSleep, MoveLoop, LoopGoesOn, MoveSave,
    MoveSaveFails, MoveAfter, MoveAdvance
<1>3. CASE SaveNext
  BY ZenonT(60), <1>3, <1>0 DEF SaveNext, Signal, SaveTop, SaveSleep, CondWait,
    SaveTest, SavePage, SavePageFails, Report, SaveAdvance
<1>4. CASE \E t \in Threads : SpuriousWakeup(t)
  BY <1>4, <1>0 DEF SpuriousWakeup
<1>5. CASE UNCHANGED vars
  BY <1>5 DEF vars
<1> QED
  BY <1>1, <1>2, <1>3, <1>4, <1>5 DEF Next

(* The main thread's account.                                                *)
LEMMA SizeStep == IInv /\ SizeInv /\ Next => SizeInv'
<1> SUFFICES ASSUME IInv, SizeInv, Next PROVE SizeInv'
  OBVIOUS
<1> USE DEF IInv, TypeInv, TypeOK, PcOK, MainOK, ThreadInv, StartInv, MoveGone,
        SaveGone, Gone, Starting, Idle, Threads, SizeInv, At, Goto, mainvars
<1>1. CASE MainNext
  BY <1>1 DEF MainNext, Signal, StartRings, NoThreads, ThreadVars,
    SpawnSave, SpawnMove, SpawnMoveFails, StopSaveThread, InitFinish,
    InitFinishFails, UndoMove, UndoSave, ReadBuffer, ReadEnd, ReadFails, Exit,
    FlushBuffer, DirectPage, DirectPageFails, DirectEnd,
    PrepareNextWriteBuffer, PrepareMustWait, PrepareSleep, CondWait,
    PrepareReturns, WaitForFinish, WaitForFinishMove, WaitForFinishBusy,
    FinishReturns, SaveExtents, StopThreads, Report, JoinMove, JoinSave, Retry
<1>2. CASE MoveNext
  BY <1>2 DEF MoveNext, Signal, MoveTop, MoveMustWait, MoveSleep, CondWait,
    MoveTest, MoveEncrypt, NextPage, MoveEncryptFails, Report, MovePut,
    PutMustWait, MovePutSleep, MoveLoop, LoopGoesOn, MoveSave, MoveSaveFails,
    MoveAfter, MoveAdvance
<1>3. CASE SaveNext
  BY <1>3 DEF SaveNext, Signal, SaveTop, SaveSleep, CondWait, SaveTest,
    SavePage, SavePageFails, Report, SaveAdvance
<1>4. CASE \E t \in Threads : SpuriousWakeup(t)
  BY <1>4 DEF SpuriousWakeup
<1> QED
  BY <1>1, <1>2, <1>3, <1>4 DEF Next

(* The labels of the move thread go with the configuration.                  *)
LEMMA LabelStep == IInv /\ LabelInv /\ Next => LabelInv'
<1> SUFFICES ASSUME IInv, LabelInv, Next PROVE LabelInv'
  OBVIOUS
<1> USE DEF IInv, TypeInv, TypeOK, PcOK, ThreadInv, SaveGone, Gone, Threads,
        LabelInv, do_encrypt, At, Goto, mainvars, ringvars
<1>1. CASE MainNext
  BY <1>1 DEF MainNext, Signal, StartRings, NoThreads, ThreadVars,
    SpawnSave, SpawnMove, SpawnMoveFails, StopSaveThread, InitFinish,
    InitFinishFails, UndoMove, UndoSave, ReadBuffer, ReadEnd, ReadFails, Exit,
    FlushBuffer, DirectPage, DirectPageFails, DirectEnd,
    PrepareNextWriteBuffer, PrepareMustWait, PrepareSleep, CondWait,
    PrepareReturns, WaitForFinish, WaitForFinishMove, WaitForFinishBusy,
    FinishReturns, SaveExtents, StopThreads, Report, JoinMove, JoinSave, Retry
<1>2. CASE MoveNext
  BY <1>2 DEF MoveNext, Signal, MoveTop, MoveMustWait, MoveSleep, CondWait,
    MoveTest, MoveEncrypt, NextPage, MoveEncryptFails, Report, MovePut,
    PutMustWait, MovePutSleep, MoveLoop, LoopGoesOn, MoveSave, MoveSaveFails,
    MoveAfter, MoveAdvance
<1>3. CASE SaveNext
  BY <1>3 DEF SaveNext, Signal, SaveTop, SaveSleep, CondWait, SaveTest,
    SavePage, SavePageFails, Report, SaveAdvance
<1>4. CASE \E t \in Threads : SpuriousWakeup(t)
  BY <1>4 DEF SpuriousWakeup
<1> QED
  BY <1>1, <1>2, <1>3, <1>4 DEF Next

(* What is in the rings are numbers.                                         *)
LEMMA RingVals ==
    ASSUME RingOK
    PROVE  /\ \A i \in 0..WRITE_BUFFERS-1 : /\ write_buffers[i].base \in Nat
                                            /\ write_buffers[i].size \in Nat
           /\ \A i \in 0..ENCRYPT_BUF_PAGES-1 : encrypt_buf[i] \in Nat
<1>1. \A i \in 0..WRITE_BUFFERS-1 :
          write_buffers[i] \in [base : Nat, size : Nat]
  BY DEF RingOK
<1> QED
  BY <1>1 DEF RingOK

(* Without threads the main thread keeps the account itself.                 *)
LEMMA DirectInvStep == IInv /\ SizeInv /\ DirectInv /\ Next => DirectInv'
<1> SUFFICES ASSUME IInv, SizeInv, DirectInv, Next PROVE DirectInv'
  OBVIOUS
<1> USE DEF IInv, TypeInv, TypeOK, PcOK, MainOK, ThreadInv, StartInv, MoveGone,
        SaveGone, Gone, Starting, Threads, SizeInv, DirectInv, At, Goto,
        mainvars, NoError
<1>0. SaveErrors \subseteq {"ENOSPC", "EIO"}
  BY ConstantsAssumption
<1>5. CASE DirectPage
  <2>1. Len(written') = Len(written) + 1
    BY <1>5 DEF DirectPage
  <2> QED
    BY <1>5, <2>1, SMTT(60) DEF DirectPage
<1>6. CASE Retry
  BY <1>6 DEF Retry
<1>1. CASE MainNext /\ ~DirectPage /\ ~Retry
  BY <1>1, <1>0 DEF MainNext, Signal, StartRings, NoThreads, ThreadVars,
    SpawnSave, SpawnMove, SpawnMoveFails, StopSaveThread, InitFinish,
    InitFinishFails, UndoMove, UndoSave, ReadBuffer, ReadEnd, ReadFails, Exit,
    FlushBuffer, DirectPageFails, DirectEnd,
    PrepareNextWriteBuffer, PrepareMustWait, PrepareSleep, CondWait,
    PrepareReturns, WaitForFinish, WaitForFinishMove, WaitForFinishBusy,
    FinishReturns, SaveExtents, StopThreads, Report, JoinMove, JoinSave
<1>2. CASE MoveNext
  BY <1>2, <1>0 DEF MoveNext, Signal, MoveTop, MoveMustWait, MoveSleep,
    CondWait, MoveTest, MoveEncrypt, NextPage, MoveEncryptFails, Report,
    MovePut, PutMustWait, MovePutSleep, MoveLoop, LoopGoesOn, MoveSave,
    MoveSaveFails, MoveAfter, MoveAdvance
<1>3. CASE SaveNext
  BY <1>3, <1>0 DEF SaveNext, Signal, SaveTop, SaveSleep, CondWait, SaveTest,
    SavePage, SavePageFails, Report, SaveAdvance
<1>4. CASE \E t \in Threads : SpuriousWakeup(t)
  BY <1>4, <1>0 DEF SpuriousWakeup
<1> QED
  BY <1>1, <1>2, <1>3, <1>4, <1>5, <1>6 DEF Next

(* Steps that do not count keep the order.                                   *)
LEMMA StillChain ==
    ASSUME WriteChain, MoveInv, EncryptChain, Still
    PROVE  WriteChain' /\ MoveInv' /\ EncryptChain'
<1> SUFFICES ASSUME Flowing' PROVE WriteChain' /\ MoveInv' /\ EncryptChain'
  BY DEF WriteChain, MoveInv, EncryptChain
<1>1. /\ UNCHANGED <<ringvars, accepted, written>>
      /\ Preparing' <=> Preparing
      /\ Queued' = Queued
      /\ Flowing
  BY DEF Still, Queued
<1>2. UNCHANGED <<move_start, move_end, save_start, save_end, write_buffers,
                  encrypt_buf, moved>>
  BY <1>1 DEF ringvars
<1>3. \A i : Base(i)' = Base(i)
  BY <1>1, <1>2 DEF Base
<1>4. Passed' = Passed
  BY <1>1, <1>2, <1>3 DEF Passed, Still, InBuffer, Putting
<1>5. \A i : PageAt(i)' = PageAt(i)
  BY <1>2, <1>4 DEF PageAt
<1>6. WriteChain'
  BY <1>1, <1>2, <1>3 DEF WriteChain, Preparing, Queued, Still, move_inc
<1>7. MoveInv'
  BY <1>1, <1>2, <1>4 DEF MoveInv, Still, InBuffer, Putting
<1>8. EncryptChain'
  BY <1>1, <1>2, <1>5 DEF EncryptChain, Still, save_inc
<1> QED
  BY <1>6, <1>7, <1>8

(* Neither do steps away from the "write" buffers.                           *)
LEMMA WriteSame ==
    ASSUME WriteChain, Flowing' => Flowing,
           UNCHANGED <<move_start, move_end, write_buffers, accepted, size>>,
           pc'["main"] = pc["main"]
    PROVE  WriteChain'
<1>1. (Preparing' <=> Preparing) /\ Queued' = Queued
  BY DEF Preparing, Queued
<1>2. \A i : Base(i)' = Base(i)
  BY <1>1 DEF Base
<1> QED
  BY <1>1, <1>2 DEF WriteChain, Preparing, move_inc

(* The invariant of the order of the pages, but for the end of save_image(). *)
ChainInv == SizeInv /\ LabelInv /\ WriteChain /\ MoveInv /\ EncryptChain

(* The types the chains are about.                                           *)
LEMMA ChainTypes ==
    ASSUME IInv, SizeInv
    PROVE  /\ RingOK /\ accepted \in Nat /\ size \in Nat /\ moved \in Nat
           /\ written \in Seq(Nat) /\ Len(written) \in Nat
           /\ Queued \in Nat /\ Queued <= accepted
           /\ \A i \in 0..WRITE_BUFFERS-1 : /\ write_buffers[i].base \in Nat
                                            /\ write_buffers[i].size \in Nat
                                            /\ Base(i) \in Nat
           /\ \A i \in 0..ENCRYPT_BUF_PAGES-1 : encrypt_buf[i] \in Nat
           /\ Passed \in Int
<1>1. /\ RingOK /\ accepted \in Nat /\ size \in Nat /\ moved \in Nat
      /\ written \in Seq(Nat)
  BY DEF IInv, TypeInv, TypeOK, MainOK, RingOK
<1>2. /\ \A i \in 0..WRITE_BUFFERS-1 : /\ write_buffers[i].base \in Nat
                                       /\ write_buffers[i].size \in Nat
      /\ \A i \in 0..ENCRYPT_BUF_PAGES-1 : encrypt_buf[i] \in Nat
  BY <1>1, RingVals
<1>3. Queued \in Nat /\ Queued <= accepted
  BY <1>1 DEF Queued, Preparing, SizeInv
<1>4. \A i \in 0..WRITE_BUFFERS-1 : Base(i) \in Nat
  BY <1>2, <1>3 DEF Base
<1>5. move_end \in 0..WRITE_BUFFERS-1
  BY <1>1 DEF RingOK
<1>6. Passed \in Int
  BY <1>1, <1>2, <1>4, <1>5 DEF Passed
<1>7. Len(written) \in Nat
  BY <1>1
<1> QED
  BY <1>1, <1>2, <1>3, <1>4, <1>6, <1>7

(* The "write" buffers stay in order.                                        *)
LEMMA WriteChainStep == IInv /\ ChainInv /\ PageSteps => WriteChain'
<1> SUFFICES ASSUME IInv, ChainInv, PageSteps, Flowing' PROVE WriteChain'
  BY DEF WriteChain
<1> USE DEF ChainInv
<1>0. /\ RingOK /\ accepted \in Nat /\ size \in Nat
      /\ Queued \in Nat /\ Queued <= accepted
      /\ \A i \in 0..WRITE_BUFFERS-1 : /\ write_buffers[i].base \in Nat
                                       /\ write_buffers[i].size \in Nat
                                       /\ Base(i) \in Nat
      /\ pc \in [Threads -> MainLabels \cup MoveLabels \cup SaveLabels]
      /\ move_start \in 0..WRITE_BUFFERS-1 /\ move_end \in 0..WRITE_BUFFERS-1
  BY ChainTypes DEF IInv, TypeInv, TypeOK, PcOK, RingOK
<1>1. CASE StartRings
  <2>1. move_start' = 0 /\ move_end' = 0 /\ 0 \in 0..WRITE_BUFFERS-1
    BY <1>1, IncRange DEF StartRings
  <2>2. \A i \in 0..WRITE_BUFFERS-1 : ~InRing(i, move_end', move_start')
    BY <2>1, ConstantsAssumption DEF InRing
  <2>3. ~Preparing'
    BY <1>0, <1>1 DEF StartRings, Preparing, Goto, Threads, NoThreads
  <2> QED
    BY <2>2, <2>3 DEF WriteChain
<1>2. CASE FlushBuffer
  <2>1. /\ pc["main"] = "flush" /\ accepted' = accepted + size
        /\ UNCHANGED <<move_start, move_end, size>>
        /\ pc'["main"] = "prep"
        /\ write_buffers' = [write_buffers EXCEPT ![move_start] =
                                 [base |-> accepted, size |-> size]]
    BY <1>0, <1>2 DEF FlushBuffer, At, Goto, Threads, Flowing
  <2>2. Flowing /\ Queued = accepted /\ Preparing' /\ Queued' = accepted
    BY <1>0, <1>2, <2>1 DEF FlushBuffer, Flowing, Preparing, Queued
  <2>3. \A i \in 0..WRITE_BUFFERS-1 : Base(i)' = Base(i)
    BY <1>0, <2>1, <2>2 DEF Base, RingOK
  <2>4. write_buffers'[move_start'] = [base |-> Queued', size |-> size']
    BY <1>0, <2>1, <2>2 DEF RingOK
  <2>5. ASSUME NEW i \in 0..WRITE_BUFFERS-1, InRing(i, move_end, move_start)
        PROVE  /\ write_buffers'[i].size > 0
               /\ write_buffers'[i].base + write_buffers'[i].size
                      = Base(move_inc(i))'
               /\ write_buffers'[i].base + write_buffers'[i].size <= Queued'
    <3>1. i # move_start /\ move_inc(i) \in 0..WRITE_BUFFERS-1
      BY <1>0, <2>5, WriteRing
    <3>2. write_buffers'[i] = write_buffers[i]
      BY <1>0, <2>1, <3>1 DEF RingOK
    <3>3. Base(move_inc(i))' = Base(move_inc(i))
      BY <2>3, <3>1 DEF move_inc
    <3> QED
      BY <2>2, <2>5, <3>2, <3>3 DEF WriteChain
  <2> QED
    BY <2>1, <2>4, <2>5 DEF WriteChain
<1>3. CASE PrepareNextWriteBuffer /\ PrepareMustWait
  <2>1. Still
    BY <1>0, <1>3 DEF PrepareNextWriteBuffer, Still, Flowing, Preparing, At,
      Goto, Threads, mainvars, ringvars
  <2> QED
    BY <2>1, StillChain
<1>4. CASE PrepareNextWriteBuffer /\ ~PrepareMustWait
  <2>1. /\ pc["main"] = "prep" /\ pc'["main"] = "prep_ret"
        /\ move_start' = move_inc(move_start)
        /\ UNCHANGED <<move_end, size, accepted, write_buffers, save_ret>>
        /\ UNCHANGED use_threads
    BY <1>0, <1>4 DEF PrepareNextWriteBuffer, At, Goto, Threads, mainvars
  <2>2. Flowing /\ move_inc(move_start) # move_end
    BY <1>4, <2>1 DEF Flowing, PrepareMustWait
  <2>3. /\ Queued + size = accepted /\ ~Preparing' /\ Queued' = accepted
        /\ write_buffers[move_start] = [base |-> Queued, size |-> size]
        /\ size > 0
    BY <1>0, <2>1, <2>2 DEF WriteChain, Preparing, Queued, SizeInv
  <2>4. ASSUME NEW i \in 0..WRITE_BUFFERS-1,
               InRing(i, move_end', move_start')
        PROVE  /\ write_buffers'[i].size > 0
               /\ write_buffers'[i].base + write_buffers'[i].size
                      = Base(move_inc(i))'
               /\ write_buffers'[i].base + write_buffers'[i].size <= Queued'
    <3>1. /\ InRing(i, move_end, move_start) \/ i = move_start
          /\ ~InRing(move_start, move_end, move_start)
      BY <1>0, <2>1, <2>2, <2>4, WriteRing
    <3>2. CASE i = move_start
      BY <1>0, <2>1, <2>3, <3>2 DEF Base, move_inc
    <3>3. CASE InRing(i, move_end, move_start)
      <4>1. /\ move_inc(i) # move_inc(move_start)
            /\ move_inc(i) \in 0..WRITE_BUFFERS-1
        BY <1>0, <3>1, <3>3, WriteRing
      <4>2. Base(move_inc(i))' = Base(move_inc(i))
        BY <1>0, <2>1, <2>3, <4>1 DEF Base, move_inc
      <4>3. /\ write_buffers[i].size > 0
            /\ write_buffers[i].base + write_buffers[i].size = Base(move_inc(i))
            /\ write_buffers[i].base + write_buffers[i].size <= Queued
        BY <2>2, <3>3 DEF WriteChain
      <4>4. Queued <= Queued'
        BY <1>0, <2>3
      <4> QED
        BY <1>0, <2>1, <2>3, <4>2, <4>3, <4>4
    <3> QED
      BY <3>1, <3>2, <3>3
  <2> QED
    BY <2>3, <2>4 DEF WriteChain
<1>5. CASE MoveAdvance
  <2>1. /\ pc["move"] = "advance" /\ move_end' = move_inc(move_end)
        /\ UNCHANGED <<move_start, write_buffers, accepted, size>>
        /\ pc'["main"] = pc["main"]
        /\ Flowing
    BY <1>0, <1>5 DEF MoveAdvance, At, Goto, Threads, mainvars, Flowing
  <2>2. move_end # move_start
    BY <2>1 DEF IInv, RingInv, MoveBusy, Flowing
  <2>3. (Preparing' <=> Preparing) /\ Queued' = Queued
    BY <2>1 DEF Preparing, Queued
  <2>4. \A i : Base(i)' = Base(i)
    BY <2>1, <2>3 DEF Base
  <2>5. \A i \in 0..WRITE_BUFFERS-1 :
            InRing(i, move_end', move_start') => InRing(i, move_end, move_start)
    BY <1>0, <2>1, <2>2, WriteRing
  <2> QED
    BY <2>1, <2>3, <2>4, <2>5 DEF WriteChain, move_inc
<1>6. CASE MoveTest \/ MoveEncrypt \/ MovePut \/ MoveLoop \/ MoveSave
           \/ MoveAfter \/ SavePage \/ SaveAdvance
  <2>1. /\ UNCHANGED <<move_start, move_end, write_buffers, accepted, size>>
        /\ pc'["main"] = pc["main"] /\ Flowing
    BY <1>0, <1>6 DEF MoveTest, MoveEncrypt, MovePut, MoveLoop, MoveSave,
      MoveAfter, SavePage, SaveAdvance, Goto, Threads, mainvars, ringvars,
      Flowing
  <2> QED
    BY <2>1, WriteSame
<1> QED
  BY <1>1, <1>2, <1>3, <1>4, <1>5, <1>6 DEF PageSteps

(* What the move thread has passed on only changes when it publishes a page, *)
(* or writes one itself.                                                     *)
LEMMA PassedStep ==
    ASSUME IInv, ChainInv, PageSteps, Flowing'
    PROVE  /\ StartRings => Passed' = 0
           /\ MovePut /\ ~PutMustWait => Passed' = Passed + 1
           /\ MoveSave /\ written' # written => Passed' = Passed + 1
           /\ \/ StartRings
              \/ (MovePut /\ ~PutMustWait)
              \/ (MoveSave /\ written' # written)
              \/ Passed' = Passed
<1> USE DEF ChainInv
<1>0. /\ RingOK /\ accepted \in Nat /\ size \in Nat /\ moved \in Nat
      /\ written \in Seq(Nat)
      /\ Queued \in Nat /\ Queued <= accepted
      /\ \A i \in 0..WRITE_BUFFERS-1 : /\ write_buffers[i].base \in Nat
                                       /\ write_buffers[i].size \in Nat
                                       /\ Base(i) \in Nat
      /\ pc \in [Threads -> MainLabels \cup MoveLabels \cup SaveLabels]
      /\ move_start \in 0..WRITE_BUFFERS-1 /\ move_end \in 0..WRITE_BUFFERS-1
  BY ChainTypes DEF IInv, TypeInv, TypeOK, PcOK, RingOK
<1>01. write_buffers[move_end].base \in Nat /\ moved \in Nat
  BY <1>0
<1>00. pc["move"] \in InBuffer /\ Flowing => move_start # move_end
  BY DEF IInv, RingInv, MoveBusy, InBuffer, Flowing
<1>1. CASE StartRings
  <2>1. /\ pc["main"] = "start" /\ move_start' = 0 /\ move_end' = 0
        /\ UNCHANGED accepted /\ pc'["move"] = pc["move"]
        /\ pc'["main"] \in {"spawn_save", "spawn_move", "fill"}
    BY <1>0, <1>1 DEF StartRings, At, Goto, Threads, NoThreads, ThreadVars
  <2>2. pc["move"] \notin InBuffer /\ accepted = 0
    BY <2>1 DEF IInv, ThreadInv, MoveGone, Gone, InBuffer, SizeInv
  <2>3. Passed' = 0
    BY <2>1, <2>2 DEF Passed, InBuffer, Putting, Base, Queued, Preparing
  <2> QED
    BY <1>1, <2>1, <2>3 DEF MovePut, MoveSave, At, IInv, ThreadInv, MoveGone,
      Gone
<1>2. CASE FlushBuffer
  <2>1. /\ pc["main"] = "flush" /\ accepted' = accepted + size
        /\ UNCHANGED <<move_start, move_end, size, moved, written>>
        /\ pc'["main"] = "prep" /\ pc'["move"] = pc["move"]
        /\ write_buffers' = [write_buffers EXCEPT ![move_start] =
                                 [base |-> accepted, size |-> size]]
        /\ Flowing
    BY <1>0, <1>2 DEF FlushBuffer, At, Goto, Threads, Flowing
  <2>2. Queued = accepted /\ Queued' = accepted
    BY <1>0, <2>1 DEF Preparing, Queued
  <2>3. Base(move_end)' = Base(move_end)
    BY <1>0, <2>1, <2>2 DEF Base, RingOK
  <2>4. pc["move"] \in InBuffer =>
            write_buffers'[move_end] = write_buffers[move_end]
    BY <1>0, <1>00, <2>1 DEF RingOK
  <2>5. Passed' = Passed
    BY <2>1, <2>3, <2>4 DEF Passed, InBuffer, Putting
  <2>6. ~MovePut /\ ~StartRings
    BY <1>0, <2>1 DEF MovePut, StartRings, At, Goto, Threads
  <2> QED
    BY <2>1, <2>5, <2>6
<1>3. CASE PrepareNextWriteBuffer
  <2>1. /\ pc["main"] = "prep"
        /\ UNCHANGED <<move_end, size, accepted, write_buffers, save_ret,
                       moved, written, save_start>>
        /\ UNCHANGED use_threads /\ pc'["move"] = pc["move"]
        /\ pc'["main"] # "prep"
    BY <1>0, <1>3 DEF PrepareNextWriteBuffer, At, Goto, Threads, mainvars
  <2>2. Flowing
    BY <2>1 DEF Flowing
  <2>3. Base(move_end)' = Base(move_end)
    <3>1. CASE PrepareMustWait
      BY <1>0, <1>3, <2>1, <3>1 DEF PrepareNextWriteBuffer, Goto, Threads,
        Base, Queued, Preparing
    <3>2. CASE ~PrepareMustWait
      <4>1. /\ move_start' = move_inc(move_start)
            /\ move_inc(move_start) # move_end
        BY <1>3, <2>2, <3>2 DEF PrepareNextWriteBuffer, PrepareMustWait,
          Flowing
      <4>2. write_buffers[move_start].base = Queued
        BY <2>1, <2>2 DEF WriteChain, Preparing
      <4> QED
        BY <2>1, <4>1, <4>2 DEF Base
    <3> QED
      BY <3>1, <3>2
  <2>4. Passed' = Passed
    BY <2>1, <2>3 DEF Passed
  <2>5. ~MovePut /\ ~StartRings
    BY <1>0, <2>1 DEF MovePut, StartRings, At, Goto, Threads
  <2> QED
    BY <2>1, <2>4, <2>5
<1>4. CASE MoveTest
  <2>1. /\ pc["move"] = "test" /\ moved' = 0 /\ pc'["main"] = pc["main"]
        /\ pc'["move"] \in {"encrypt", "save"} /\ Flowing
        /\ UNCHANGED <<move_end, move_start, write_buffers, written>>
    BY <1>0, <1>4 DEF MoveTest, At, Goto, Threads, mainvars, Flowing
  <2>2. move_start # move_end
    BY <2>1 DEF IInv, RingInv, Flowing
  <2>3. Passed' = Passed
    BY <1>0, <2>1, <2>2 DEF Passed, Base, InBuffer, Putting
  <2> QED
    BY <2>1, <2>3 DEF StartRings, MovePut, MoveSave, At, IInv, ThreadInv,
      MoveGone, Gone
<1>5. CASE MoveEncrypt
  <2>1. /\ pc["move"] = "encrypt" /\ moved' = moved + 1
        /\ pc'["move"] = "put"
        /\ UNCHANGED <<move_end, write_buffers, written>>
    BY <1>0, <1>5 DEF MoveEncrypt, At, Goto, Threads
  <2>2. Passed' = Passed
    BY <1>0, <2>1 DEF Passed, InBuffer, Putting
  <2> QED
    BY <2>1, <2>2 DEF StartRings, MovePut, MoveSave, At, IInv, ThreadInv,
      MoveGone, Gone
<1>6. CASE MovePut
  <2>1. /\ pc["move"] = "put" /\ UNCHANGED <<move_end, write_buffers, moved>>
        /\ pc'["move"] = IF PutMustWait THEN "put_sleep" ELSE "loop"
    BY <1>0, <1>6 DEF MovePut, At, Goto, Threads
  <2>2. Passed = write_buffers[move_end].base + moved - 1
    BY <2>1 DEF Passed, Putting
  <2>3. Passed' = IF PutMustWait THEN write_buffers[move_end].base + moved - 1
                  ELSE write_buffers[move_end].base + moved
    BY <2>1 DEF Passed, InBuffer, Putting
  <2> QED
    BY <1>01, <1>6, <2>1, <2>2, <2>3 DEF StartRings, MoveSave, At, IInv,
      ThreadInv, MoveGone, Gone
<1>7. CASE MoveLoop \/ MoveAfter
  <2>1. /\ pc["move"] \in {"loop", "after"}
        /\ UNCHANGED <<move_end, write_buffers, moved, written>>
        /\ pc'["move"] \in {"encrypt", "after", "advance"}
    BY <1>0, <1>7 DEF MoveLoop, MoveAfter, At, Goto, Threads, Flowing, ringvars
  <2>2. Passed' = Passed
    BY <1>0, <2>1 DEF Passed, InBuffer, Putting
  <2> QED
    BY <2>1, <2>2 DEF StartRings, MovePut, MoveSave, At, IInv, ThreadInv,
      MoveGone, Gone
<1>8. CASE MoveSave
  <2>1. /\ pc["move"] = "save" /\ UNCHANGED <<move_end, write_buffers>>
        /\ \/ /\ moved' = moved + 1 /\ written' = Append(written, NextPage)
              /\ pc'["move"] = "save"
           \/ moved' = moved /\ written' = written /\ pc'["move"] = "after"
    BY <1>0, <1>8 DEF MoveSave, At, Goto, Threads
  <2>2. Append(written, NextPage) # written
    <3>1. NextPage \in Nat
      BY <1>0, PagesNat
    <3> QED
      BY <1>0, <3>1
  <2>3. /\ Passed = write_buffers[move_end].base + moved
        /\ Passed' = write_buffers[move_end].base + moved'
    BY <2>1 DEF Passed, InBuffer, Putting
  <2> QED
    BY <1>01, <1>8, <2>1, <2>2, <2>3 DEF StartRings, MovePut, At, IInv,
      ThreadInv, MoveGone, Gone
<1>9. CASE MoveAdvance
  <2>1. /\ pc["move"] = "advance" /\ move_end' = move_inc(move_end)
        /\ UNCHANGED <<move_start, write_buffers, accepted, size, moved,
                       written>>
        /\ pc'["main"] = pc["main"] /\ pc'["move"] = "top"
        /\ Flowing
    BY <1>0, <1>9 DEF MoveAdvance, At, Goto, Threads, mainvars, Flowing
  <2>2. /\ move_end # move_start /\ moved = write_buffers[move_end].size
        /\ InRing(move_end, move_end, move_start)
    BY <1>0, <1>00, <2>1, WriteRing DEF MoveInv, InBuffer
  <2>3. write_buffers[move_end].base + moved = Base(move_inc(move_end))
    BY <1>0, <2>1, <2>2 DEF WriteChain
  <2>4. Base(move_end)' = Base(move_inc(move_end))
    BY <2>1 DEF Base, Queued, Preparing
  <2>5. Passed' = Passed
    BY <2>1, <2>3, <2>4 DEF Passed, InBuffer, Putting
  <2> QED
    BY <2>1, <2>5 DEF StartRings, MovePut, MoveSave, At, IInv, ThreadInv,
      MoveGone, Gone
<1>10. CASE SavePage \/ SaveAdvance
  <2>1. /\ pc'["main"] = pc["main"] /\ pc'["move"] = pc["move"]
        /\ UNCHANGED <<move_start, move_end, write_buffers, accepted, size,
                       moved, save_start>>
        /\ pc["save"] \in {"page", "advance"}
    BY <1>0, <1>10 DEF SavePage, SaveAdvance, At, Goto, Threads, mainvars,
      ringvars
  <2>2. Passed' = Passed
    BY <2>1 DEF Passed, Base, Queued, Preparing
  <2>3. ~StartRings
    BY <2>1 DEF StartRings, At, IInv, ThreadInv, SaveGone, Gone
  <2>4. ~(MovePut /\ ~PutMustWait)
    BY <1>0, <2>1 DEF MovePut, At, Goto, Threads
  <2>5. ~(MoveSave /\ written' # written)
    BY <1>0, <2>1 DEF MoveSave, At
  <2> QED
    BY <2>2, <2>3, <2>4, <2>5
<1> QED
  BY <1>1, <1>2, <1>3, <1>4, <1>5, <1>6, <1>7, <1>8, <1>9, <1>10 DEF PageSteps

(* The move thread stays inside its buffer.                                  *)
LEMMA MoveInvStep == IInv /\ ChainInv /\ HandInv /\ PageSteps => MoveInv'
<1> SUFFICES ASSUME IInv, ChainInv, HandInv, PageSteps, Flowing'
             PROVE  MoveInv'
  BY DEF MoveInv
<1> USE DEF ChainInv
<1>0. /\ RingOK /\ moved \in Nat /\ Passed \in Int
      /\ \A i \in 0..WRITE_BUFFERS-1 : /\ write_buffers[i].base \in Nat
                                       /\ write_buffers[i].size \in Nat
      /\ pc \in [Threads -> MainLabels \cup MoveLabels \cup SaveLabels]
      /\ move_start \in 0..WRITE_BUFFERS-1 /\ move_end \in 0..WRITE_BUFFERS-1
      /\ save_start \in 0..ENCRYPT_BUF_PAGES-1
      /\ encrypt_buf \in [0..ENCRYPT_BUF_PAGES-1 -> Nat]
  BY ChainTypes DEF IInv, TypeInv, TypeOK, PcOK, RingOK
<1>01. /\ write_buffers[move_end].base \in Nat
       /\ write_buffers[move_end].size \in Nat
  BY <1>0
<1>1. CASE StartRings
  BY <1>0, <1>1 DEF StartRings, At, Goto, Threads, NoThreads, MoveInv, IInv,
    ThreadInv, MoveGone, Gone
<1>2. CASE FlushBuffer \/ PrepareNextWriteBuffer \/ SavePage \/ SaveAdvance
  <2>1. /\ UNCHANGED <<move_end, moved, save_start, encrypt_buf>>
        /\ pc'["move"] = pc["move"] /\ Flowing
        /\ \A i \in 0..WRITE_BUFFERS-1 :
               i # move_start => write_buffers'[i] = write_buffers[i]
    BY <1>0, <1>2 DEF FlushBuffer, PrepareNextWriteBuffer, SavePage,
      SaveAdvance, At, Goto, Threads, Flowing, mainvars, ringvars, RingOK
  <2>2. pc["move"] \in InBuffer => move_start # move_end
    BY <2>1 DEF IInv, RingInv, MoveBusy, InBuffer, Flowing
  <2>3. Passed' = Passed
    BY <1>0, <1>2, <2>1, PassedStep DEF FlushBuffer, PrepareNextWriteBuffer,
      SavePage, SaveAdvance, StartRings, MovePut, MoveSave, At, Goto, Threads,
      IInv, ThreadInv, SaveGone, Gone
  <2> QED
    BY <1>0, <2>1, <2>2, <2>3 DEF MoveInv, InBuffer
<1>3. CASE MoveTest
  <2>1. /\ pc["move"] = "test" /\ moved' = 0
        /\ pc'["move"] \in {"encrypt", "save"} /\ Flowing
        /\ UNCHANGED <<move_end, move_start, write_buffers>>
    BY <1>0, <1>3 DEF MoveTest, At, Goto, Threads, mainvars, Flowing
  <2>2. move_start # move_end
    BY <2>1 DEF IInv, RingInv, Flowing
  <2>3. write_buffers[move_end].size > 0
    BY <1>0, <2>1, <2>2, WriteRing DEF WriteChain
  <2> QED
    BY <2>1, <2>3 DEF MoveInv
<1>4. CASE MoveEncrypt
  <2>1. /\ pc["move"] = "encrypt" /\ moved' = moved + 1
        /\ pc'["move"] = "put" /\ Flowing
        /\ UNCHANGED <<move_end, write_buffers, save_start>>
        /\ encrypt_buf' = [encrypt_buf EXCEPT ![save_start] = NextPage]
    BY <1>0, <1>4 DEF MoveEncrypt, At, Goto, Threads, Flowing, mainvars
  <2>2. Passed' = write_buffers[move_end].base + moved
    BY <1>01, <1>0, <2>1 DEF Passed, Putting
  <2>3. encrypt_buf'[save_start'] = Passed' + 1
    BY <1>0, <2>1, <2>2 DEF NextPage
  <2>4. moved < write_buffers[move_end].size
    BY <2>1 DEF MoveInv
  <2> QED
    BY <1>01, <1>0, <2>1, <2>3, <2>4 DEF MoveInv
<1>5. CASE MovePut
  <2>1. /\ pc["move"] = "put" /\ Flowing
        /\ UNCHANGED <<move_end, write_buffers, moved, encrypt_buf>>
        /\ pc'["move"] = IF PutMustWait THEN "put_sleep" ELSE "loop"
        /\ PutMustWait => UNCHANGED save_start
    BY <1>0, <1>5 DEF MovePut, At, Goto, Threads, Flowing, mainvars
  <2>2. PutMustWait => Passed' = Passed
    BY <2>1 DEF Passed, Putting
  <2> QED
    BY <2>1, <2>2 DEF MoveInv
<1>6. CASE MoveLoop
  <2>1. /\ pc["move"] = "loop" /\ Flowing
        /\ UNCHANGED <<move_end, write_buffers, moved>>
        /\ pc'["move"] = IF moved < write_buffers[move_end].size
                         THEN "encrypt" ELSE "after"
    BY <1>0, <1>6 DEF MoveLoop, LoopGoesOn, At, Goto, Threads, Flowing,
      mainvars, ringvars
  <2> QED
    BY <1>01, <1>0, <2>1 DEF MoveInv
<1>7. CASE MoveSave
  <2>1. /\ pc["move"] = "save" /\ UNCHANGED <<move_end, write_buffers>>
        /\ \/ pc'["move"] = "save"
           \/ /\ moved' = moved /\ pc'["move"] = "after"
              /\ ~(moved < write_buffers[move_end].size)
    BY <1>0, <1>7 DEF MoveSave, At, Goto, Threads
  <2>2. moved <= write_buffers[move_end].size
    BY <2>1 DEF HandInv
  <2> QED
    BY <1>01, <1>0, <2>1, <2>2 DEF MoveInv
<1>8. CASE MoveAfter \/ MoveAdvance
  <2>1. /\ pc["move"] \in {"after", "advance"} /\ Flowing
        /\ \/ /\ pc["move"] = "after" /\ pc'["move"] = "advance"
              /\ UNCHANGED <<move_end, write_buffers, moved>>
           \/ pc'["move"] = "top"
    BY <1>0, <1>8 DEF MoveAfter, MoveAdvance, At, Goto, Threads, Flowing,
      mainvars, ringvars
  <2> QED
    BY <2>1 DEF MoveInv
<1> QED
  BY <1>1, <1>2, <1>3, <1>4, <1>5, <1>6, <1>7, <1>8 DEF PageSteps

(* The pages in the "encrypt" ring stay in order.                            *)
LEMMA EncryptChainStep == IInv /\ ChainInv /\ PageSteps => EncryptChain'
<1> SUFFICES ASSUME IInv, ChainInv, PageSteps, Flowing' PROVE EncryptChain'
  BY DEF EncryptChain
<1> USE DEF ChainInv
<1>0. /\ RingOK /\ accepted \in Nat /\ size \in Nat /\ moved \in Nat
      /\ written \in Seq(Nat) /\ Len(written) \in Nat /\ Passed \in Int
      /\ Queued <= accepted /\ Queued \in Nat
      /\ \A i \in 0..WRITE_BUFFERS-1 : /\ write_buffers[i].base \in Nat
                                       /\ write_buffers[i].size \in Nat
      /\ pc \in [Threads -> MainLabels \cup MoveLabels \cup SaveLabels]
      /\ move_start \in 0..WRITE_BUFFERS-1 /\ move_end \in 0..WRITE_BUFFERS-1
      /\ save_start \in 0..ENCRYPT_BUF_PAGES-1
      /\ save_end \in 0..ENCRYPT_BUF_PAGES-1
      /\ \A i \in 0..ENCRYPT_BUF_PAGES-1 : encrypt_buf[i] \in Nat
      /\ encrypt_buf \in [0..ENCRYPT_BUF_PAGES-1 -> Nat]
  BY ChainTypes DEF IInv, TypeInv, TypeOK, PcOK, RingOK
<1>1. CASE StartRings
  <2>1. /\ pc["main"] = "start" /\ save_start' = 0 /\ save_end' = 0
        /\ UNCHANGED written /\ pc'["save"] = pc["save"]
    BY <1>0, <1>1 DEF StartRings, At, Goto, Threads, NoThreads
  <2>2. Passed' = 0 /\ Len(written) = 0 /\ pc'["save"] # "advance"
    BY <1>1, <2>1, PassedStep DEF IInv, ThreadInv, SaveGone, Gone, SizeInv
  <2>3. \A i \in 0..ENCRYPT_BUF_PAGES-1 : ~InRing(i, save_end', save_start')
    BY <2>1, ConstantsAssumption DEF InRing
  <2> QED
    BY <2>1, <2>2, <2>3 DEF EncryptChain, PageAt
<1>2. CASE \/ FlushBuffer \/ PrepareNextWriteBuffer \/ MoveTest \/ MoveLoop
           \/ MoveAfter \/ MoveAdvance
           \/ (MoveSave /\ written' = written)
           \/ (MovePut /\ PutMustWait)
  <2>1. /\ UNCHANGED <<save_start, save_end, encrypt_buf, written>>
        /\ pc'["save"] = pc["save"] /\ Flowing
        /\ accepted' = accepted \/ accepted' = accepted + size
    BY <1>0, <1>2 DEF FlushBuffer, PrepareNextWriteBuffer, MoveTest, MoveLoop,
      MoveSave, MoveAfter, MoveAdvance, MovePut, At, Goto, Threads, Flowing,
      mainvars, ringvars
  <2>2. ~StartRings
    BY <1>2 DEF StartRings, FlushBuffer, PrepareNextWriteBuffer, MoveTest,
      MoveLoop, MoveSave, MoveAfter, MoveAdvance, MovePut, At, IInv,
      ThreadInv, MoveGone, Gone
  <2>3. ~(MovePut /\ ~PutMustWait)
    BY <1>0, <1>2, <2>1 DEF FlushBuffer, PrepareNextWriteBuffer, MoveTest,
      MoveLoop, MoveSave, MoveAfter, MoveAdvance, MovePut, At, Goto, Threads
  <2>4. Passed' = Passed
    BY <2>1, <2>2, <2>3, PassedStep
  <2>5. \A i : PageAt(i)' = PageAt(i)
    BY <2>1, <2>4 DEF PageAt
  <2>6. \A i \in 0..ENCRYPT_BUF_PAGES-1 :
            encrypt_buf[i] <= accepted => encrypt_buf[i] <= accepted'
    <3>1. accepted' \in Nat /\ accepted <= accepted'
      BY <1>0, <2>1
    <3> QED
      BY <1>0, <3>1
  <2> QED
    BY <2>1, <2>5, <2>6 DEF EncryptChain, save_inc
<1>3. CASE MoveEncrypt
  <2>1. /\ pc["move"] = "encrypt" /\ pc'["save"] = pc["save"] /\ Flowing
        /\ UNCHANGED <<save_start, save_end, accepted, written>>
        /\ \A i \in 0..ENCRYPT_BUF_PAGES-1 :
               i # save_start => encrypt_buf'[i] = encrypt_buf[i]
    BY <1>0, <1>3 DEF MoveEncrypt, At, Goto, Threads, Flowing, mainvars
  <2>2. Passed' = Passed
    BY <1>3, <2>1, PassedStep DEF StartRings, MovePut, MoveSave, At, IInv,
      ThreadInv, MoveGone, Gone
  <2>3. \A i \in 0..ENCRYPT_BUF_PAGES-1 : PageAt(i)' = PageAt(i)
    BY <2>1, <2>2 DEF PageAt
  <2>4. ASSUME NEW i \in 0..ENCRYPT_BUF_PAGES-1,
               InRing(i, save_end, save_start)
        PROVE  /\ encrypt_buf'[i] + 1 = PageAt(save_inc(i))'
               /\ encrypt_buf'[i] <= accepted'
    <3>1. i # save_start /\ save_inc(i) \in 0..ENCRYPT_BUF_PAGES-1
      BY <1>0, <2>4, EncryptRing
    <3>2. PageAt(save_inc(i))' = PageAt(save_inc(i))
      BY <2>3, <3>1 DEF save_inc
    <3> QED
      BY <2>1, <2>4, <3>1, <3>2 DEF EncryptChain
  <2> QED
    BY <1>0, <2>1, <2>3, <2>4 DEF EncryptChain
<1>4. CASE MovePut /\ ~PutMustWait
  <2>1. /\ pc["move"] = "put" /\ pc'["save"] = pc["save"] /\ Flowing
        /\ UNCHANGED <<save_end, accepted, written, encrypt_buf>>
        /\ save_start' = save_inc(save_start)
    BY <1>0, <1>4 DEF MovePut, At, Goto, Threads, Flowing, mainvars
  <2>2. Passed' = Passed + 1
    BY <1>4, PassedStep
  <2>3. save_inc(save_start) # save_end
    BY <1>4, <2>1 DEF PutMustWait, Flowing
  <2>4. encrypt_buf[save_start] = Passed + 1
    BY <2>1 DEF MoveInv
  <2>5. encrypt_buf[save_start] <= accepted
    <3>1. move_start # move_end
      BY <2>1 DEF IInv, RingInv, MoveBusy, Flowing
    <3>2. /\ write_buffers[move_end].base + write_buffers[move_end].size
                 <= Queued
          /\ moved <= write_buffers[move_end].size
      BY <1>0, <2>1, <3>1, WriteRing DEF WriteChain, MoveInv
    <3>4. /\ write_buffers[move_end].base \in Nat
          /\ write_buffers[move_end].size \in Nat
          /\ moved \in Nat /\ Queued \in Nat /\ accepted \in Nat
          /\ Queued <= accepted
      BY <1>0
    <3>5. Passed = write_buffers[move_end].base + moved - 1
      BY <2>1 DEF Passed, Putting
    <3>3. Passed + 1 = write_buffers[move_end].base + moved
      BY <3>4, <3>5
    <3> QED
      BY <2>4, <3>2, <3>3, <3>4
  <2>6. \A i \in 0..ENCRYPT_BUF_PAGES-1 :
            i # save_inc(save_start) => PageAt(i)' = PageAt(i)
    BY <2>1, <2>4 DEF PageAt
  <2>7. ASSUME NEW i \in 0..ENCRYPT_BUF_PAGES-1,
               InRing(i, save_end', save_start')
        PROVE  /\ encrypt_buf'[i] + 1 = PageAt(save_inc(i))'
               /\ encrypt_buf'[i] <= accepted'
    <3>1. /\ InRing(i, save_end, save_start) \/ i = save_start
          /\ ~InRing(save_start, save_end, save_start)
      BY <1>0, <2>1, <2>3, <2>7, EncryptRing
    <3>2. CASE i = save_start
      BY <1>0, <2>1, <2>2, <2>4, <2>5, <3>2 DEF PageAt, save_inc
    <3>3. CASE InRing(i, save_end, save_start)
      <4>1. /\ save_inc(i) # save_inc(save_start)
            /\ save_inc(i) \in 0..ENCRYPT_BUF_PAGES-1
        BY <1>0, <3>1, <3>3, EncryptRing
      <4>2. PageAt(save_inc(i))' = PageAt(save_inc(i))
        BY <2>6, <4>1 DEF save_inc
      <4> QED
        BY <2>1, <3>3, <4>2 DEF EncryptChain
    <3> QED
      BY <3>1, <3>2, <3>3
  <2> QED
    BY <1>0, <2>1, <2>3, <2>6, <2>7 DEF EncryptChain
<1>5. CASE MoveSave /\ written' # written
  <2>1. /\ pc["move"] = "save" /\ pc'["save"] = pc["save"] /\ Flowing
        /\ UNCHANGED <<save_start, save_end>>
        /\ written' = Append(written, NextPage)
    BY <1>0, <1>5 DEF MoveSave, At, Goto, Threads, Flowing, mainvars
  <2>2. Passed' = Passed + 1
    BY <1>5, PassedStep
  <2>3. Len(written') = Len(written) + 1
    <3>1. NextPage \in Nat
      BY <1>0, PagesNat
    <3> QED
      BY <1>0, <2>1, <3>1
  <2>4. save_start = save_end /\ pc["save"] # "advance"
    BY <2>1 DEF LabelInv, IInv, ThreadInv, SaveGone, Gone
  <2>5. Passed + 1 = Len(written) + 1
    BY <2>1, <2>4 DEF EncryptChain, PageAt
  <2>6. \A i \in 0..ENCRYPT_BUF_PAGES-1 : ~InRing(i, save_end', save_start')
    BY <1>0, <2>1, <2>4, EncryptRing
  <2> QED
    BY <1>0, <2>1, <2>2, <2>3, <2>4, <2>5, <2>6 DEF EncryptChain, PageAt
<1>6. CASE SavePage
  <2>1. /\ pc["save"] = "page" /\ pc'["save"] = "advance" /\ Flowing
        /\ UNCHANGED <<save_start, save_end, encrypt_buf, accepted>>
        /\ written' = Append(written, encrypt_buf[save_end])
        /\ pc'["move"] = pc["move"]
    BY <1>0, <1>6 DEF SavePage, At, Goto, Threads, Flowing, mainvars, ringvars
  <2>2. Passed' = Passed
    BY <1>0, <1>6, <2>1 DEF SavePage, Goto, Threads, mainvars, ringvars,
      Passed, Base, Queued, Preparing
  <2>3. Len(written') = Len(written) + 1
    BY <1>0, <2>1
  <2>4. \A i : PageAt(i)' = PageAt(i)
    BY <2>1, <2>2 DEF PageAt
  <2> QED
    BY <1>0, <2>1, <2>3, <2>4 DEF EncryptChain, save_inc
<1>7. CASE SaveAdvance
  <2>1. /\ pc["save"] = "advance" /\ pc'["save"] = "top" /\ Flowing
        /\ UNCHANGED <<save_start, encrypt_buf, accepted, written>>
        /\ save_end' = save_inc(save_end)
    BY <1>0, <1>7 DEF SaveAdvance, At, Goto, Threads, Flowing, mainvars
  <2>2. Passed' = Passed
    BY <1>0, <1>7, <2>1 DEF SaveAdvance, Goto, Threads, mainvars, Passed,
      Base, Queued, Preparing
  <2>3. save_end # save_start /\ InRing(save_end, save_end, save_start)
    BY <1>0, <2>1, EncryptRing DEF IInv, RingInv, Flowing
  <2>4. \A i : PageAt(i)' = PageAt(i)
    BY <2>1, <2>2 DEF PageAt
  <2>5. PageAt(save_inc(save_end)) = Len(written) + 1
    BY <1>0, <2>1, <2>3 DEF EncryptChain, PageAt
  <2>6. \A i \in 0..ENCRYPT_BUF_PAGES-1 :
            InRing(i, save_end', save_start') => InRing(i, save_end, save_start)
    BY <1>0, <2>1, <2>3, EncryptRing
  <2> QED
    BY <1>0, <2>1, <2>4, <2>5, <2>6 DEF EncryptChain, save_inc
<1> QED
  BY <1>1, <1>2, <1>3, <1>4, <1>5, <1>6, <1>7 DEF PageSteps

(* A page about to be written by the save thread stays where it is.          *)
LEMMA PageHeld ==
    ASSUME IInv, SizeInv, LabelInv, Next, pc["save"] = "page",
           pc'["save"] = "page"
    PROVE  /\ UNCHANGED <<save_end, written>>
           /\ encrypt_buf'[save_end] = encrypt_buf[save_end]
           /\ accepted' = accepted \/ accepted' = accepted + size
<1> USE DEF IInv, TypeInv, TypeOK, PcOK, ThreadInv, SaveGone, Gone, Threads,
        SizeInv, LabelInv, do_encrypt, At, Goto, mainvars, ringvars
<1>1. CASE MainNext
  BY <1>1 DEF MainNext, Signal, StartRings, NoThreads, ThreadVars,
    SpawnSave, SpawnMove, SpawnMoveFails, StopSaveThread, InitFinish,
    InitFinishFails, UndoMove, UndoSave, ReadBuffer, ReadEnd, ReadFails, Exit,
    FlushBuffer, DirectPage, DirectPageFails, DirectEnd,
    PrepareNextWriteBuffer, PrepareMustWait, PrepareSleep, CondWait,
    PrepareReturns, WaitForFinish, WaitForFinishMove, WaitForFinishBusy,
    FinishReturns, SaveExtents, StopThreads, Report, JoinMove, JoinSave, Retry
<1>2. CASE MoveNext /\ ~MoveEncrypt
  BY <1>2 DEF MoveNext, Signal, MoveTop, MoveMustWait, MoveSleep, CondWait,
    MoveTest, MoveEncrypt, NextPage, MoveEncryptFails, Report, MovePut,
    PutMustWait, MovePutSleep, MoveLoop, LoopGoesOn, MoveSave, MoveSaveFails,
    MoveAfter, MoveAdvance
<1>3. CASE MoveEncrypt
  <2>1. save_start # save_end
    BY <1>3 DEF MoveEncrypt, RingInv
  <2>2. encrypt_buf'[save_end] = encrypt_buf[save_end]
    BY <1>3, <2>1 DEF MoveEncrypt, RingOK
  <2> QED
    BY <1>3, <2>2 DEF MoveEncrypt
<1>4. CASE SaveNext
  BY <1>4 DEF SaveNext, Signal, SaveTop, SaveSleep, CondWait, SaveTest,
    SavePage, SavePageFails, Report, SaveAdvance
<1>5. CASE \E t \in Threads : SpuriousWakeup(t)
  BY <1>5 DEF SpuriousWakeup
<1> QED
  BY <1>1, <1>2, <1>3, <1>4, <1>5 DEF Next

(* So does a buffer the move thread is writing out.                          *)
LEMMA BufferHeld ==
    ASSUME IInv, SizeInv, LabelInv, Next, pc["move"] = "save",
           pc'["move"] = "save"
    PROVE  /\ UNCHANGED move_end
           /\ write_buffers'[move_end] = write_buffers[move_end]
           /\ accepted' = accepted \/ accepted' = accepted + size
           /\ \/ UNCHANGED <<written, moved>>
              \/ /\ moved < write_buffers[move_end].size
                 /\ written' = Append(written, NextPage)
                 /\ moved' = moved + 1
<1> USE DEF IInv, TypeInv, TypeOK, PcOK, ThreadInv, MoveGone, SaveGone, Gone,
        Threads, SizeInv, LabelInv, do_encrypt, At, Goto, mainvars, ringvars
<1>1. CASE MainNext /\ ~FlushBuffer
  BY <1>1 DEF MainNext, Signal, StartRings, NoThreads, ThreadVars,
    SpawnSave, SpawnMove, SpawnMoveFails, StopSaveThread, InitFinish,
    InitFinishFails, UndoMove, UndoSave, ReadBuffer, ReadEnd, ReadFails, Exit,
    FlushBuffer, DirectPage, DirectPageFails, DirectEnd,
    PrepareNextWriteBuffer, PrepareMustWait, PrepareSleep, CondWait,
    PrepareReturns, WaitForFinish, WaitForFinishMove, WaitForFinishBusy,
    FinishReturns, SaveExtents, StopThreads, Report, JoinMove, JoinSave, Retry
<1>2. CASE FlushBuffer
  <2>1. move_start # move_end
    BY <1>2 DEF FlushBuffer, RingInv, MoveBusy, Leaving
  <2>2. write_buffers'[move_end] = write_buffers[move_end]
    BY <1>2, <2>1 DEF FlushBuffer, RingOK
  <2> QED
    BY <1>2, <2>2 DEF FlushBuffer
<1>3. CASE MoveNext
  BY <1>3 DEF MoveNext, Signal, MoveTop, MoveMustWait, MoveSleep, CondWait,
    MoveTest, MoveEncrypt, NextPage, MoveEncryptFails, Report, MovePut,
    PutMustWait, MovePutSleep, MoveLoop, LoopGoesOn, MoveSave, MoveSaveFails,
    MoveAfter, MoveAdvance
<1>4. CASE SaveNext
  BY <1>4 DEF SaveNext, Signal, SaveTop, SaveSleep, CondWait, SaveTest,
    SavePage, SavePageFails, Report, SaveAdvance
<1>5. CASE \E t \in Threads : SpuriousWakeup(t)
  BY <1>5 DEF SpuriousWakeup
<1> QED
  BY <1>1, <1>2, <1>3, <1>4, <1>5 DEF Next

(* What a thread is about to write is the next page of the image: taken when *)
(* there was no error yet, kept whatever happens.                            *)
LEMMA HandStep == IInv /\ ChainInv /\ HandInv /\ Next => HandInv'
<1> SUFFICES ASSUME IInv, ChainInv, HandInv, Next PROVE HandInv'
  OBVIOUS
<1> USE DEF ChainInv
<1>0. /\ RingOK /\ accepted \in Nat /\ size \in Nat /\ moved \in Nat
      /\ written \in Seq(Nat) /\ Len(written) \in Nat
      /\ Queued <= accepted /\ Queued \in Nat
      /\ \A i \in 0..WRITE_BUFFERS-1 : /\ write_buffers[i].base \in Nat
                                       /\ write_buffers[i].size \in Nat
      /\ \A i \in 0..ENCRYPT_BUF_PAGES-1 : encrypt_buf[i] \in Nat
      /\ pc \in [Threads -> MainLabels \cup MoveLabels \cup SaveLabels]
      /\ move_start \in 0..WRITE_BUFFERS-1 /\ move_end \in 0..WRITE_BUFFERS-1
      /\ save_start \in 0..ENCRYPT_BUF_PAGES-1
      /\ save_end \in 0..ENCRYPT_BUF_PAGES-1
  BY ChainTypes DEF IInv, TypeInv, TypeOK, PcOK, RingOK
<1>1. accepted' = accepted \/ accepted' = accepted + size
          => accepted' \in Nat /\ accepted <= accepted'
  BY <1>0
<1>2. ASSUME pc'["save"] = "page", pc["save"] = "page"
      PROVE  /\ encrypt_buf'[save_end'] = Len(written') + 1
             /\ Len(written') < accepted'
  <2>1. /\ UNCHANGED <<save_end, written>>
        /\ encrypt_buf'[save_end] = encrypt_buf[save_end]
        /\ accepted' \in Nat /\ accepted <= accepted'
    BY <1>1, <1>2, PageHeld
  <2>2. encrypt_buf[save_end] = Len(written) + 1 /\ Len(written) < accepted
    BY <1>2 DEF HandInv
  <2> QED
    BY <1>0, <2>1, <2>2
<1>3. ASSUME pc'["save"] = "page", pc["save"] # "page"
      PROVE  /\ encrypt_buf'[save_end'] = Len(written') + 1
             /\ Len(written') < accepted'
  <2>1. SaveTest /\ pc["save"] = "test" /\ save_ret = NoError
    <3> USE DEF IInv, TypeInv, TypeOK, PcOK, Threads, At, Goto
    <3>1. CASE MainNext
      BY <1>3, <3>1 DEF MainNext, Signal, StartRings, NoThreads, ThreadVars,
        SpawnSave, SpawnMove, SpawnMoveFails, StopSaveThread, InitFinish,
        InitFinishFails, UndoMove, UndoSave, ReadBuffer, ReadEnd, ReadFails,
        Exit, FlushBuffer, DirectPage, DirectPageFails, DirectEnd,
        PrepareNextWriteBuffer, PrepareMustWait, PrepareSleep, CondWait,
        PrepareReturns, WaitForFinish, WaitForFinishMove, WaitForFinishBusy,
        FinishReturns, SaveExtents, StopThreads, Report, JoinMove, JoinSave,
        Retry
    <3>2. CASE MoveNext
      BY <1>3, <3>2 DEF MoveNext, Signal, MoveTop, MoveMustWait, MoveSleep,
        CondWait, MoveTest, MoveEncrypt, NextPage, MoveEncryptFails, Report,
        MovePut, PutMustWait, MovePutSleep, MoveLoop, LoopGoesOn, MoveSave,
        MoveSaveFails, MoveAfter, MoveAdvance
    <3>3. CASE SaveNext
      BY <1>3, <3>3 DEF SaveNext, Signal, SaveTop, SaveSleep, CondWait,
        SaveTest, SavePage, SavePageFails, Report, SaveAdvance
    <3>4. CASE \E t \in Threads : SpuriousWakeup(t)
      BY <1>3, <3>4 DEF SpuriousWakeup
    <3> QED
      BY <3>1, <3>2, <3>3, <3>4 DEF Next
  <2>2. UNCHANGED <<encrypt_buf, save_end, written, accepted>>
    BY <2>1 DEF SaveTest, ringvars, mainvars
  <2>3. save_start # save_end
    BY <2>1 DEF IInv, RingInv
  <2>4. Flowing
    BY <2>1, <2>3 DEF Flowing, IInv, ThreadInv, SaveGone, Gone, StartInv,
      Starting, NoError
  <2>5. InRing(save_end, save_end, save_start)
    BY <1>0, <2>3, EncryptRing
  <2>6. encrypt_buf[save_end] = Len(written) + 1
    BY <2>1, <2>3, <2>4 DEF EncryptChain, PageAt
  <2>7. encrypt_buf[save_end] <= accepted
    BY <1>0, <2>4, <2>5 DEF EncryptChain
  <2> QED
    BY <1>0, <2>2, <2>6, <2>7
<1>4. ASSUME pc'["move"] = "save", pc["move"] = "save"
      PROVE  /\ write_buffers'[move_end'].base + moved' = Len(written')
             /\ write_buffers'[move_end'].base + write_buffers'[move_end'].size
                    <= accepted'
             /\ moved' <= write_buffers'[move_end'].size
  <2>1. /\ UNCHANGED move_end
        /\ write_buffers'[move_end] = write_buffers[move_end]
        /\ accepted' \in Nat /\ accepted <= accepted'
        /\ \/ UNCHANGED <<written, moved>>
           \/ /\ moved < write_buffers[move_end].size
              /\ written' = Append(written, NextPage)
              /\ moved' = moved + 1
    BY <1>1, <1>4, BufferHeld
  <2>2. /\ write_buffers[move_end].base + moved = Len(written)
        /\ write_buffers[move_end].base + write_buffers[move_end].size
               <= accepted
        /\ moved <= write_buffers[move_end].size
    BY <1>4 DEF HandInv
  <2>3. Len(Append(written, NextPage)) = Len(written) + 1
    <3>1. NextPage \in Nat
      BY <1>0, PagesNat
    <3> QED
      BY <1>0, <3>1
  <2>4. /\ write_buffers[move_end].base \in Nat
        /\ write_buffers[move_end].size \in Nat
        /\ moved \in Nat /\ accepted \in Nat /\ Len(written) \in Nat
    BY <1>0
  <2>5. /\ write_buffers'[move_end'].base = write_buffers[move_end].base
        /\ write_buffers'[move_end'].size = write_buffers[move_end].size
    BY <2>1
  <2>6. CASE UNCHANGED <<written, moved>>
    BY <2>1, <2>2, <2>4, <2>5, <2>6
  <2>7. CASE /\ moved < write_buffers[move_end].size
             /\ written' = Append(written, NextPage)
             /\ moved' = moved + 1
    <3>1. Len(written') = Len(written) + 1
      BY <2>3, <2>7
    <3>2. /\ moved' = moved + 1 /\ moved < write_buffers[move_end].size
          /\ accepted' \in Nat /\ accepted <= accepted'
      BY <2>1, <2>7
    <3> QED
      BY <2>2, <2>4, <2>5, <3>1, <3>2, SMTT(60)
  <2> QED
    BY <2>1, <2>6, <2>7
<1>5. ASSUME pc'["move"] = "save", pc["move"] # "save"
      PROVE  /\ write_buffers'[move_end'].base + moved' = Len(written')
             /\ write_buffers'[move_end'].base + write_buffers'[move_end'].size
                    <= accepted'
             /\ moved' <= write_buffers'[move_end'].size
  <2>1. MoveTest /\ pc["move"] = "test" /\ save_ret = NoError /\ ~do_encrypt
    <3> USE DEF IInv, TypeInv, TypeOK, PcOK, Threads, At, Goto
    <3>1. CASE MainNext
      BY <1>5, <3>1 DEF MainNext, Signal, StartRings, NoThreads, ThreadVars,
        SpawnSave, SpawnMove, SpawnMoveFails, StopSaveThread, InitFinish,
        InitFinishFails, UndoMove, UndoSave, ReadBuffer, ReadEnd, ReadFails,
        Exit, FlushBuffer, DirectPage, DirectPageFails, DirectEnd,
        PrepareNextWriteBuffer, PrepareMustWait, PrepareSleep, CondWait,
        PrepareReturns, WaitForFinish, WaitForFinishMove, WaitForFinishBusy,
        FinishReturns, SaveExtents, StopThreads, Report, JoinMove, JoinSave,
        Retry
    <3>2. CASE MoveNext
      BY <1>5, <3>2 DEF MoveNext, Signal, MoveTop, MoveMustWait, MoveSleep,
        CondWait, MoveTest, MoveEncrypt, NextPage, MoveEncryptFails, Report,
        MovePut, PutMustWait, MovePutSleep, MoveLoop, LoopGoesOn, MoveSave,
        MoveSaveFails, MoveAfter, MoveAdvance
    <3>3. CASE SaveNext
      BY <1>5, <3>3 DEF SaveNext, Signal, SaveTop, SaveSleep, CondWait,
        SaveTest, SavePage, SavePageFails, Report, SaveAdvance
    <3>4. CASE \E t \in Threads : SpuriousWakeup(t)
      BY <1>5, <3>4 DEF SpuriousWakeup
    <3> QED
      BY <3>1, <3>2, <3>3, <3>4 DEF Next
  <2>2. /\ UNCHANGED <<move_end, write_buffers, written, accepted>>
        /\ moved' = 0
    BY <2>1 DEF MoveTest, mainvars
  <2>3. move_start # move_end
    BY <2>1 DEF IInv, RingInv
  <2>4. Flowing
    BY <2>1 DEF Flowing, IInv, ThreadInv, MoveGone, Gone
  <2>5. Base(move_end) = write_buffers[move_end].base
    BY <2>3 DEF Base
  <2>6. Passed = write_buffers[move_end].base
    BY <2>1, <2>5 DEF Passed, InBuffer, Putting
  <2>7. save_start = save_end /\ pc["save"] # "advance"
    BY <2>1 DEF LabelInv, IInv, ThreadInv, SaveGone, Gone
  <2>8. Passed + 1 = Len(written) + 1
    BY <2>4, <2>7 DEF EncryptChain, PageAt
  <2>9. write_buffers[move_end].base + write_buffers[move_end].size <= Queued
    BY <1>0, <2>3, <2>4, WriteRing DEF WriteChain
  <2>10. /\ write_buffers[move_end].base \in Nat
         /\ write_buffers[move_end].size \in Nat
         /\ Queued \in Nat /\ accepted \in Nat /\ Len(written) \in Nat
         /\ Queued <= accepted
    BY <1>0
  <2> QED
    BY <2>2, <2>6, <2>8, <2>9, <2>10
<1> QED
  BY <1>2, <1>3, <1>4, <1>5 DEF HandInv

(* finish_mutex is the main thread's between its two looks at the rings.     *)
LEMMA FinishHeldStep == IInv /\ FinishHeld /\ Next => FinishHeld'
<1> SUFFICES ASSUME IInv, FinishHeld, Next PROVE FinishHeld'
  OBVIOUS
<1> USE DEF IInv, TypeInv, TypeOK, PcOK, SyncOK, Threads, Mutexes, FinishHeld,
        At, Goto, syncvars
<1>1. CASE MainNext
  BY <1>1 DEF MainNext, Signal, StartRings, NoThreads, ThreadVars,
    SpawnSave, SpawnMove, SpawnMoveFails, StopSaveThread, InitFinish,
    InitFinishFails, UndoMove, UndoSave, ReadBuffer, ReadEnd, ReadFails, Exit,
    FlushBuffer, DirectPage, DirectPageFails, DirectEnd,
    PrepareNextWriteBuffer, PrepareMustWait, PrepareSleep, CondWait,
    PrepareReturns, WaitForFinish, WaitForFinishMove, WaitForFinishBusy,
    FinishReturns, SaveExtents, StopThreads, Report, JoinMove, JoinSave, Retry
<1>2. CASE MoveNext
  BY <1>2 DEF MoveNext, Signal, MoveTop, MoveMustWait, MoveSleep, CondWait,
    MoveTest, MoveEncrypt, NextPage, MoveEncryptFails, Report, MovePut,
    PutMustWait, MovePutSleep, MoveLoop, LoopGoesOn, MoveSave, MoveSaveFails,
    MoveAfter, MoveAdvance
<1>3. CASE SaveNext
  BY <1>3 DEF SaveNext, Signal, SaveTop, SaveSleep, CondWait, SaveTest,
    SavePage, SavePageFails, Report, SaveAdvance
<1>4. CASE \E t \in Threads : SpuriousWakeup(t)
  BY <1>4 DEF SpuriousWakeup
<1> QED
  BY <1>1, <1>2, <1>3, <1>4 DEF Next

(* An error is never forgotten.                                              *)
LEMMA ErrorStays == Next /\ save_ret' = NoError => save_ret = NoError
<1> SUFFICES ASSUME Next, save_ret' = NoError PROVE save_ret = NoError
  OBVIOUS
<1> USE DEF NoError, syncvars
<1>1. CASE MainNext
  BY <1>1 DEF MainNext, Signal, StartRings, NoThreads, ThreadVars, SpawnSave,
    SpawnMove, SpawnMoveFails, StopSaveThread, InitFinish, InitFinishFails,
    UndoMove, UndoSave, ReadBuffer, ReadEnd, ReadFails, Exit, FlushBuffer,
    DirectPage, DirectPageFails, DirectEnd, PrepareNextWriteBuffer,
    PrepareMustWait, PrepareSleep, CondWait, PrepareReturns, WaitForFinish,
    WaitForFinishMove, WaitForFinishBusy, FinishReturns, SaveExtents,
    StopThreads, Report, JoinMove, JoinSave, Retry, Goto
<1>2. CASE MoveNext
  BY <1>2 DEF MoveNext, Signal, MoveTop, MoveMustWait, MoveSleep, CondWait,
    MoveTest, MoveEncrypt, NextPage, MoveEncryptFails, Report, MovePut,
    PutMustWait, MovePutSleep, MoveLoop, LoopGoesOn, MoveSave, MoveSaveFails,
    MoveAfter, MoveAdvance, Goto
<1>3. CASE SaveNext
  BY <1>3 DEF SaveNext, Signal, SaveTop, SaveSleep, CondWait, SaveTest,
    SavePage, SavePageFails, Report, SaveAdvance, Goto
<1>4. CASE \E t \in Threads : SpuriousWakeup(t)
  BY <1>4 DEF SpuriousWakeup
<1> QED
  BY <1>1, <1>2, <1>3, <1>4 DEF Next

(* Both rings are empty when wait_for_finish() says so.                      *)
LEMMA FinishStep == IInv /\ FinishHeld /\ FinishInv /\ Next => FinishInv'
<1> SUFFICES ASSUME IInv, FinishHeld, FinishInv, Next, save_ret' = NoError
             PROVE  FinishInv'
  BY DEF FinishInv
<1>0. save_ret = NoError
  BY ErrorStays
<1> USE <1>0 DEF IInv, TypeInv, TypeOK, PcOK, RingInv, MoveBusy, Threads,
        FinishHeld, FinishInv, At, Goto, syncvars, ringvars, NoError
<1>1. CASE MainNext
  BY <1>1 DEF MainNext, Signal, StartRings, NoThreads, ThreadVars,
    SpawnSave, SpawnMove, SpawnMoveFails, StopSaveThread, InitFinish,
    InitFinishFails, UndoMove, UndoSave, ReadBuffer, ReadEnd, ReadFails, Exit,
    FlushBuffer, DirectPage, DirectPageFails, DirectEnd,
    PrepareNextWriteBuffer, PrepareMustWait, PrepareSleep, CondWait,
    PrepareReturns, WaitForFinish, WaitForFinishMove, WaitForFinishBusy,
    FinishReturns, SaveExtents, StopThreads, Report, JoinMove, JoinSave, Retry
<1>2. CASE MoveNext
  BY <1>2 DEF MoveNext, Signal, MoveTop, MoveMustWait, MoveSleep, CondWait,
    MoveTest, MoveEncrypt, NextPage, MoveEncryptFails, Report, MovePut,
    PutMustWait, MovePutSleep, MoveLoop, LoopGoesOn, MoveSave, MoveSaveFails,
    MoveAfter, MoveAdvance, Free
<1>3. CASE SaveNext
  BY <1>3 DEF SaveNext, Signal, SaveTop, SaveSleep, CondWait, SaveTest,
    SavePage, SavePageFails, Report, SaveAdvance, Free
<1>4. CASE \E t \in Threads : SpuriousWakeup(t)
  BY <1>4 DEF SpuriousWakeup
<1> QED
  BY <1>1, <1>2, <1>3, <1>4 DEF Next

(* With the rings empty and no error every page is on the swap.              *)
LEMMA AllWritten ==
    ASSUME IInv, ChainInv, Flowing, ~Preparing, move_start = move_end,
           save_start = save_end
    PROVE  Drained /\ Len(written) = accepted
<1>1. /\ pc["move"] \notin InBuffer /\ pc["move"] \in MoveLabels
      /\ pc["save"] \notin {"page", "advance"} /\ pc["save"] \in SaveLabels
  BY DEF IInv, TypeInv, TypeOK, PcOK, RingInv, MoveBusy, InBuffer, Flowing
<1>2. Drained
  BY <1>1 DEF Drained, InBuffer, MoveLabels, SaveLabels, Idle
<1>3. Passed = accepted
  BY <1>1 DEF Passed, InBuffer, Putting, Base, Queued
<1>4. Passed + 1 = Len(written) + 1
  BY <1>1 DEF ChainInv, EncryptChain, PageAt
<1>5. Len(written) \in Nat /\ accepted \in Nat
  BY ChainTypes DEF ChainInv
<1> QED
  BY <1>2, <1>3, <1>4, <1>5

(* save_image() succeeds with nothing left to write.                         *)
LEMMA DrainStep ==
    IInv /\ ChainInv /\ FinishInv /\ DrainInv /\ Next => DrainInv'
<1> SUFFICES ASSUME IInv, ChainInv, FinishInv, DrainInv, Next,
                    use_threads', Succeeding'
             PROVE  Drained' /\ Len(written') = accepted'
  BY DEF DrainInv
<1> USE DEF IInv, TypeInv, TypeOK, PcOK, Threads, At, Goto
<1>0. SaveErrors \subseteq {"ENOSPC", "EIO"}
  BY ConstantsAssumption
<1>1. use_threads
  <2>1. CASE MainNext
    BY <2>1 DEF MainNext, Signal, StartRings, NoThreads, ThreadVars, SpawnSave,
      SpawnMove, SpawnMoveFails, StopSaveThread, InitFinish, InitFinishFails,
      UndoMove, UndoSave, ReadBuffer, ReadEnd, ReadFails, Exit, FlushBuffer,
      DirectPage, DirectPageFails, DirectEnd, PrepareNextWriteBuffer,
      PrepareMustWait, PrepareSleep, CondWait, PrepareReturns, WaitForFinish,
      WaitForFinishMove, WaitForFinishBusy, FinishReturns, SaveExtents,
      StopThreads, Report, JoinMove, JoinSave, Retry, mainvars
  <2>2. CASE MoveNext
    BY <2>2 DEF MoveNext, Signal, MoveTop, MoveMustWait, MoveSleep, CondWait,
      MoveTest, MoveEncrypt, NextPage, MoveEncryptFails, Report, MovePut,
      PutMustWait, MovePutSleep, MoveLoop, LoopGoesOn, MoveSave, MoveSaveFails,
      MoveAfter, MoveAdvance, mainvars
  <2>3. CASE SaveNext
    BY <2>3 DEF SaveNext, Signal, SaveTop, SaveSleep, CondWait, SaveTest,
      SavePage, SavePageFails, Report, SaveAdvance, mainvars
  <2>4. CASE \E t \in Threads : SpuriousWakeup(t)
    BY <2>4 DEF SpuriousWakeup, mainvars
  <2> QED
    BY <2>1, <2>2, <2>3, <2>4 DEF Next
<1>2. CASE FinishReturns
  <2>1. /\ pc["main"] = "finish_ret" /\ save_ret = NoError
        /\ UNCHANGED <<ringvars, accepted, written>>
        /\ pc'["move"] = pc["move"] /\ pc'["save"] = pc["save"]
    BY <1>1, <1>2 DEF FinishReturns, Exit, Succeeding, mainvars
  <2>2. Drained /\ Len(written) = accepted
    BY <1>1, <2>1, AllWritten DEF FinishInv, Flowing, Preparing
  <2> QED
    BY <2>1, <2>2 DEF Drained, ringvars
<1>3. CASE ~FinishReturns
  <2> USE DEF Succeeding, mainvars, syncvars, ringvars, NoError, Drained, Idle
  <2>1. Succeeding
    <3>1. CASE MainNext
      BY <1>0, <1>1, <1>3, <3>1 DEF MainNext, Signal, StartRings, NoThreads,
        ThreadVars, SpawnSave, SpawnMove, SpawnMoveFails, StopSaveThread,
        InitFinish, InitFinishFails, UndoMove, UndoSave, ReadBuffer, ReadEnd,
        ReadFails, Exit, FlushBuffer, DirectPage, DirectPageFails, DirectEnd,
        PrepareNextWriteBuffer, PrepareMustWait, PrepareSleep, CondWait,
        PrepareReturns, WaitForFinish, WaitForFinishMove, WaitForFinishBusy,
        FinishReturns, SaveExtents, StopThreads, Report, JoinMove, JoinSave,
        Retry, ChainInv, SizeInv, ThreadInv
    <3>2. CASE MoveNext
      BY <3>2 DEF MoveNext, Signal, MoveTop, MoveMustWait, MoveSleep, CondWait,
        MoveTest, MoveEncrypt, NextPage, MoveEncryptFails, Report, MovePut,
        PutMustWait, MovePutSleep, MoveLoop, LoopGoesOn, MoveSave,
        MoveSaveFails, MoveAfter, MoveAdvance
    <3>3. CASE SaveNext
      BY <3>3 DEF SaveNext, Signal, SaveTop, SaveSleep, CondWait, SaveTest,
        SavePage, SavePageFails, Report, SaveAdvance
    <3>4. CASE \E t \in Threads : SpuriousWakeup(t)
      BY <3>4 DEF SpuriousWakeup
    <3> QED
      BY <3>1, <3>2, <3>3, <3>4 DEF Next
  <2>2. Drained /\ Len(written) = accepted
    BY <1>1, <2>1 DEF DrainInv
  <2>3. /\ pc["move"] = "test" => save_ret # NoError
        /\ pc["save"] = "test" => save_ret # NoError
    BY <2>2 DEF RingInv
  <2>4. CASE MainNext
    BY <1>3, <2>1, <2>2, <2>4 DEF MainNext, Signal, StartRings, NoThreads,
      ThreadVars, SpawnSave, SpawnMove, SpawnMoveFails, StopSaveThread,
      InitFinish, InitFinishFails, UndoMove, UndoSave, ReadBuffer, ReadEnd,
      ReadFails, Exit, FlushBuffer, DirectPage, DirectPageFails, DirectEnd,
      PrepareNextWriteBuffer, PrepareMustWait, PrepareSleep, CondWait,
      PrepareReturns, WaitForFinish, WaitForFinishMove, WaitForFinishBusy,
      FinishReturns, SaveExtents, StopThreads, Report, JoinMove, JoinSave,
      Retry
  <2>5. CASE MoveNext
    BY <2>2, <2>3, <2>5 DEF MoveNext, Signal, MoveTop, MoveMustWait, MoveSleep,
      CondWait, MoveTest, MoveEncrypt, NextPage, MoveEncryptFails, Report,
      MovePut, PutMustWait, MovePutSleep, MoveLoop, LoopGoesOn, MoveSave,
      MoveSaveFails, MoveAfter, MoveAdvance
  <2>6. CASE SaveNext
    BY <2>2, <2>3, <2>6 DEF SaveNext, Signal, SaveTop, SaveSleep, CondWait,
      SaveTest, SavePage, SavePageFails, Report, SaveAdvance
  <2>7. CASE \E t \in Threads : SpuriousWakeup(t)
    BY <2>2, <2>7 DEF SpuriousWakeup
  <2> QED
    BY <2>4, <2>5, <2>6, <2>7 DEF Next
<1> QED
  BY <1>2, <1>3

-------------------------------------------------------------------------------
(* The invariant holds at the start and is kept by every step.               *)
LEMMA OrderInit == Init => SizeInv /\ DirectInv /\ LabelInv /\ HandInv
                           /\ WriteChain /\ MoveInv /\ EncryptChain
                           /\ FinishHeld /\ FinishInv /\ DrainInv
<1> SUFFICES ASSUME Init
             PROVE  /\ SizeInv /\ DirectInv /\ LabelInv /\ HandInv
                    /\ WriteChain /\ MoveInv /\ EncryptChain
                    /\ FinishHeld /\ FinishInv /\ DrainInv
  OBVIOUS
<1>1. /\ pc["main"] \in {"start", "fill"} /\ pc["move"] = "none"
      /\ pc["save"] = "none" /\ (use_threads => pc["main"] = "start")
      /\ save_start = save_end /\ accepted = 0 /\ written = <<>>
  BY DEF Init, Threads
<1> QED
  BY <1>1 DEF SizeInv, DirectInv, LabelInv, HandInv, WriteChain, MoveInv,
    EncryptChain, FinishHeld, FinishInv, DrainInv, Flowing, Succeeding,
    Starting

(* One step: the chains by the kind of step, the rest by the lemmas above.   *)
LEMMA OrderStep == OInv /\ [Next]_vars => OInv'
<1> SUFFICES ASSUME OInv, [Next]_vars PROVE OInv'
  OBVIOUS
<1> USE DEF OInv
<1>1. ChainInv
  BY DEF ChainInv
<1>2. IInv'
  <2>1. CASE Next
    BY <2>1, TypeStep, ThreadStep, StartStep, RingInvStep DEF IInv
  <2>2. CASE UNCHANGED vars
    <3>1. TypeInv'
      BY TypeStep DEF IInv
    <3> QED
      BY <2>2, <3>1 DEF IInv, vars, syncvars, ringvars, mainvars, ThreadInv,
         StartInv, RingInv, MoveGone, SaveGone, MoveBusy, do_encrypt
  <2> QED
    BY <2>1, <2>2
<1>3. WriteChain' /\ MoveInv' /\ EncryptChain'
  <2>1. CASE PageSteps
    BY <1>1, <2>1, WriteChainStep, MoveInvStep, EncryptChainStep
  <2>2. CASE Still
    BY <2>2, StillChain
  <2>3. CASE ~Flowing'
    BY <2>3 DEF WriteChain, MoveInv, EncryptChain
  <2> QED
    BY <2>1, <2>2, <2>3, Dispatch
<1>4. CASE Next
  BY <1>1, <1>2, <1>3, <1>4, SizeStep, DirectInvStep, LabelStep, HandStep,
    FinishHeldStep, FinishStep, DrainStep
<1>5. CASE UNCHANGED vars
  <2>1. SizeInv' /\ DirectInv' /\ LabelInv' /\ HandInv'
    BY <1>5 DEF vars, syncvars, ringvars, mainvars, SizeInv, DirectInv,
      LabelInv, HandInv, do_encrypt
  <2>2. FinishHeld' /\ FinishInv' /\ DrainInv'
    BY <1>5 DEF vars, syncvars, ringvars, mainvars, FinishHeld, FinishInv,
      DrainInv, Succeeding, Drained
  <2> QED
    BY <1>2, <1>3, <2>1, <2>2
<1> QED
  BY <1>4, <1>5

(* The inductive invariant of the order of the pages.                        *)
LEMMA Ordered == Spec => []OInv
<1>1. Init /\ IInv => OInv
  BY OrderInit DEF OInv
<1> QED
  BY <1>1, Inductive, OrderStep, PTL DEF Spec

(* The direct way out takes its pages from a buffer that holds them.         *)
LEMMA AliasHolds ==
    ASSUME BufferHoldsData
    PROVE  Spec => []AliasInv
<1>1. Init => AliasInv
  <2> SUFFICES ASSUME Init PROVE AliasInv
    OBVIOUS
  <2>1. /\ use_threads = ("threads" \in options)
        /\ aliased = (~do_compress /\ ~use_threads)
        /\ pc["main"] \in {"start", "fill"}
    BY DEF Init, Threads
  <2> QED
    BY <2>1 DEF AliasInv
<1>2. IInv /\ AliasInv /\ [Next]_vars => AliasInv'
  <2> SUFFICES ASSUME IInv, AliasInv, [Next]_vars PROVE AliasInv'
    OBVIOUS
  <2> USE DEF IInv, TypeInv, TypeOK, PcOK, MainOK, AliasInv, Threads, At, Goto,
          mainvars, do_compress
  <2>0. ~use_threads' => ~use_threads \/ "compress" \in options
    <3>1. CASE \A c \in Configs : "threads" \in c => "compress" \in c
      BY <3>1
    <3>2. CASE OtherFaults \cap StartFaults = {}
      <4>1. ASSUME MainNext
            PROVE  use_threads' = use_threads \/ "threads" \notin options
        BY <3>2, <4>1 DEF StartFaults, MainNext, Signal, StartRings, NoThreads,
          ThreadVars, SpawnSave, SpawnMove, SpawnMoveFails, StopSaveThread,
          InitFinish, InitFinishFails, UndoMove, UndoSave, ReadBuffer, ReadEnd,
          ReadFails, Exit, FlushBuffer, DirectPage, DirectPageFails, DirectEnd,
          PrepareNextWriteBuffer, PrepareMustWait, PrepareSleep, CondWait,
          PrepareReturns, WaitForFinish, WaitForFinishMove, WaitForFinishBusy,
          FinishReturns, SaveExtents, StopThreads, Report, JoinMove, JoinSave,
          Retry
      <4>2. ASSUME MoveNext PROVE use_threads' = use_threads
        BY <4>2 DEF MoveNext, Signal, MoveTop, MoveMustWait, MoveSleep,
          CondWait, MoveTest, MoveEncrypt, NextPage, MoveEncryptFails, Report,
          MovePut, PutMustWait, MovePutSleep, MoveLoop, LoopGoesOn, MoveSave,
          MoveSaveFails, MoveAfter, MoveAdvance
      <4>3. ASSUME SaveNext PROVE use_threads' = use_threads
        BY <4>3 DEF SaveNext, Signal, SaveTop, SaveSleep, CondWait, SaveTest,
          SavePage, SavePageFails, Report, SaveAdvance
      <4>4. ASSUME \E t \in Threads : SpuriousWakeup(t)
            PROVE  use_threads' = use_threads
        BY <4>4 DEF SpuriousWakeup
      <4>5. UNCHANGED vars => use_threads' = use_threads
        BY DEF vars
      <4> QED
        BY <4>1, <4>2, <4>3, <4>4, <4>5 DEF Next
    <3> QED
      BY <3>1, <3>2 DEF BufferHoldsData
  <2>1. CASE MainNext
    BY <2>0, <2>1 DEF MainNext, Signal, StartRings, NoThreads, ThreadVars,
      SpawnSave, SpawnMove, SpawnMoveFails, StopSaveThread, InitFinish,
      InitFinishFails, UndoMove, UndoSave, ReadBuffer, ReadEnd, ReadFails,
      Exit, FlushBuffer, DirectPage, DirectPageFails, DirectEnd,
      PrepareNextWriteBuffer, PrepareMustWait, PrepareSleep, CondWait,
      PrepareReturns, WaitForFinish, WaitForFinishMove, WaitForFinishBusy,
      FinishReturns, SaveExtents, StopThreads, Report, JoinMove, JoinSave,
      Retry
  <2>2. CASE MoveNext
    BY <2>2 DEF MoveNext, Signal, MoveTop, MoveMustWait, MoveSleep, CondWait,
      MoveTest, MoveEncrypt, NextPage, MoveEncryptFails, Report, MovePut,
      PutMustWait, MovePutSleep, MoveLoop, LoopGoesOn, MoveSave, MoveSaveFails,
      MoveAfter, MoveAdvance
  <2>3. CASE SaveNext
    BY <2>3 DEF SaveNext, Signal, SaveTop, SaveSleep, CondWait, SaveTest,
      SavePage, SavePageFails, Report, SaveAdvance
  <2>4. CASE \E t \in Threads : SpuriousWakeup(t)
    BY <2>4 DEF SpuriousWakeup
  <2>5. CASE UNCHANGED vars
    BY <2>5 DEF vars
  <2> QED
    BY <2>1, <2>2, <2>3, <2>4, <2>5 DEF Next
<1> QED
  BY <1>1, <1>2, Inductive, PTL DEF Spec

(* What a step may do to the swap and to the account of save_image().        *)
LEMMA StreamSteps ==
    ASSUME OInv, Next
    PROVE  \/ Retry \/ FlushBuffer \/ DirectPage \/ SavePage
           \/ (MoveSave /\ moved < write_buffers[move_end].size)
           \/ /\ UNCHANGED <<accepted, written>>
              /\ pc["main"] = "done" =>
                     pc'["main"] = "done" /\ UNCHANGED error
<1> USE DEF OInv, IInv, TypeInv, TypeOK, PcOK, ThreadInv, MoveGone, SaveGone,
        Gone, Threads, At, Goto, mainvars
<1>1. CASE MainNext
  BY <1>1 DEF MainNext, Signal, StartRings, NoThreads, ThreadVars,
    SpawnSave, SpawnMove, SpawnMoveFails, StopSaveThread, InitFinish,
    InitFinishFails, UndoMove, UndoSave, ReadBuffer, ReadEnd, ReadFails, Exit,
    FlushBuffer, DirectPage, DirectPageFails, DirectEnd,
    PrepareNextWriteBuffer, PrepareMustWait, PrepareSleep, CondWait,
    PrepareReturns, WaitForFinish, WaitForFinishMove, WaitForFinishBusy,
    FinishReturns, SaveExtents, StopThreads, Report, JoinMove, JoinSave, Retry
<1>2. CASE MoveNext
  BY <1>2 DEF MoveNext, Signal, MoveTop, MoveMustWait, MoveSleep, CondWait,
    MoveTest, MoveEncrypt, NextPage, MoveEncryptFails, Report, MovePut,
    PutMustWait, MovePutSleep, MoveLoop, LoopGoesOn, MoveSave, MoveSaveFails,
    MoveAfter, MoveAdvance
<1>3. CASE SaveNext
  BY <1>3 DEF SaveNext, Signal, SaveTop, SaveSleep, CondWait, SaveTest,
    SavePage, SavePageFails, Report, SaveAdvance
<1>4. CASE \E t \in Threads : SpuriousWakeup(t)
  BY <1>4 DEF SpuriousWakeup
<1> QED
  BY <1>1, <1>2, <1>3, <1>4 DEF Next

(* A page written to the swap is the next one of the image.                  *)
LEMMA NextPageWritten ==
    ASSUME OInv, AliasInv,
           \/ DirectPage \/ SavePage
           \/ (MoveSave /\ moved < write_buffers[move_end].size)
    PROVE  /\ written' = Append(written, Len(written) + 1)
           /\ Len(written) < accepted
           /\ UNCHANGED accepted
           /\ pc["main"] # "done" /\ pc'["main"] # "done"
<1> USE DEF OInv
<1>0. /\ accepted \in Nat /\ size \in Nat /\ moved \in Nat
      /\ Len(written) \in Nat /\ direct \in Nat
      /\ write_buffers[move_end].base \in Nat
      /\ write_buffers[move_end].size \in Nat
      /\ pc \in [Threads -> MainLabels \cup MoveLabels \cup SaveLabels]
  BY ChainTypes DEF IInv, TypeInv, TypeOK, PcOK, RingOK, MainOK
<1>1. CASE DirectPage
  <2>1. /\ pc["main"] = "direct" /\ direct < size /\ UNCHANGED <<pc, accepted>>
        /\ written' = Append(written, IF do_compress \/ aliased
                                      THEN accepted - size + direct + 1 ELSE 0)
    BY <1>1 DEF DirectPage, At
  <2>2. Len(written) + size = accepted + direct /\ (do_compress \/ aliased)
    BY <2>1 DEF SizeInv, DirectInv, AliasInv
  <2>3. accepted - size + direct + 1 = Len(written) + 1
    BY <1>0, <2>2, SMTT(60)
  <2>4. Len(written) < accepted
    BY <1>0, <2>1, <2>2
  <2> QED
    BY <2>1, <2>2, <2>3, <2>4
<1>2. CASE SavePage
  BY <1>0, <1>2 DEF SavePage, At, Goto, Threads, HandInv, mainvars, IInv,
    ThreadInv, SaveGone, Gone
<1>3. CASE MoveSave /\ moved < write_buffers[move_end].size
  <2>1. /\ pc["move"] = "save" /\ UNCHANGED <<pc, accepted>>
        /\ written' = Append(written, NextPage)
    BY <1>3 DEF MoveSave, At, mainvars
  <2>2. /\ write_buffers[move_end].base + moved = Len(written)
        /\ write_buffers[move_end].base + write_buffers[move_end].size
               <= accepted
    BY <2>1 DEF HandInv
  <2>3. NextPage = Len(written) + 1 /\ Len(written) < accepted
    BY <1>0, <1>3, <2>2 DEF NextPage
  <2>4. pc["main"] # "done"
    BY <2>1 DEF IInv, ThreadInv, MoveGone, Gone
  <2> QED
    BY <2>1, <2>3, <2>4
<1> QED
  BY <1>1, <1>2, <1>3

-------------------------------------------------------------------------------
(* stop_threads() destroys finish_mutex before it joins the threads: when    *)
(* the image was saved, every page of it is on the swap by then and neither  *)
(* thread will take the mutex any more, although wait_for_finish() looks at  *)
(* the two rings one after the other.                                        *)
THEOREM QuietAfterSuccess == Spec => []QuietOnSuccess
<1>1. OInv => QuietOnSuccess
  <2> SUFFICES ASSUME OInv,
                      pc["main"] \in {"extents", "stop", "join_move",
                                      "join_save", "done"},
                      error = NoError
               PROVE  /\ Len(written) = accepted
                      /\ pc["move"] \in Idle /\ pc["save"] \in Idle
    BY DEF QuietOnSuccess, Idle
  <2>1. CASE use_threads
    BY <2>1 DEF OInv, DrainInv, Succeeding, Drained
  <2>2. CASE ~use_threads
    BY <2>2 DEF OInv, IInv, ThreadInv, MoveGone, SaveGone, Gone, Idle,
      DirectInv
  <2> QED
    BY <2>1, <2>2
<1> QED
  BY <1>1, Ordered, PTL

(* The pages of the image get to the swap in their order, none twice and     *)
(* none left out, whatever fails: load_image() could not tell.               *)
THEOREM PagesInOrder ==
    ASSUME BufferHoldsData
    PROVE  Spec => []InOrder
<1>1. Init => InOrder
  BY DEF Init, InOrder
<1>2. OInv /\ AliasInv /\ InOrder /\ [Next]_vars => InOrder'
  <2> SUFFICES ASSUME OInv, AliasInv, InOrder, [Next]_vars PROVE InOrder'
    OBVIOUS
  <2>0. written \in Seq(Nat)
    BY DEF OInv, IInv, TypeInv, TypeOK, MainOK
  <2>1. CASE written' = Append(written, Len(written) + 1)
    BY <2>0, <2>1 DEF InOrder
  <2>2. CASE UNCHANGED written
    BY <2>2 DEF InOrder
  <2>3. CASE Retry
    BY <2>3 DEF Retry, InOrder
  <2>4. FlushBuffer => UNCHANGED written
    BY DEF FlushBuffer
  <2>5. UNCHANGED vars => UNCHANGED written
    BY DEF vars
  <2> QED
    BY <2>1, <2>2, <2>3, <2>4, <2>5, StreamSteps, NextPageWritten
<1> QED
  BY <1>1, <1>2, Ordered, AliasHolds, PTL DEF Spec

(* save_image() with its threads implements the stream of pages PageStream   *)
(* promises to write_image(): each step accepts a buffer, writes the next    *)
(* page, returns (with success only when all is written), starts over after  *)
(* a failure, or changes nothing that write_image() can see.                 *)
THEOREM Refinement ==
    ASSUME BufferHoldsData
    PROVE  Spec => ImplementsPageStream
<1> USE DEF NoError
<1>1. Init => PS!PSInit
  BY DEF Init, PS!PSInit, Result, Threads
<1>2. OInv /\ AliasInv /\ OInv' /\ [Next]_vars => [PS!PSNext]_(PS!psvars)
  <2> SUFFICES ASSUME OInv, AliasInv, OInv', [Next]_vars
               PROVE  PS!PSNext \/ UNCHANGED PS!psvars
    OBVIOUS
  <2>0. /\ accepted \in Nat /\ size \in Nat
        /\ pc \in [Threads -> MainLabels \cup MoveLabels \cup SaveLabels]
        /\ use_threads' \in BOOLEAN
    BY DEF OInv, IInv, TypeInv, TypeOK, MainOK, PcOK
  <2>1. CASE Retry
    <3>1. /\ pc["main"] = "done" /\ error = "ENOSPC"
          /\ accepted' = 0 /\ written' = <<>> /\ pc'["main"] # "done"
      BY <2>0, <2>1 DEF Retry, At, Goto, Threads
    <3> QED
      BY <3>1 DEF Result, PS!PSNext, PS!Restart
  <2>2. CASE FlushBuffer
    <3>1. /\ pc["main"] = "flush" /\ pc'["main"] # "done"
          /\ accepted' = accepted + size /\ UNCHANGED written
      BY <2>0, <2>2 DEF FlushBuffer, At, Goto, Threads
    <3>2. accepted' \in Nat /\ accepted' > accepted
      BY <2>0, <3>1 DEF OInv, SizeInv
    <3> QED
      BY <3>1, <3>2 DEF Result, PS!PSNext, PS!Accept
  <2>3. CASE \/ DirectPage \/ SavePage
             \/ (MoveSave /\ moved < write_buffers[move_end].size)
    BY <2>3, NextPageWritten DEF Result, PS!PSNext, PS!Emit
  <2>4. CASE /\ UNCHANGED <<accepted, written>>
             /\ pc["main"] = "done" => pc'["main"] = "done" /\ UNCHANGED error
    <3>1. CASE pc["main"] # "done" /\ pc'["main"] = "done" /\ error' = NoError
      <4>1. Len(written') = accepted'
        <5>1. CASE use_threads'
          BY <3>1, <5>1 DEF OInv, DrainInv, Succeeding
        <5>2. CASE ~use_threads'
          BY <3>1, <5>2 DEF OInv, DirectInv
        <5> QED
          BY <2>0, <5>1, <5>2
      <4> QED
        BY <2>4, <3>1, <4>1 DEF Result, PS!PSNext, PS!Succeed
    <3>2. CASE pc["main"] # "done" /\ pc'["main"] = "done" /\ error' # NoError
      BY <2>4, <3>2 DEF Result, PS!PSNext, PS!Fail
    <3>3. CASE pc["main"] = "done" \/ pc'["main"] # "done"
      BY <2>4, <3>3 DEF Result, PS!psvars
    <3> QED
      BY <3>1, <3>2, <3>3
  <2>5. CASE UNCHANGED vars
    BY <2>5 DEF vars, mainvars, Result, PS!psvars
  <2> QED
    BY <2>1, <2>2, <2>3, <2>4, <2>5, StreamSteps
<1> QED
  BY <1>1, <1>2, Ordered, AliasHolds, PTL DEF Spec, ImplementsPageStream,
     PS!PSSpec
===============================================================================
