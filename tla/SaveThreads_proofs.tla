-------------------------- MODULE SaveThreads_proofs --------------------------
(***************************************************************************)
(* Safety of save_image()'s threads for any size of the rings, any number  *)
(* of buffers, pages and attempts, with or without encryption and          *)
(* compression, and with every fault the model knows.                      *)
(***************************************************************************)
EXTENDS SaveThreads, TLAPS

Idle == {"none", "top", "sleep", "test", "exited"}
Gone == {"none", "exited"}
Starting == {"spawn_save", "spawn_move", "init_finish", "undo_move",
             "undo_save"}

\* TypeOK and what it takes to keep the page numbers natural: the buffer being
\* written without threads has been accepted.
TypeInv == TypeOK /\ (pc["main"] = "direct" => size <= accepted)

\* Which threads there are, by the place of the main thread: none before they
\* are created, none after they are joined, none when threads are not used.
MoveGone == pc["move"] \in Gone /\ sigs["move"] = <<>>
SaveGone == pc["save"] \in Gone /\ sigs["save"] = <<>>

ThreadInv ==
    /\ pc["main"] \in {"start", "spawn_save", "spawn_move", "undo_save",
                       "join_save", "done"} => MoveGone
    /\ pc["main"] \in {"start", "spawn_save", "done"} => SaveGone
    /\ ~use_threads =>
           /\ pc["main"] \in {"fill", "flush", "direct", "extents", "done",
                              "undo_save"}
           /\ MoveGone
           /\ pc["main"] # "undo_save" => SaveGone
    /\ ~do_encrypt => SaveGone /\ pc["main"] # "spawn_save"

\* While the threads are being created the rings are empty, so a thread that
\* got past its wait has seen save_ret set and will exit.
StartInv ==
    pc["main"] \in Starting =>
        /\ move_start = move_end /\ save_start = save_end
        /\ pc["move"] \in Idle /\ sigs["move"] = <<>>
        /\ pc["save"] \in Idle /\ sigs["save"] = <<>>

\* The main thread between passing the move thread's index and returning.
Leaving == {"prep_ret", "finish", "finish2", "finish_busy", "finish_ret",
            "stop", "join_move", "join_save", "done"}

MoveBusy == pc["move"] \in {"encrypt", "put", "put_sleep", "loop", "save",
                            "after", "advance"}

\* A thread that works on a ring has it non-empty, except that after an error
\* the producer may have caught up with it, and then will not produce again.
RingInv ==
    /\ pc["move"] = "test" => move_start # move_end \/ save_ret # NoError
    /\ MoveBusy => \/ move_start # move_end
                   \/ save_ret # NoError /\ pc["main"] \in Leaving
    /\ pc["save"] = "test" => save_start # save_end \/ save_ret # NoError
    /\ pc["save"] \in {"page", "advance"} =>
           \/ save_start # save_end
           \/ save_ret # NoError
              /\ pc["move"] \notin {"encrypt", "put", "put_sleep"}

IInv == TypeInv /\ ThreadInv /\ StartInv /\ RingInv

-------------------------------------------------------------------------------
(* The ring indices stay in their rings.                                    *)
LEMMA IncRange ==
    /\ 0 \in 0..WRITE_BUFFERS-1 /\ 0 \in 0..ENCRYPT_BUF_PAGES-1
    /\ \A i \in 0..WRITE_BUFFERS-1 : move_inc(i) \in 0..WRITE_BUFFERS-1
    /\ \A i \in 0..ENCRYPT_BUF_PAGES-1 : save_inc(i) \in 0..ENCRYPT_BUF_PAGES-1
BY ConstantsAssumption DEF move_inc, save_inc

(* What is read out of a ring is a page number.                             *)
LEMMA PagesNat == RingOK => NextPage \in Nat /\ encrypt_buf[save_end] \in Nat
<1> SUFFICES ASSUME RingOK
             PROVE  NextPage \in Nat /\ encrypt_buf[save_end] \in Nat
  OBVIOUS
<1>1. write_buffers[move_end] \in [base : Nat, size : Nat]
  BY DEF RingOK
<1> QED
  BY <1>1 DEF RingOK, NextPage

(* The signals the code sends are sequences of condition variables.         *)
LEMMA CondSeqs ==
    /\ <<"move_cond">> \in Seq(Conds)
    /\ <<"save_cond">> \in Seq(Conds)
    /\ <<"move_cond", "finish_cond">> \in Seq(Conds)
    /\ <<"save_cond", "finish_cond">> \in Seq(Conds)
    /\ <<"move_cond", "save_cond", "finish_cond">> \in Seq(Conds)
BY DEF Conds

(* Every thread stays at one of its labels.                                  *)
LEMMA PcStep == PcOK /\ Next => PcOK'
<1> SUFFICES ASSUME PcOK, Next PROVE PcOK'
  OBVIOUS
<1> USE DEF PcOK, Threads, MainLabels, MoveLabels, SaveLabels, At, Goto
<1>1. CASE MainNext
  BY <1>1 DEF MainNext, Signal, StartRings, NoThreads, ThreadVars,
    SpawnSave, SpawnMove, SpawnMoveFails, StopSaveThread, InitFinish,
    InitFinishFails, UndoMove, UndoSave, ReadBuffer, ReadEnd, ReadFails, Exit,
    FlushBuffer, DirectPage, DirectPageFails, DirectEnd,
    PrepareNextWriteBuffer, PrepareMustWait, PrepareSleep, CondWait,
    PrepareReturns, WaitForFinish, WaitForFinishMove, WaitForFinishBusy,
    FinishReturns, SaveExtents, StopThreads, Report, JoinMove, JoinSave, Retry
<1>2. CASE MoveNext
  BY <1>2 DEF MoveNext, Signal, MoveTop, MoveMustWait, MoveSleep, CondWait,
    MoveTest, MoveEncrypt, NextPage, MoveEncryptFails, Report, MovePut,
    PutMustWait, MovePutSleep, MoveLoop, LoopGoesOn, MoveSave, MoveSaveFails,
    MoveAfter, MoveAdvance
<1>3. CASE SaveNext
  BY <1>3 DEF SaveNext, Signal, SaveTop, SaveSleep, CondWait, SaveTest,
    SavePage, SavePageFails, Report, SaveAdvance
<1>4. CASE \E t \in Threads : SpuriousWakeup(t)
  BY <1>4 DEF SpuriousWakeup
<1> QED
  BY <1>1, <1>2, <1>3, <1>4 DEF Next

(* A signal leaves the rest of the signals to send.                         *)
LEMMA SignalSigs ==
    ASSUME sigs \in [Threads -> Seq(Conds)], NEW t \in Threads, Signal(t)
    PROVE  sigs' \in [Threads -> Seq(Conds)]
<1>1. Tail(sigs[t]) \in Seq(Conds)
  BY DEF Signal
<1> QED
  BY <1>1 DEF Signal

(* Signals to be sent.                                                       *)
LEMMA SigsStep == SyncOK /\ Next => sigs' \in [Threads -> Seq(Conds)]
<1> SUFFICES ASSUME SyncOK, Next PROVE sigs' \in [Threads -> Seq(Conds)]
  OBVIOUS
<1> USE CondSeqs, SignalSigs DEF SyncOK, Threads, syncvars
<1>1. CASE MainNext
  BY <1>1 DEF MainNext, StartRings, NoThreads, ThreadVars,
    SpawnSave, SpawnMove, SpawnMoveFails, StopSaveThread, InitFinish,
    InitFinishFails, UndoMove, UndoSave, ReadBuffer, ReadEnd, ReadFails, Exit,
    FlushBuffer, DirectPage, DirectPageFails, DirectEnd,
    PrepareNextWriteBuffer, PrepareMustWait, PrepareSleep, CondWait,
    PrepareReturns, WaitForFinish, WaitForFinishMove, WaitForFinishBusy,
    FinishReturns, SaveExtents, StopThreads, Report, JoinMove, JoinSave, Retry
<1>2. CASE MoveNext
  BY <1>2 DEF MoveNext, MoveTop, MoveMustWait, MoveSleep, CondWait,
    MoveTest, MoveEncrypt, NextPage, MoveEncryptFails, Report, MovePut,
    PutMustWait, MovePutSleep, MoveLoop, LoopGoesOn, MoveSave, MoveSaveFails,
    MoveAfter, MoveAdvance
<1>3. CASE SaveNext
  BY <1>3 DEF SaveNext, SaveTop, SaveSleep, CondWait, SaveTest,
    SavePage, SavePageFails, Report, SaveAdvance
<1>4. CASE \E t \in Threads : SpuriousWakeup(t)
  BY <1>4 DEF SpuriousWakeup
<1> QED
  BY <1>1, <1>2, <1>3, <1>4 DEF Next

(* Sleepers, mutexes and save_ret.                                           *)
LEMMA SyncStep == SyncOK /\ Next => SyncOK'
<1> SUFFICES ASSUME SyncOK, Next PROVE SyncOK'
  OBVIOUS
<1>0. SaveErrors \subseteq {"ENOSPC", "EIO"}
  BY ConstantsAssumption
<1> USE <1>0, SigsStep DEF SyncOK, Threads, Conds, Mutexes,
        Errors, NoError, syncvars
<1>1. CASE MainNext
  BY <1>1 DEF MainNext, Signal, StartRings, NoThreads, ThreadVars,
    SpawnSave, SpawnMove, SpawnMoveFails, StopSaveThread, InitFinish,
    InitFinishFails, UndoMove, UndoSave, ReadBuffer, ReadEnd, ReadFails, Exit,
    FlushBuffer, DirectPage, DirectPageFails, DirectEnd,
    PrepareNextWriteBuffer, PrepareMustWait, PrepareSleep, CondWait,
    PrepareReturns, WaitForFinish, WaitForFinishMove, WaitForFinishBusy,
    FinishReturns, SaveExtents, StopThreads, Report, JoinMove, JoinSave, Retry
<1>2. CASE MoveNext
  BY <1>2 DEF MoveNext, Signal, MoveTop, MoveMustWait, MoveSleep, CondWait,
    MoveTest, MoveEncrypt, NextPage, MoveEncryptFails, Report, MovePut,
    PutMustWait, MovePutSleep, MoveLoop, LoopGoesOn, MoveSave, MoveSaveFails,
    MoveAfter, MoveAdvance
<1>3. CASE SaveNext
  BY <1>3, SMTT(90) DEF SaveNext, Signal, SaveTop, SaveSleep, CondWait,
    SaveTest, SavePage, SavePageFails, Report, SaveAdvance
<1>4. CASE \E t \in Threads : SpuriousWakeup(t)
  BY <1>4 DEF SpuriousWakeup
<1> QED
  BY <1>1, <1>2, <1>3, <1>4 DEF Next

(* The two rings.                                                            *)
LEMMA RingStep == RingOK /\ MainOK /\ Next => RingOK'
<1> SUFFICES ASSUME RingOK, MainOK, Next PROVE RingOK'
  OBVIOUS
<1> USE DEF RingOK
<1>0. NextPage \in Nat
  BY PagesNat
<1>1. CASE UNCHANGED ringvars
  BY <1>1 DEF ringvars
<1>2. CASE StartRings
  BY <1>2, IncRange DEF StartRings, At, Goto, NoThreads, ThreadVars
<1>3. CASE FlushBuffer
  <2>1. [base |-> accepted, size |-> size] \in [base : Nat, size : Nat]
    BY DEF MainOK
  <2> QED
    BY <1>3, <2>1 DEF FlushBuffer
<1>4. CASE PrepareNextWriteBuffer
  BY <1>4, IncRange DEF PrepareNextWriteBuffer, At, Goto, PrepareMustWait
<1>5. CASE MoveTest
  BY <1>5 DEF MoveTest, At, Goto
<1>6. CASE MoveEncrypt
  <2>1. moved' \in Nat
    BY <1>6 DEF MoveEncrypt
  <2> QED
    BY <1>0, <1>6, <2>1 DEF MoveEncrypt
<1>7. CASE MovePut
  BY <1>7, IncRange DEF MovePut, At, Goto, PutMustWait
<1>8. CASE MoveSave
  <2>1. moved' = moved \/ moved' = moved + 1
    BY <1>8 DEF MoveSave
  <2>2. moved' \in Nat
    BY <2>1
  <2>3. UNCHANGED <<move_start, move_end, save_start, save_end, write_buffers,
                    encrypt_buf>>
    BY <1>8 DEF MoveSave
  <2> QED
    BY <2>2, <2>3
<1>9. CASE MoveAdvance
  BY <1>9, IncRange DEF MoveAdvance, At, Goto
<1>10. CASE SaveAdvance
  BY <1>10, IncRange DEF SaveAdvance, At, Goto
<1> QED
  BY <1>1, <1>2, <1>3, <1>4, <1>5, <1>6, <1>7, <1>8, <1>9, <1>10 DEF Next,
    MainNext, MoveNext, SaveNext, Signal, SpuriousWakeup, SpawnSave,
    NoThreads, ThreadVars, SpawnMove, SpawnMoveFails, StopSaveThread,
    InitFinish, InitFinishFails, UndoMove, UndoSave, ReadBuffer, ReadEnd,
    ReadFails, Exit, DirectPage, DirectPageFails, DirectEnd, PrepareSleep,
    CondWait, PrepareReturns, WaitForFinish, WaitForFinishMove,
    WaitForFinishBusy, FinishReturns, SaveExtents, StopThreads, Report,
    JoinMove, JoinSave, Retry, MoveTop, MoveMustWait, MoveSleep,
    MoveEncryptFails, MovePutSleep, MoveLoop, LoopGoesOn, MoveSaveFails,
    MoveAfter, SaveTop, SaveSleep, SaveTest, SavePage, SavePageFails

(* What the main thread keeps; a page number is natural because the buffer  *)
(* written without threads has been accepted.                               *)
LEMMA MainStep == TypeInv /\ Next => MainOK'
<1> SUFFICES ASSUME TypeInv, Next PROVE MainOK'
  OBVIOUS
<1> USE DEF TypeInv, TypeOK, MainOK
<1>0. /\ save_ret \in Errors
     /\ NextPage \in Nat /\ encrypt_buf[save_end] \in Nat
     /\ {"EIO", "EINTR", "EGCRY", NoError} \cup SaveErrors \subseteq Errors
  BY PagesNat, ConstantsAssumption DEF SyncOK, Errors, NoError
<1>00. Attempts \in Nat \ {0}
  BY ConstantsAssumption
<1>1. CASE UNCHANGED <<mainvars, written>>
  BY <1>1 DEF mainvars
<1>2. CASE StartRings
  BY <1>2 DEF StartRings, At, Goto, NoThreads, ThreadVars
<1>3. CASE SpawnSave
  BY <1>3 DEF SpawnSave, At, Goto, NoThreads, ThreadVars
<1>4. CASE SpawnMoveFails
  BY <1>4 DEF SpawnMoveFails, At, Goto, StopSaveThread, ThreadVars
<1>5. CASE UndoMove
  BY <1>5 DEF UndoMove, At, Goto, StopSaveThread, ThreadVars
<1>6. CASE ReadBuffer
  BY <1>6 DEF ReadBuffer, At, Goto
<1>7. CASE ReadFails
  BY <1>0, <1>7 DEF ReadFails, At, Goto, Exit
<1>8. CASE FlushBuffer
  BY <1>8 DEF FlushBuffer, At, Goto
<1>9. CASE DirectPage
  BY <1>9 DEF DirectPage, At, Goto
<1>10. CASE DirectPageFails
  BY <1>0, <1>10 DEF DirectPageFails, At, Goto, Exit
<1>11. CASE PrepareReturns
  BY <1>0, <1>11 DEF PrepareReturns, Goto, Exit, mainvars
<1>12. CASE FinishReturns
  BY <1>0, <1>12 DEF FinishReturns, Goto, Exit, mainvars
<1>13. CASE SaveExtents
  BY <1>0, <1>13 DEF SaveExtents, At, Goto, Exit
<1>14. CASE Retry
  BY <1>0, <1>00, <1>14 DEF Retry, At, Goto
<1>15. CASE MoveSave
  <2>1. written' = written \/ written' = Append(written, NextPage)
    BY <1>15 DEF MoveSave
  <2>2. written' \in Seq(Nat)
    BY <1>0, <2>1, SMTT(30)
  <2>3. UNCHANGED mainvars
    BY <1>15 DEF MoveSave
  <2> QED
    BY <2>2, <2>3 DEF mainvars
<1>16. CASE SavePage
  BY <1>0, <1>16 DEF SavePage, mainvars
<1> QED
  BY <1>1, <1>2, <1>3, <1>4, <1>5, <1>6, <1>7, <1>8, <1>9, <1>10, <1>11,
    <1>12, <1>13, <1>14, <1>15, <1>16 DEF Next, MainNext, MoveNext, SaveNext,
    Signal, SpuriousWakeup, SpawnMove, InitFinish, InitFinishFails, UndoSave,
    ReadEnd, DirectEnd, PrepareNextWriteBuffer, PrepareMustWait, PrepareSleep,
    CondWait, WaitForFinish, WaitForFinishMove, WaitForFinishBusy,
    StopThreads, Report, JoinMove, JoinSave, MoveTop, MoveMustWait, MoveSleep,
    MoveTest, MoveEncrypt, NextPage, MoveEncryptFails, MovePut, PutMustWait,
    MovePutSleep, MoveLoop, LoopGoesOn, MoveSaveFails, MoveAfter, MoveAdvance,
    SaveTop, SaveSleep, SaveTest, SavePageFails, SaveAdvance

(* The buffer written without threads has been accepted.                     *)
LEMMA DirectStep ==
    TypeInv /\ Next => (pc["main"] = "direct" => size <= accepted)'
<1> SUFFICES ASSUME TypeInv, Next
             PROVE  (pc["main"] = "direct" => size <= accepted)'
  OBVIOUS
<1> USE DEF TypeInv, TypeOK, PcOK, MainOK, Threads, At, Goto, mainvars
<1>1. CASE MainNext
  BY <1>1 DEF MainNext, Signal, StartRings, NoThreads, ThreadVars,
    SpawnSave, SpawnMove, SpawnMoveFails, StopSaveThread, InitFinish,
    InitFinishFails, UndoMove, UndoSave, ReadBuffer, ReadEnd, ReadFails, Exit,
    FlushBuffer, DirectPage, DirectPageFails, DirectEnd,
    PrepareNextWriteBuffer, PrepareMustWait, PrepareSleep, CondWait,
    PrepareReturns, WaitForFinish, WaitForFinishMove, WaitForFinishBusy,
    FinishReturns, SaveExtents, StopThreads, Report, JoinMove, JoinSave, Retry
<1>2. CASE MoveNext
  BY <1>2 DEF MoveNext, Signal, MoveTop, MoveMustWait, MoveSleep, CondWait,
    MoveTest, MoveEncrypt, NextPage, MoveEncryptFails, Report, MovePut,
    PutMustWait, MovePutSleep, MoveLoop, LoopGoesOn, MoveSave, MoveSaveFails,
    MoveAfter, MoveAdvance
<1>3. CASE SaveNext
  BY <1>3 DEF SaveNext, Signal, SaveTop, SaveSleep, CondWait, SaveTest,
    SavePage, SavePageFails, Report, SaveAdvance
<1>4. CASE \E t \in Threads : SpuriousWakeup(t)
  BY <1>4 DEF SpuriousWakeup
<1> QED
  BY <1>1, <1>2, <1>3, <1>4 DEF Next

(* Types are kept.                                                          *)
LEMMA TypeStep == TypeInv /\ [Next]_vars => TypeInv'
<1>1. TypeInv /\ Next => TypeInv'
  BY PcStep, SyncStep, RingStep, MainStep, DirectStep DEF TypeInv, TypeOK
<1>2. TypeInv /\ UNCHANGED vars => TypeInv'
  BY DEF vars, syncvars, ringvars, mainvars, TypeInv, TypeOK, PcOK, SyncOK,
         RingOK, MainOK
<1> QED
  BY <1>1, <1>2

(* Threads come and go with the main thread.                                 *)
LEMMA ThreadStep == TypeInv /\ ThreadInv /\ StartInv /\ Next => ThreadInv'
<1> SUFFICES ASSUME TypeInv, ThreadInv, StartInv, Next PROVE ThreadInv'
  OBVIOUS
<1> USE DEF TypeInv, TypeOK, PcOK, SyncOK, ThreadInv, MoveGone, SaveGone,
        Gone, Threads, At, Goto, syncvars, mainvars, do_encrypt
<1>1. CASE MainNext
  BY <1>1 DEF MainNext, Signal, StartRings, NoThreads, ThreadVars,
    SpawnSave, SpawnMove, SpawnMoveFails, StopSaveThread, InitFinish,
    InitFinishFails, UndoMove, UndoSave, ReadBuffer, ReadEnd, ReadFails, Exit,
    FlushBuffer, DirectPage, DirectPageFails, DirectEnd,
    PrepareNextWriteBuffer, PrepareMustWait, PrepareSleep, CondWait,
    PrepareReturns, WaitForFinish, WaitForFinishMove, WaitForFinishBusy,
    FinishReturns, SaveExtents, StopThreads, Report, JoinMove, JoinSave, Retry
<1>2. CASE MoveNext
  BY <1>2 DEF MoveNext, Signal, MoveTop, MoveMustWait, MoveSleep, CondWait,
    MoveTest, MoveEncrypt, NextPage, MoveEncryptFails, Report, MovePut,
    PutMustWait, MovePutSleep, MoveLoop, LoopGoesOn, MoveSave, MoveSaveFails,
    MoveAfter, MoveAdvance
<1>3. CASE SaveNext
  BY <1>3 DEF SaveNext, Signal, SaveTop, SaveSleep, CondWait, SaveTest,
    SavePage, SavePageFails, Report, SaveAdvance
<1>4. CASE \E t \in Threads : SpuriousWakeup(t)
  BY <1>4 DEF SpuriousWakeup
<1> QED
  BY <1>1, <1>2, <1>3, <1>4 DEF Next

(* No thread does anything while the threads are being created.              *)
LEMMA StartStep ==
    TypeInv /\ ThreadInv /\ StartInv /\ RingInv /\ Next => StartInv'
<1> SUFFICES ASSUME TypeInv, ThreadInv, StartInv, RingInv, Next
             PROVE  StartInv'
  OBVIOUS
<1> USE DEF TypeInv, TypeOK, PcOK, SyncOK, ThreadInv, MoveGone, SaveGone,
        StartInv, RingInv, Starting, Idle, Gone, Threads, At, Goto, syncvars,
        ringvars, NoError
<1>1. CASE MainNext
  BY <1>1 DEF MainNext, Signal, StartRings, NoThreads, ThreadVars,
    SpawnSave, SpawnMove, SpawnMoveFails, StopSaveThread, InitFinish,
    InitFinishFails, UndoMove, UndoSave, ReadBuffer, ReadEnd, ReadFails, Exit,
    FlushBuffer, DirectPage, DirectPageFails, DirectEnd,
    PrepareNextWriteBuffer, PrepareMustWait, PrepareSleep, CondWait,
    PrepareReturns, WaitForFinish, WaitForFinishMove, WaitForFinishBusy,
    FinishReturns, SaveExtents, StopThreads, Report, JoinMove, JoinSave, Retry
<1>2. CASE MoveNext
  BY <1>2 DEF MoveNext, Signal, MoveTop, MoveMustWait, MoveSleep, CondWait,
    MoveTest, MoveEncrypt, NextPage, MoveEncryptFails, Report, MovePut,
    PutMustWait, MovePutSleep, MoveLoop, LoopGoesOn, MoveSave, MoveSaveFails,
    MoveAfter, MoveAdvance
<1>3. CASE SaveNext
  BY <1>3 DEF SaveNext, Signal, SaveTop, SaveSleep, CondWait, SaveTest,
    SavePage, SavePageFails, Report, SaveAdvance
<1>4. CASE \E t \in Threads : SpuriousWakeup(t)
  BY <1>4 DEF SpuriousWakeup
<1> QED
  BY <1>1, <1>2, <1>3, <1>4 DEF Next

(* A thread that works on a ring has it non-empty.                           *)
LEMMA RingInvStep ==
    TypeInv /\ ThreadInv /\ StartInv /\ RingInv /\ Next => RingInv'
<1> SUFFICES ASSUME TypeInv, ThreadInv, StartInv, RingInv, Next
             PROVE  RingInv'
  OBVIOUS
<1> USE DEF TypeInv, TypeOK, PcOK, ThreadInv, MoveGone, SaveGone, StartInv,
        RingInv, MoveBusy, Leaving, Starting, Idle, Gone, Threads, At, Goto,
        syncvars, ringvars, NoError
<1>1. CASE MainNext
  BY <1>1 DEF MainNext, Signal, StartRings, NoThreads, ThreadVars,
    SpawnSave, SpawnMove, SpawnMoveFails, StopSaveThread, InitFinish,
    InitFinishFails, UndoMove, UndoSave, ReadBuffer, ReadEnd, ReadFails, Exit,
    FlushBuffer, DirectPage, DirectPageFails, DirectEnd,
    PrepareNextWriteBuffer, PrepareMustWait, PrepareSleep, CondWait,
    PrepareReturns, WaitForFinish, WaitForFinishMove, WaitForFinishBusy,
    FinishReturns, SaveExtents, StopThreads, Report, JoinMove, JoinSave, Retry
<1>2. CASE MoveNext
  BY <1>2 DEF MoveNext, Signal, MoveTop, MoveMustWait, MoveSleep, CondWait,
    MoveTest, MoveEncrypt, NextPage, MoveEncryptFails, Report, MovePut,
    PutMustWait, MovePutSleep, MoveLoop, LoopGoesOn, MoveSave, MoveSaveFails,
    MoveAfter, MoveAdvance
<1>3. CASE SaveNext
  BY <1>3 DEF SaveNext, Signal, SaveTop, SaveSleep, CondWait, SaveTest,
    SavePage, SavePageFails, Report, SaveAdvance
<1>4. CASE \E t \in Threads : SpuriousWakeup(t)
  BY <1>4 DEF SpuriousWakeup
<1> QED
  BY <1>1, <1>2, <1>3, <1>4 DEF Next

(* The inductive invariant.                                                 *)
LEMMA Inductive == Spec => []IInv
<1>1. Init => TypeInv
  <2> SUFFICES ASSUME Init PROVE TypeInv
    OBVIOUS
  <2>1. PcOK
    BY DEF Init, PcOK, Threads, MainLabels, MoveLabels, SaveLabels
  <2>2. SyncOK
    BY DEF Init, SyncOK, Threads, Mutexes, Errors, NoError
  <2>3. RingOK
    BY IncRange DEF Init, RingOK
  <2>4. MainOK
    <3>1. use_threads \in BOOLEAN /\ aliased \in BOOLEAN /\ last \in BOOLEAN
      <4>1. use_threads = ("threads" \in options) /\ last = FALSE
        BY DEF Init
      <4>2. use_threads \in BOOLEAN
        BY <4>1, SMT
      <4>3. aliased = (~do_compress /\ ~use_threads)
        BY DEF Init
      <4>4. aliased \in BOOLEAN
        BY <4>3, SMT DEF do_compress
      <4> QED
        BY <4>1, <4>2, <4>4
    <3>2. attempt \in 1..Attempts
      BY ConstantsAssumption DEF Init
    <3> QED
      BY <3>1, <3>2 DEF Init, MainOK, Errors, NoError
  <2> QED
    BY <2>1, <2>2, <2>3, <2>4 DEF Init, TypeInv, TypeOK
<1>2. Init => ThreadInv /\ StartInv /\ RingInv
  BY DEF Init, ThreadInv, StartInv, RingInv, MoveGone, SaveGone, Gone,
         Starting, MoveBusy, Threads, do_encrypt
<1>3. IInv /\ Next => IInv'
  BY TypeStep, ThreadStep, StartStep, RingInvStep DEF IInv
<1>4. IInv /\ UNCHANGED vars => IInv'
  <2> SUFFICES ASSUME IInv, UNCHANGED vars PROVE IInv'
    OBVIOUS
  <2>1. TypeInv'
    BY TypeStep DEF IInv
  <2> QED
    BY <2>1 DEF IInv, vars, syncvars, ringvars, mainvars, ThreadInv, StartInv,
         RingInv, MoveGone, SaveGone, MoveBusy, do_encrypt
<1> QED
  BY <1>1, <1>2, <1>3, <1>4, PTL DEF Spec, IInv

(* In every reachable state each variable of the pipeline has its type:     *)
(* whatever fails, the ring indices stay inside the rings.                  *)
THEOREM TypeCorrect == Spec => []TypeOK
<1>1. IInv => TypeOK
  BY DEF IInv, TypeInv
<1> QED
  BY <1>1, Inductive, PTL

(* "The threads don't access the same buffer at any time": the main and the *)
(* move thread never work on the same "write" buffer, the move and the save *)
(* thread never on the same "encrypt" page, not even after an error.        *)
THEOREM NoSharedBuffer == Spec => []BuffersDisjoint
<1>1. IInv => BuffersDisjoint
  BY DEF IInv, RingInv, MoveBusy, Leaving, BuffersDisjoint,
         MoveUsesWriteBuffer
<1> QED
  BY <1>1, Inductive, PTL

(* start_threads() creates the threads before it initialises finish_mutex   *)
(* and finish_cond; no thread takes the one or signals the other until then.*)
THEOREM FinishMutexSafe == Spec => []FinishMutexReady
<1>1. IInv => FinishMutexReady
  BY DEF IInv, StartInv, Starting, Idle, FinishMutexReady
<1> QED
  BY <1>1, Inductive, PTL
===============================================================================
