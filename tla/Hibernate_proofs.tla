--------------------------- MODULE Hibernate_proofs ---------------------------
(***************************************************************************)
(* Proofs about Hibernate, for any number of snapshots and attempts.       *)
(***************************************************************************)
EXTENDS Hibernate, TLAPS

(***************************************************************************)
(* The invariants.  OrderInv: how far write_image() has come says which    *)
(* blocks of the image are on the medium, and a signature waits in the     *)
(* page cache only once all of them are.  It holds whatever fails.         *)
(***************************************************************************)
OnDisk(b, v) == cache[b] = v /\ disk[b] = v /\ b \notin dirty

TypeInv ==
    /\ TypeOK
    /\ pc = "freeze" => snapshots < MaxSnapshots

OrderInv ==
    /\ pc = "sync_data" => cache["data"] = image
    /\ pc \in {"head", "sync_head", "mark", "sync_mark"} =>
           OnDisk("data", image)
    /\ pc = "sync_head" => cache["head"] = image
    /\ pc \in {"mark", "sync_mark"} => OnDisk("head", image)
    /\ pc = "sync_mark" => cache["sig"] = image
    /\ "sig" \in dirty /\ cache["sig"] # 0 => pc = "sync_mark"
    /\ \A b \in {"data", "head"} : b \notin dirty => cache[b] = disk[b]

(***************************************************************************)
(* SigInv: where the program may be while there is a signature, and that   *)
(* the image is whole as long as there is one; until resume leaves one     *)
(* behind.                                                                 *)
(***************************************************************************)
SigPcs == {"sync_mark", "s2ram", "shutdown", "reset", "sync_reset", "hang",
           "off", "read", "ask", "resume_reset", "resume_sync"}

SigInv ==
    /\ "sig" \notin dirty => cache["sig"] = disk["sig"]
    /\ disk["sig"] # 0 \/ cache["sig"] # 0 => pc \in SigPcs
    /\ pc \in {"sync_reset", "resume_sync"} => cache["sig"] = 0
    /\ disk["sig"] # 0 => /\ OnDisk("data", disk["sig"])
                          /\ OnDisk("head", disk["sig"])

(***************************************************************************)
(* FreshInv: a signature stands for the snapshot the filesystems are       *)
(* waiting for, or for a test image.                                       *)
(***************************************************************************)
Fresh(n) == n \in fakes \/ fs = n

FreshInv ==
    /\ disk["sig"] # 0 => Fresh(disk["sig"])
    /\ pc \in {"save", "sync_data", "head", "sync_head", "mark", "sync_mark",
               "read", "ask", "resume_reset", "resume_sync", "restore"} =>
           Fresh(image)

(***************************************************************************)
(* ResetInv: from mark_swap() to the reset after a sleep in RAM, the page  *)
(* cache has the signature of the image.                                   *)
(***************************************************************************)
ResetInv ==
    /\ pc \in {"save", "sync_data", "head", "sync_head", "mark"} => image # 0
    /\ pc \in {"sync_mark", "s2ram"} => cache["sig"] # 0
    /\ ResetFindsSignature

-------------------------------------------------------------------------------
(* Every step keeps the types.                                              *)

\* No action of suspend.c or resume.c leaves the types.
LEMMA TypeStep == TypeInv /\ [Next]_vars => TypeInv'
<1> SUFFICES ASSUME TypeInv, [Next]_vars PROVE TypeInv'
  OBVIOUS
<1> USE HibernateAssumption DEF TypeInv, TypeOK, CountOK, Goto, Run, vars,
    diskvars, progvars, history
<1>1. PcOK'
  <2> USE DEF PcOK
  <2>1. CASE KernelNext
    BY <2>1 DEF KernelNext, Writeback, PowerLoss, SwapOut, Down, Flushed
  <2>2. CASE SuspendNext
    BY <2>2 DEF SuspendNext, SuspendSystem, Freeze, FreezeFails, Snapshot,
        SnapshotFails, SwapActive
  <2>3. CASE WriteNext
    BY <2>3 DEF WriteNext, SaveImage, SaveImageFails, SyncData, WriteHeader,
        SyncHeader, VerifyFails, MarkSwap, MarkSwapFails, SyncMark, Write,
        WriteFailed, Fsync, Flushed
  <2>4. CASE ImageNext
    BY <2>4 DEF ImageNext, SuspendToRam, SuspendToRamFails, Shutdown,
        ResetSignature, ResetSignatureFails, SyncReset, Powerdown, Write,
        Down, Fsync, Flushed
  <2>5. CASE ResumeNext
    BY <2>5 DEF ResumeNext, OpenResumeDev, OpenFails, ReadImageCrashes, ReadImage,
        ReadImageFails, RebootQuestionNo, RebootQuestionYes,
        ResumeResetSignature, ResumeResetFails, ResumeSync, AtomicRestore,
        AtomicRestoreFails, Write, Down, Fsync, Flushed, AfterReset
  <2>6. CASE UNCHANGED vars
    BY <2>6
  <2>7. QED
    BY <2>1, <2>2, <2>3, <2>4, <2>5, <2>6 DEF Next
<1>2. CountOK' /\ (pc = "freeze" => snapshots < MaxSnapshots)'
  <2>0. disk["sig"] \in Images
    BY DEF DiskOK, Blocks
  <2> USE DEF Images
  <2>1. CASE KernelNext
    BY <2>1 DEF KernelNext, Writeback, PowerLoss, SwapOut, Down, Flushed
  <2>2. CASE SuspendNext
    BY <2>2 DEF SuspendNext, SuspendSystem, Freeze, FreezeFails, Snapshot,
        SnapshotFails, SwapActive
  <2>3. CASE WriteNext
    BY <2>3 DEF WriteNext, SaveImage, SaveImageFails, SyncData, WriteHeader,
        SyncHeader, VerifyFails, MarkSwap, MarkSwapFails, SyncMark, Write,
        WriteFailed, Fsync, Flushed
  <2>4. CASE ImageNext
    BY <2>4 DEF ImageNext, SuspendToRam, SuspendToRamFails, Shutdown,
        ResetSignature, ResetSignatureFails, SyncReset, Powerdown, Write,
        Down, Fsync, Flushed
  <2>5. CASE ResumeNext
    <3>1. UNCHANGED <<snapshots, attempts>>
      BY <2>5 DEF ResumeNext, OpenResumeDev, OpenFails, ReadImageCrashes, ReadImage,
          ReadImageFails, RebootQuestionNo, RebootQuestionYes,
          ResumeResetSignature, ResumeResetFails, ResumeSync, AtomicRestore,
          AtomicRestoreFails, Down
    <3>2. image' = image \/ image' = disk["sig"]
      BY <2>5 DEF ResumeNext, OpenResumeDev, OpenFails, ReadImageCrashes, ReadImage,
          ReadImageFails, RebootQuestionNo, RebootQuestionYes,
          ResumeResetSignature, ResumeResetFails, ResumeSync, AtomicRestore,
          AtomicRestoreFails, Down
    <3>3. (fs' = fs \/ fs' = 0) /\ pc' # "freeze"
      BY <2>5 DEF ResumeNext, OpenResumeDev, OpenFails, ReadImageCrashes, ReadImage,
          ReadImageFails, RebootQuestionNo, RebootQuestionYes,
          ResumeResetSignature, ResumeResetFails, ResumeSync, AtomicRestore,
          AtomicRestoreFails, Down, AfterReset
    <3>4. QED
      BY <2>0, <3>1, <3>2, <3>3
  <2>6. CASE UNCHANGED vars
    BY <2>6
  <2>7. QED
    BY <2>1, <2>2, <2>3, <2>4, <2>5, <2>6 DEF Next
<1>3. DiskOK'
  <2> USE DEF DiskOK, Blocks
  <2>1. \A c \in [Blocks -> Images], b \in Blocks, v \in Images :
            [c EXCEPT ![b] = v] \in [Blocks -> Images]
    OBVIOUS
  <2>2. \A S \in SUBSET Blocks : Flushed(S) \in [Blocks -> Images]
    BY DEF Flushed
  <2>3. 0 \in Images /\ image \in Images
    BY DEF Images
  <2>4. \/ UNCHANGED <<cache, disk, dirty>>
        \/ /\ \E b \in Blocks, v \in {0, image} :
                  cache' = [cache EXCEPT ![b] = v]
           /\ dirty' \in SUBSET Blocks /\ disk' = disk
        \/ cache' = disk /\ disk' = disk /\ dirty' = {}
        \/ cache' = [disk EXCEPT !["sig"] = 0] /\ disk' = disk /\ dirty' = {}
        \/ /\ \E S \in SUBSET Blocks : disk' = Flushed(S)
           /\ dirty' \in SUBSET Blocks /\ cache' = cache
        \/ /\ \E b \in Blocks : /\ cache' = [cache EXCEPT ![b] = 0]
                              /\ disk' = [disk EXCEPT ![b] = 0]
           /\ dirty' \in SUBSET Blocks
    <3>1. CASE KernelNext
      BY <3>1 DEF KernelNext, Writeback, PowerLoss, SwapOut, Down
    <3>2. CASE SuspendNext
      BY <3>2 DEF SuspendNext, SuspendSystem, Freeze, FreezeFails, Snapshot,
          SnapshotFails, SwapActive
    <3>3. CASE WriteNext
      BY <3>3 DEF WriteNext, SaveImage, SaveImageFails, SyncData, WriteHeader,
          SyncHeader, VerifyFails, MarkSwap, MarkSwapFails, SyncMark, Write,
          WriteFailed, Fsync
    <3>4. CASE ImageNext
      BY <3>4 DEF ImageNext, SuspendToRam, SuspendToRamFails, Shutdown,
          ResetSignature, ResetSignatureFails, SyncReset, Powerdown, Write,
          Down, Fsync
    <3>5. CASE ResumeNext
      BY <3>5 DEF ResumeNext, OpenResumeDev, OpenFails, ReadImageCrashes, ReadImage,
          ReadImageFails, RebootQuestionNo, RebootQuestionYes,
          ResumeResetSignature, ResumeResetFails, ResumeSync, AtomicRestore,
          AtomicRestoreFails, Write, Down, Fsync, AfterReset
    <3>6. CASE UNCHANGED vars
      BY <3>6
    <3>7. QED
      BY <3>1, <3>2, <3>3, <3>4, <3>5, <3>6 DEF Next
  <2>5. dirty' \subseteq Blocks
    BY <2>4
  <2>6. "sig" \in Blocks
    OBVIOUS
  <2> HIDE DEF Blocks
  <2>7. cache' \in [Blocks -> Images]
    BY <2>1, <2>3, <2>4, <2>6
  <2>8. disk' \in [Blocks -> Images]
    BY <2>1, <2>2, <2>3, <2>4
  <2>9. QED
    BY <2>5, <2>7, <2>8
<1>4. FlagOK'
  <2>1. /\ mode' = mode \/ mode' \in Modes
        /\ failed' = failed \/ failed' = TRUE \/ failed' = FALSE
        /\ fakes' = fakes \/ fakes' = fakes \cup {snapshots + 1}
        /\ left' = left \/ left' = TRUE
        /\ pc = "freeze" \/ fakes' = fakes
    <3>1. CASE KernelNext
      BY <3>1 DEF KernelNext, Writeback, PowerLoss, SwapOut, Down, Flushed
    <3>2. CASE SuspendNext
      BY <3>2 DEF SuspendNext, SuspendSystem, Freeze, FreezeFails, Snapshot,
          SnapshotFails, SwapActive
    <3>3. CASE WriteNext
      BY <3>3 DEF WriteNext, SaveImage, SaveImageFails, SyncData, WriteHeader,
          SyncHeader, VerifyFails, MarkSwap, MarkSwapFails, SyncMark, Write,
          WriteFailed, Fsync, Flushed
    <3>4. CASE ImageNext
      BY <3>4 DEF ImageNext, SuspendToRam, SuspendToRamFails, Shutdown,
          ResetSignature, ResetSignatureFails, SyncReset, Powerdown, Write,
          Down, Fsync, Flushed
    <3>5. CASE ResumeNext
      BY <3>5 DEF ResumeNext, OpenResumeDev, OpenFails, ReadImageCrashes, ReadImage,
          ReadImageFails, RebootQuestionNo, RebootQuestionYes,
          ResumeResetSignature, ResumeResetFails, ResumeSync, AtomicRestore,
          AtomicRestoreFails, Write, Down, Fsync, Flushed, AfterReset
    <3>6. CASE UNCHANGED vars
      BY <3>6
    <3>7. QED
      BY <3>1, <3>2, <3>3, <3>4, <3>5, <3>6 DEF Next
  <2>2. fakes' \subseteq Images
    <3>1. fakes \subseteq Images
      BY Zenon DEF FlagOK
    <3>2. \/ fakes' = fakes
          \/ pc = "freeze" /\ fakes' = fakes \cup {snapshots + 1}
      BY <2>1, Zenon
    <3>3. pc = "freeze" => snapshots + 1 \in Images
      BY DEF Images
    <3>4. QED
      BY <3>1, <3>2, <3>3
  <2>3. mode' \in AllModes
    BY <2>1 DEF FlagOK
  <2>4. failed' \in BOOLEAN /\ left' \in BOOLEAN
    BY <2>1, Zenon DEF FlagOK
  <2>5. QED
    BY <2>2, <2>3, <2>4, Zenon DEF FlagOK
<1>5. QED
  BY <1>1, <1>2, <1>3, <1>4

\* Whatever fails, write_image() reaches mark_swap() with everything synced.
LEMMA OrderStep == TypeInv /\ OrderInv /\ [Next]_vars => OrderInv'
<1> SUFFICES ASSUME TypeInv, OrderInv, [Next]_vars PROVE OrderInv'
  OBVIOUS
<1> USE DEF TypeInv, TypeOK, DiskOK, CountOK, Images, OrderInv, OnDisk,
    Blocks, Goto, Run, vars,
        diskvars, progvars, history
<1>1. CASE KernelNext
  BY <1>1 DEF KernelNext, Writeback, PowerLoss, SwapOut, Down, Flushed
<1>2. CASE SuspendNext
  BY <1>2 DEF SuspendNext, SuspendSystem, Freeze, FreezeFails, Snapshot,
      SnapshotFails, SwapActive
<1>3. CASE WriteNext
  BY <1>3 DEF WriteNext, SaveImage, SaveImageFails, SyncData, WriteHeader,
      SyncHeader, VerifyFails, MarkSwap, MarkSwapFails, SyncMark, Write,
      WriteFailed, Fsync, Flushed
<1>4. CASE ImageNext
  BY <1>4 DEF ImageNext, SuspendToRam, SuspendToRamFails, Shutdown,
      ResetSignature, ResetSignatureFails, SyncReset, Powerdown, Write, Down,
      Fsync, Flushed
<1>5. CASE ResumeNext
  BY <1>5 DEF ResumeNext, OpenResumeDev, OpenFails, ReadImageCrashes, ReadImage, ReadImageFails,
      RebootQuestionNo, RebootQuestionYes, ResumeResetSignature,
      ResumeResetFails, ResumeSync, AtomicRestore, AtomicRestoreFails, Write,
      Down, Fsync, Flushed, AfterReset
<1>6. CASE UNCHANGED vars
  BY <1>6
<1>7. QED
  BY <1>1, <1>2, <1>3, <1>4, <1>5, <1>6 DEF Next

\* Until resume leaves a signature, it goes before user space runs.
LEMMA SigStep ==
    TypeInv /\ OrderInv /\ (~left => SigInv) /\ [Next]_vars
    => (~left' => SigInv')
<1> SUFFICES ASSUME TypeInv, OrderInv, ~left => SigInv, [Next]_vars, ~left'
             PROVE  SigInv'
  OBVIOUS
<1> USE DEF TypeInv, TypeOK, DiskOK, CountOK, Images, OrderInv, SigInv,
    SigPcs, OnDisk, Blocks, Goto, Run, vars, diskvars, progvars, history
<1>1. CASE KernelNext
  BY <1>1 DEF KernelNext, Writeback, PowerLoss,
      SwapOut, Down, Flushed
<1>2. CASE SuspendNext
  BY <1>2 DEF SuspendNext, SuspendSystem, Freeze,
      FreezeFails, Snapshot, SnapshotFails, SwapActive
<1>3. CASE WriteNext
  BY <1>3 DEF WriteNext, SaveImage, SaveImageFails,
      SyncData, WriteHeader, SyncHeader, VerifyFails, MarkSwap, MarkSwapFails,
      SyncMark, Write, WriteFailed, Fsync, Flushed
<1>4. CASE ImageNext
  BY <1>4 DEF ImageNext, SuspendToRam,
      SuspendToRamFails, Shutdown, ResetSignature, ResetSignatureFails,
      SyncReset, Powerdown, Write, Down, Fsync, Flushed
<1>5. CASE ResumeNext
  BY <1>5 DEF ResumeNext, OpenResumeDev, OpenFails, ReadImageCrashes,
      ReadImage, ReadImageFails, RebootQuestionNo, RebootQuestionYes,
      ResumeResetSignature, ResumeResetFails, ResumeSync, AtomicRestore,
      AtomicRestoreFails, Write, Down, Fsync, Flushed, AfterReset
<1>6. CASE UNCHANGED vars
  BY <1>6
<1>7. QED
  BY <1>1, <1>2, <1>3, <1>4, <1>5, <1>6 DEF Next

\* The filesystems wait for the image under the signature.
LEMMA FreshStep ==
    TypeInv /\ OrderInv /\ (~left => SigInv /\ FreshInv) /\ [Next]_vars
    => (~left' => FreshInv')
<1> SUFFICES ASSUME TypeInv, OrderInv, ~left => SigInv /\ FreshInv,
                    [Next]_vars, ~left'
             PROVE  FreshInv'
  OBVIOUS
<1> USE HibernateAssumption DEF TypeInv, TypeOK, DiskOK, CountOK, Images,
    OrderInv, SigInv, SigPcs, FreshInv, Fresh, OnDisk, Blocks, Goto, Run, vars,
    diskvars, progvars, history
<1>1. CASE KernelNext
  BY <1>1 DEF KernelNext, Writeback, PowerLoss,
      SwapOut, Down, Flushed
<1>2. CASE SuspendNext
  BY <1>2 DEF SuspendNext, SuspendSystem, Freeze,
      FreezeFails, Snapshot, SnapshotFails, SwapActive
<1>3. CASE WriteNext
  BY <1>3 DEF WriteNext, SaveImage, SaveImageFails,
      SyncData, WriteHeader, SyncHeader, VerifyFails, MarkSwap, MarkSwapFails,
      SyncMark, Write, WriteFailed, Fsync, Flushed
<1>4. CASE ImageNext
  BY <1>4 DEF ImageNext, SuspendToRam,
      SuspendToRamFails, Shutdown, ResetSignature, ResetSignatureFails,
      SyncReset, Powerdown, Write, Down, Fsync, Flushed
<1>5. CASE ResumeNext
  BY <1>5 DEF ResumeNext, OpenResumeDev, OpenFails, ReadImageCrashes,
      ReadImage, ReadImageFails, RebootQuestionNo, RebootQuestionYes,
      ResumeResetSignature, ResumeResetFails, ResumeSync, AtomicRestore,
      AtomicRestoreFails, Write, Down, Fsync, Flushed, AfterReset
<1>6. CASE UNCHANGED vars
  BY <1>6
<1>7. QED
  BY <1>1, <1>2, <1>3, <1>4, <1>5, <1>6 DEF Next

\* No failure and no other attempt comes between the signature and its reset.
LEMMA ResetStep == TypeInv /\ ResetInv /\ [Next]_vars => ResetInv'
<1> SUFFICES ASSUME TypeInv, ResetInv, [Next]_vars PROVE ResetInv'
  OBVIOUS
<1> USE DEF TypeInv, TypeOK, DiskOK, CountOK, ResetInv, ResetFindsSignature,
    Blocks, Goto, Run, vars, diskvars, progvars, history
<1>1. CASE KernelNext
  BY <1>1 DEF KernelNext, Writeback, PowerLoss, SwapOut, Down
<1>2. CASE SuspendNext
  BY <1>2 DEF SuspendNext, SuspendSystem, Freeze, FreezeFails, Snapshot,
      SnapshotFails
<1>3. CASE WriteNext
  BY <1>3 DEF WriteNext, SaveImage, SaveImageFails, SyncData, WriteHeader,
      SyncHeader, VerifyFails, MarkSwap, MarkSwapFails, SyncMark, Write,
      WriteFailed, Fsync
<1>4. CASE ImageNext
  BY <1>4 DEF ImageNext, SuspendToRam, SuspendToRamFails, Shutdown,
      ResetSignature, ResetSignatureFails, SyncReset, Powerdown, Write, Down,
      Fsync
<1>5. CASE ResumeNext
  BY <1>5 DEF ResumeNext, OpenResumeDev, OpenFails, ReadImage,
      ReadImageFails, ReadImageCrashes, RebootQuestionNo, RebootQuestionYes,
      ResumeResetSignature, ResumeResetFails, ResumeSync, AtomicRestore,
      AtomicRestoreFails, Down, AfterReset
<1>6. CASE UNCHANGED vars
  BY <1>6
<1>7. QED
  BY <1>1, <1>2, <1>3, <1>4, <1>5, <1>6 DEF Next

-------------------------------------------------------------------------------
(* The theorems.                                                            *)

\* The initial state satisfies every part of the invariant.
LEMMA InitInv == Init => TypeInv /\ OrderInv /\ SigInv
<1> SUFFICES ASSUME Init PROVE TypeInv /\ OrderInv /\ SigInv
  OBVIOUS
<1>1. FlagOK
  BY Zenon DEF Init, FlagOK, AllModes
<1>2. PcOK /\ CountOK /\ (pc = "freeze" => snapshots < MaxSnapshots)
  BY HibernateAssumption DEF Init, PcOK, CountOK, Images
<1>3. DiskOK /\ OrderInv /\ SigInv
  BY HibernateAssumption
     DEF Init, DiskOK, Images, OrderInv, SigInv, OnDisk, Blocks
<1>4. QED
  BY <1>1, <1>2, <1>3 DEF TypeInv, TypeOK

\* TypeOK is an invariant of suspend_system(), write_image() and resume.
THEOREM TypeCorrect == Spec => []TypeOK
<1>1. Init => TypeInv
  BY InitInv
<1>2. TypeInv => TypeOK
  BY DEF TypeInv
<1>3. QED
  BY <1>1, <1>2, TypeStep, PTL DEF Spec

\* Whatever fails, and whenever the kernel writes a block back, the medium gets
\* the signature of mark_swap() after the image it stands for.
THEOREM SignatureComesLast == Spec => MarkedLast
<1>1. Init => TypeInv /\ OrderInv
  BY InitInv
<1>2. TypeInv /\ OrderInv /\ [Next]_vars =>
          [disk'["sig"] \notin {0, disk["sig"]} =>
               /\ disk["data"] = disk'["sig"]
               /\ disk["head"] = disk'["sig"]]_vars
  <2> SUFFICES ASSUME TypeInv, OrderInv, Next,
                      disk'["sig"] \notin {0, disk["sig"]}
               PROVE  /\ disk["data"] = disk'["sig"]
                      /\ disk["head"] = disk'["sig"]
    BY DEF vars, diskvars
  <2> USE DEF TypeInv, TypeOK, DiskOK, OrderInv, OnDisk, Blocks
  <2>1. CASE KernelNext
    BY <2>1 DEF KernelNext, Writeback, PowerLoss, SwapOut, Down, Flushed,
        diskvars
  <2>2. CASE SuspendNext
    BY <2>2 DEF SuspendNext, SuspendSystem, Freeze, FreezeFails, Snapshot,
        SnapshotFails, SwapActive, Flushed, diskvars
  <2>3. CASE WriteNext
    BY <2>3 DEF WriteNext, SaveImage, SaveImageFails, SyncData, WriteHeader,
        SyncHeader, VerifyFails, MarkSwap, MarkSwapFails, SyncMark, Write,
        WriteFailed, Fsync, Flushed, diskvars
  <2>4. CASE ImageNext
    BY <2>4 DEF ImageNext, SuspendToRam, SuspendToRamFails, Shutdown,
        ResetSignature, ResetSignatureFails, SyncReset, Powerdown, Write,
        Down, Fsync, Flushed, diskvars
  <2>5. CASE ResumeNext
    BY <2>5 DEF ResumeNext, OpenResumeDev, OpenFails, ReadImageCrashes, ReadImage,
        ReadImageFails, RebootQuestionNo, RebootQuestionYes,
        ResumeResetSignature, ResumeResetFails, ResumeSync, AtomicRestore,
        AtomicRestoreFails, Write, Down, Fsync, AfterReset, Flushed, diskvars
  <2>6. QED
    BY <2>1, <2>2, <2>3, <2>4, <2>5 DEF Next
<1>3. QED
  BY <1>1, <1>2, TypeStep, OrderStep, PTL DEF Spec, MarkedLast

\* Until resume leaves a signature where it was, a power loss at any moment
\* leaves a whole image or none.
THEOREM ImageIsWhole == Spec => []SigImpliesImage
<1>1. Init => TypeInv /\ OrderInv /\ (~left => SigInv)
  BY InitInv
<1>2. (~left => SigInv) => SigImpliesImage
  BY DEF SigInv, SigImpliesImage, OnDisk
<1>3. QED
  BY <1>1, <1>2, TypeStep, OrderStep, SigStep, PTL DEF Spec

\* Until then, unfreeze() and the boot find the signature gone.
THEOREM SignatureGone == Spec => []NoImageWhileRunning
<1>1. Init => TypeInv /\ OrderInv /\ (~left => SigInv)
  BY InitInv
<1>2. (~left => SigInv) => NoImageWhileRunning
  BY DEF SigInv, SigPcs, NoImageWhileRunning
<1>3. QED
  BY <1>1, <1>2, TypeStep, OrderStep, SigStep, PTL DEF Spec

\* Until then, resume only ever restores the snapshot that the filesystems
\* still match, or a test image.
THEOREM FreshResume == Spec => []NoStaleResume
<1> DEFINE Inv == ~left => SigInv /\ FreshInv
<1>1. Init => TypeInv /\ OrderInv /\ Inv
  BY InitInv DEF Init, FreshInv, Blocks
<1>2. TypeInv /\ OrderInv /\ Inv /\ [Next]_vars => Inv'
  BY SigStep, FreshStep
<1>3. Inv => NoStaleResume
  BY DEF FreshInv, Fresh, NoStaleResume
<1>4. QED
  BY <1>1, <1>2, <1>3, TypeStep, OrderStep, PTL DEF Spec

\* reset_signature() of s2both finds the signature that mark_swap() wrote.
THEOREM ResetIsPossible == Spec => []ResetFindsSignature
<1>1. Init => TypeInv /\ ResetInv
  BY InitInv DEF Init, ResetInv, ResetFindsSignature
<1>2. ResetInv => ResetFindsSignature
  BY DEF ResetInv
<1>3. QED
  BY <1>1, <1>2, TypeStep, ResetStep, PTL DEF Spec

===============================================================================
