------------------------------- MODULE Hibernate -------------------------------
(***************************************************************************)
(* The life of a hibernation image: suspend_system() and write_image() of  *)
(* suspend.c write it and put their signature over the swap's, resume.c    *)
(* finds the signature at the next boot, loads the image, restores the     *)
(* swap's signature and continues the saved system.  Between them, the     *)
(* power may go at any moment, and with it whatever is only in the page    *)
(* cache.                                                                  *)
(*                                                                         *)
(* An image is the number of the snapshot it was made from.  A block of    *)
(* the swap ("data": the pages and extents, "head": the image header,      *)
(* "sig": the swap header) has the number of the image it belongs to; 0 is *)
(* anything else, for "sig" the swap's own signature.                      *)
(***************************************************************************)
EXTENDS Naturals

CONSTANTS
    MaxSnapshots,   \* bound: snapshots and test images made
    MaxAttempts,    \* attempts of suspend_system() (2)
    Modes,          \* subset of AllModes
    Faults          \* what may go wrong, see below

AllModes == {
    "disk",         \* s2disk
    "both",         \* s2both: suspend to RAM once the image is written
    "test"}         \* a test image comes from a file, nothing is suspended

AllFaults == {
    "freeze",       \* freeze() fails
    "snapshot",     \* the snapshot cannot be made
    "enospc",       \* write_image() runs out of swap
    "save",         \* write_image() fails otherwise before mark_swap()
    "mark",         \* mark_swap() fails
    "s2ram",        \* suspend to RAM fails
    "suspend_reset",\* reset_signature() of suspend.c cannot read or write
    "power",        \* the power goes
    "open",         \* resume cannot get at the resume device
    "read",         \* the image cannot be read
    "crash",        \* load_buffer() trips over the size of a block
    "resume_freeze",\* freeze() of resume.c fails
    "resume_reset", \* reset_signature() of resume.c cannot write
    "restore"}      \* the kernel does not accept the image

ASSUME HibernateAssumption ==
    /\ MaxSnapshots \in Nat
    /\ MaxAttempts \in Nat \ {0}
    /\ Modes \subseteq AllModes
    /\ Faults \subseteq AllFaults

VARIABLES
    pc,         \* what the machine is doing
    cache,      \* block -> image, as the running kernel sees it
    disk,       \* block -> image, as it is on the medium
    dirty,      \* blocks of the cache that the medium does not have
    image,      \* the snapshot being written or loaded
    snapshots,  \* snapshots made so far
    fs,         \* the snapshot the filesystems have not moved on from, or 0
    attempts,   \* left in suspend_system()
    mode,       \* what suspend_system() does
    failed,     \* resume has an error and will not restore
    fakes,      \* history: the test images
    left        \* history: resume has left a signature where it was

diskvars == <<cache, disk, dirty>>
progvars == <<image, snapshots, attempts, mode, failed>>
history == <<fakes, left>>
vars == <<pc, diskvars, progvars, fs, history>>

Blocks == {"data", "head", "sig"}

Images == 0..MaxSnapshots

-------------------------------------------------------------------------------
(* The page cache and the medium.                                           *)

Write(b, v) ==
    /\ cache' = [cache EXCEPT ![b] = v]
    /\ dirty' = dirty \cup {b}
    /\ UNCHANGED disk

Flushed(bs) == [b \in Blocks |-> IF b \in bs THEN cache[b] ELSE disk[b]]

\* A failing fsync() is not modelled; no caller looks at its result.
Fsync ==
    /\ disk' = Flushed(dirty)
    /\ dirty' = {}
    /\ UNCHANGED cache

\* The kernel writes out a block when it likes.
Writeback ==
    /\ \E b \in dirty : disk' = Flushed({b}) /\ dirty' = dirty \ {b}
    /\ UNCHANGED <<pc, cache, progvars, fs, history>>

\* The machine goes down, by power loss or without a sync.
Down ==
    /\ pc' = "off"
    /\ cache' = disk
    /\ dirty' = {}
    /\ UNCHANGED <<disk, progvars, fs>>

PowerLoss ==
    /\ "power" \in Faults
    /\ pc # "off"
    /\ Down
    /\ UNCHANGED history

\* User space runs: filesystems change, no image matches them any more.
Run ==
    /\ pc' = "run"
    /\ fs' = 0

\* The kernel swaps to it: swapon takes nothing but a swap's signature.
SwapActive == cache["sig"] = 0

\* The swap pages of an image were freed and get used.
SwapOut ==
    /\ pc = "run"
    /\ SwapActive
    /\ \E b \in {"data", "head"} :
           /\ cache' = [cache EXCEPT ![b] = 0]
           /\ disk' = [disk EXCEPT ![b] = 0]
           /\ dirty' = dirty \ {b}
    /\ UNCHANGED <<pc, progvars, fs, history>>

-------------------------------------------------------------------------------
(* suspend_system()                                                         *)

Goto(l) == pc' = l /\ UNCHANGED fs

\* Without swap, check_free_swap() is 0 and suspend_system() returns at once.
SuspendSystem ==
    /\ pc = "run"
    /\ SwapActive
    /\ snapshots < MaxSnapshots
    /\ mode' \in Modes
    /\ attempts' = MaxAttempts
    /\ Goto("freeze")
    /\ UNCHANGED <<diskvars, image, snapshots, failed, history>>

\* In test mode the image comes from a file.
Freeze ==
    /\ pc = "freeze"
    /\ IF mode = "test"
       THEN /\ Goto("save")
            /\ image' = snapshots + 1
            /\ snapshots' = snapshots + 1
            /\ fakes' = fakes \cup {image'}
       ELSE /\ Goto("snapshot")
            /\ UNCHANGED <<image, snapshots, fakes>>
    /\ UNCHANGED <<diskvars, attempts, mode, failed, left>>

FreezeFails ==
    /\ "freeze" \in Faults
    /\ pc = "freeze"
    /\ Run
    /\ UNCHANGED <<diskvars, progvars, history>>

Snapshot ==
    /\ pc = "snapshot"
    /\ snapshots < MaxSnapshots
    /\ snapshots' = snapshots + 1
    /\ image' = snapshots + 1
    /\ pc' = "save"
    /\ fs' = snapshots + 1
    /\ UNCHANGED <<diskvars, attempts, mode, failed, history>>

\* Snapshots are bounded: when there are none left, making one fails.
SnapshotFails ==
    /\ pc = "snapshot"
    /\ "snapshot" \in Faults \/ snapshots = MaxSnapshots
    /\ Run
    /\ UNCHANGED <<diskvars, progvars, history>>

\* Mutant: the loop does not stop after its last attempt.
WriteFailed_Forever(enospc) ==
    /\ IF mode = "test" THEN Goto("reset") /\ UNCHANGED attempts
       ELSE IF enospc
       THEN Goto("snapshot") /\ attempts' = attempts - 1
       ELSE Run /\ UNCHANGED attempts
    /\ UNCHANGED <<image, snapshots, mode, failed>>

\* write_image() fails.  In test mode the signature is reset all the same;
\* otherwise user space goes on, or after ENOSPC a smaller image is tried.
WriteFailed(enospc) ==
    /\ IF mode = "test" THEN Goto("reset") /\ UNCHANGED attempts
       ELSE IF enospc /\ attempts > 1
       THEN Goto("snapshot") /\ attempts' = attempts - 1
       ELSE Run /\ UNCHANGED attempts
    /\ UNCHANGED <<image, snapshots, mode, failed>>

-------------------------------------------------------------------------------
(* write_image()                                                            *)

\* save_image()
SaveImage ==
    /\ pc = "save"
    /\ Write("data", image)
    /\ Goto("sync_data")
    /\ UNCHANGED <<progvars, history>>

SaveImageFails ==
    /\ pc = "save"
    /\ \/ "enospc" \in Faults /\ WriteFailed(TRUE)
       \/ "save" \in Faults /\ WriteFailed(FALSE)
    /\ Write("data", 0) \/ UNCHANGED diskvars
    /\ UNCHANGED history

SyncData ==
    /\ pc = "sync_data"
    /\ Fsync
    /\ Goto("head")
    /\ UNCHANGED <<progvars, history>>

WriteHeader ==
    /\ pc = "head"
    /\ Write("head", image)
    /\ Goto("sync_head")
    /\ UNCHANGED <<progvars, history>>

\* Mutant: the header is not synced before the signature.
SyncHeader_Not ==
    /\ pc = "sync_head"
    /\ Goto("mark")
    /\ UNCHANGED <<diskvars, progvars, history>>

SyncHeader ==
    /\ pc = "sync_head"
    /\ Fsync
    /\ Goto("mark")
    /\ UNCHANGED <<progvars, history>>

\* The header cannot be written, or read_or_verify() rejects the image.
VerifyFails ==
    /\ "save" \in Faults
    /\ pc \in {"head", "mark"}
    /\ WriteFailed(FALSE)
    /\ UNCHANGED <<diskvars, history>>

\* Mutant: the signature before the header is complete.
MarkSwap_Early ==
    /\ pc \in {"head", "mark"}
    /\ cache["sig"] = 0
    /\ Write("sig", image)
    /\ Goto("sync_mark")
    /\ UNCHANGED <<progvars, history>>

MarkSwap ==
    /\ pc = "mark"
    /\ cache["sig"] = 0
    /\ Write("sig", image)
    /\ Goto("sync_mark")
    /\ UNCHANGED <<progvars, history>>

\* Mutant: the error of mark_swap() is ignored.
MarkSwapFails_Ignored ==
    /\ pc = "mark"
    /\ cache["sig"] # 0 \/ "mark" \in Faults
    /\ Goto("sync_mark")
    /\ UNCHANGED <<diskvars, progvars, history>>

MarkSwapFails ==
    /\ pc = "mark"
    /\ cache["sig"] # 0 \/ "mark" \in Faults
    /\ WriteFailed(FALSE)
    /\ UNCHANGED <<diskvars, history>>

SyncMark ==
    /\ pc = "sync_mark"
    /\ Fsync
    /\ Goto(IF mode = "test" THEN "reset"
            ELSE IF mode = "both" THEN "s2ram" ELSE "shutdown")
    /\ UNCHANGED <<progvars, history>>

-------------------------------------------------------------------------------
(* After the image: RAM, reset_signature(), power off.                      *)

\* The machine sleeps and wakes up.
SuspendToRam ==
    /\ pc = "s2ram"
    /\ Goto("reset")
    /\ UNCHANGED <<diskvars, progvars, history>>

SuspendToRamFails ==
    /\ "s2ram" \in Faults
    /\ pc = "s2ram"
    /\ Goto("shutdown")
    /\ UNCHANGED <<diskvars, progvars, history>>

\* suspend_shutdown() never returns.
Shutdown ==
    /\ pc = "shutdown"
    /\ Down
    /\ UNCHANGED history

ResetSignature ==
    /\ pc = "reset"
    /\ cache["sig"] # 0
    /\ Write("sig", 0)
    /\ Goto("sync_reset")
    /\ UNCHANGED <<progvars, history>>

\* "There should be valid image on disk.  Powerdown and carry out normal
\* resume": the program never returns.
ResetSignatureFails ==
    /\ pc = "reset"
    /\ cache["sig"] = 0 \/ "suspend_reset" \in Faults
    /\ Fsync
    /\ Goto("hang")
    /\ UNCHANGED <<progvars, history>>

\* Mutant: unfreeze() before the restored signature is synced.
SyncReset_Not ==
    /\ pc = "sync_reset"
    /\ Run
    /\ UNCHANGED <<diskvars, progvars, history>>

SyncReset ==
    /\ pc = "sync_reset"
    /\ Fsync
    /\ Run
    /\ UNCHANGED <<progvars, history>>

\* The user does as told.
Powerdown ==
    /\ pc = "hang"
    /\ Down
    /\ UNCHANGED history

-------------------------------------------------------------------------------
(* The next boot: resume.c                                                  *)

\* open_resume_dev()
OpenResumeDev ==
    /\ pc = "off"
    /\ IF disk["sig"] = 0 THEN Run ELSE Goto("read")
    /\ image' = disk["sig"]
    /\ failed' = FALSE
    /\ UNCHANGED <<diskvars, snapshots, attempts, mode, history>>

\* The device is not there, or cannot be read; the boot goes on.
OpenFails ==
    /\ "open" \in Faults
    /\ pc = "off"
    /\ Run
    /\ left' = IF disk["sig"] # 0 THEN TRUE ELSE left
    /\ UNCHANGED <<diskvars, progvars, fakes>>

\* read_image() and freeze().
ReadImage ==
    /\ pc = "read"
    /\ cache["head"] = image /\ cache["data"] = image
    /\ Goto("resume_reset")
    /\ UNCHANGED <<diskvars, progvars, history>>

ReadImageFails ==
    /\ pc = "read"
    /\ \/ cache["head"] # image \/ cache["data"] # image
       \/ Faults \cap {"read", "resume_freeze"} # {}
    /\ Goto("ask")
    /\ failed' = TRUE
    /\ UNCHANGED <<diskvars, image, snapshots, attempts, mode, history>>

\* With a wrong passphrase or a damaged page the size of a block is anything,
\* and load_buffer() does not look at it: resume dies and the boot goes on.
ReadImageCrashes ==
    /\ "crash" \in Faults
    /\ pc = "read"
    /\ Run
    /\ left' = TRUE
    /\ UNCHANGED <<diskvars, progvars, fakes>>

\* reboot_question(): try again,
RebootQuestionNo ==
    /\ pc = "ask"
    /\ Down
    /\ UNCHANGED history

\* or boot and lose the saved state.
RebootQuestionYes ==
    /\ pc = "ask"
    /\ Goto("resume_reset")
    /\ UNCHANGED <<diskvars, progvars, history>>

\* What follows reset_signature(), whether it worked or not.
AfterReset == IF failed THEN Run ELSE Goto("restore")

ResumeResetSignature ==
    /\ pc = "resume_reset"
    /\ Write("sig", 0)
    /\ Goto("resume_sync")
    /\ UNCHANGED <<progvars, history>>

ResumeResetFails ==
    /\ "resume_reset" \in Faults
    /\ pc = "resume_reset"
    /\ AfterReset
    /\ left' = TRUE
    /\ UNCHANGED <<diskvars, progvars, fakes>>

\* Mutant: the restored signature stays in the boot kernel's page cache.
ResumeSync_Not ==
    /\ pc = "resume_sync"
    /\ AfterReset
    /\ UNCHANGED <<diskvars, progvars, history>>

ResumeSync ==
    /\ pc = "resume_sync"
    /\ Fsync
    /\ AfterReset
    /\ UNCHANGED <<progvars, history>>

\* The saved system continues, with the swap header it knew before mark_swap():
\* its s2disk sees in_suspend = 0 and returns to user space.
AtomicRestore ==
    /\ pc = "restore"
    /\ Run
    /\ cache' = [disk EXCEPT !["sig"] = 0]
    /\ dirty' = {}
    /\ UNCHANGED <<disk, progvars, history>>

AtomicRestoreFails ==
    /\ "restore" \in Faults
    /\ pc = "restore"
    /\ Run
    /\ UNCHANGED <<diskvars, progvars, history>>

-------------------------------------------------------------------------------
Init ==
    /\ pc = "run"
    /\ cache = [b \in Blocks |-> 0]
    /\ disk = cache
    /\ dirty = {}
    /\ image = 0 /\ snapshots = 0 /\ fs = 0
    /\ attempts = 0
    /\ mode = "disk" /\ failed = FALSE
    /\ fakes = {} /\ left = FALSE

KernelNext == Writeback \/ PowerLoss \/ SwapOut

SuspendNext ==
    \/ SuspendSystem \/ Freeze \/ FreezeFails \/ Snapshot \/ SnapshotFails

WriteNext ==
    \/ SaveImage \/ SaveImageFails \/ SyncData \/ WriteHeader \/ SyncHeader
    \/ VerifyFails \/ MarkSwap \/ MarkSwapFails \/ SyncMark

ImageNext ==
    \/ SuspendToRam \/ SuspendToRamFails \/ Shutdown
    \/ ResetSignature \/ ResetSignatureFails \/ SyncReset \/ Powerdown

ResumeNext ==
    \/ OpenResumeDev \/ OpenFails \/ ReadImage \/ ReadImageFails
    \/ ReadImageCrashes
    \/ RebootQuestionNo \/ RebootQuestionYes
    \/ ResumeResetSignature \/ ResumeResetFails \/ ResumeSync
    \/ AtomicRestore \/ AtomicRestoreFails

Next == KernelNext \/ SuspendNext \/ WriteNext \/ ImageNext \/ ResumeNext

Spec == Init /\ [][Next]_vars

-------------------------------------------------------------------------------
(* Properties                                                               *)

PcOK ==
    pc \in {"run", "freeze", "snapshot", "save", "sync_data", "head",
           "sync_head", "mark", "sync_mark", "s2ram", "shutdown", "reset",
           "sync_reset", "hang", "off", "read", "ask", "resume_reset",
           "resume_sync", "restore"}

DiskOK ==
    /\ cache \in [Blocks -> Images]
    /\ disk \in [Blocks -> Images]
    /\ dirty \subseteq Blocks

CountOK ==
    /\ snapshots \in 0..MaxSnapshots
    /\ image \in Images
    /\ fs \in Images
    /\ attempts \in 0..MaxAttempts

FlagOK ==
    /\ mode \in AllModes
    /\ failed \in BOOLEAN /\ left \in BOOLEAN
    /\ fakes \subseteq Images

\* Every variable has its type: an image is the number of a snapshot, and the
\* loop of suspend_system() stops after its last attempt.
TypeOK == PcOK /\ DiskOK /\ CountOK /\ FlagOK

\* Whenever the power goes, a signature on the medium has a whole image under
\* it: write_image() syncs the pages and the header before mark_swap(), and no
\* page of the image is given back while the signature stands.  (Only resume
\* may break it, when it cannot restore the signature and goes on: left.)
SigImpliesImage ==
    ~left /\ disk["sig"] # 0 => /\ disk["data"] = disk["sig"]
                                /\ disk["head"] = disk["sig"]

\* User space never runs while the medium says there is an image: whether the
\* suspend failed, went to RAM and back, or a resume failed or succeeded, the
\* swap's signature is restored and synced before unfreeze().
NoImageWhileRunning ==
    ~left /\ pc = "run" => disk["sig"] = 0 /\ cache["sig"] = 0

\* Only a snapshot that the filesystems have not moved on from is restored:
\* no order of failures, retries, sleeps and crashes brings back an older one,
\* or the same one twice.  (A test image is none of these.)
NoStaleResume ==
    ~left /\ pc = "restore" /\ image \notin fakes => fs = image

\* The medium gets a signature only when the image it stands for is there.
MarkedLast ==
    [][disk'["sig"] \notin {0, disk["sig"]} =>
           /\ disk["data"] = disk'["sig"]
           /\ disk["head"] = disk'["sig"]]_vars

\* "Impossible? We wrote signature and it is not there?!" (reset_signature()
\* of suspend.c): after a sleep in RAM there is one to reset, whatever failed
\* and was tried again before.  (In test mode reset_signature() is called after
\* a failed write_image() too; then it finds none and never returns.)
ResetFindsSignature ==
    pc = "reset" /\ mode # "test" => cache["sig"] # 0
===============================================================================
