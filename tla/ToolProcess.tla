---------------------------- MODULE ToolProcess ----------------------------
(***************************************************************************)
(* What the terminal code (Terminal) and the video quirk code (Quirks)     *)
(* share when they run inside one of the programs s2ram, s2disk or s2both: *)
(* the place the program is at and what the kernel grants the process.     *)
(* A function is entered by setting pc to the name of its first step and   *)
(* returns by setting pc to the name of its outcome, where the caller,     *)
(* module Session, goes on.                                                *)
(***************************************************************************)
EXTENDS Naturals, FiniteSets

VARIABLES
  pc,       \* the next step of the program
  program,  \* which of the three programs runs
  frozen,   \* user space is frozen (SNAPSHOT_FREEZE), this process apart
  nofile,   \* RLIMIT_NOFILE is zero: no descriptor can be opened any more
  died,     \* the process left by exit(1) in the middle of a library call
  faults    \* history: the undo calls the kernel refused, for the properties

processVars == <<pc, program, frozen, nofile, died, faults>>

Programs == {"s2ram", "s2disk", "s2both"}

(* The program is over: it returned, it left by exit(1), or the machine is *)
(* off with the image on disk.                                             *)
Over == pc \in {"exited", "off"}

(* main() reached its return statement. *)
Returned == pc = "exited" /\ ~died

(* vbetool_init() calls exit(1): the kernel closes the descriptors of the  *)
(* process, and closing /dev/snapshot thaws user space.                    *)
Exit1 ==
  /\ pc' = "exited"
  /\ died' = TRUE
  /\ frozen' = FALSE
  /\ UNCHANGED <<program, nofile, faults>>

Goto(label) ==
  /\ pc' = label
  /\ UNCHANGED <<program, frozen, nofile, died, faults>>

(* An undo call failed; the program goes on at label. *)
Fault(call, label) ==
  /\ pc' = label
  /\ faults' = faults \union {call}
  /\ UNCHANGED <<program, frozen, nofile, died>>
=============================================================================
