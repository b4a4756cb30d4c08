------------------------------ MODULE Terminal ------------------------------
(***************************************************************************)
(* The virtual terminals as the programs use them: prepare_console(),      *)
(* restore_console(), lock_vt() and unlock_vt() of suspend.c, fgconsole()  *)
(* and chvt() of vt.c, and the user, who may press Alt-Fn at any moment    *)
(* the kernel allows a switch.                                             *)
(***************************************************************************)
EXTENDS ToolProcess

CONSTANTS
  VTs,          \* numbers of the virtual terminals, all positive
  FreeVTs,      \* the ones nobody has open, for VT_OPENQRY
  XVT,          \* the terminal the X server drives
  MaxSwitches   \* bound: how often the user switches terminals

ASSUME TerminalAssumption ==
  /\ VTs \subseteq Nat \ {0}
  /\ 1 \in VTs
  /\ FreeVTs \subseteq VTs \ {1, XVT}
  /\ XVT \in VTs \ {1}
  /\ MaxSwitches \in Nat

VARIABLES
  active,             \* the terminal on the screen
  vt_mode,            \* VT -> who decides about leaving it
  kmsg,               \* terminal kernel messages are redirected to, 0: none
  found_kmsg,         \* history: kmsg before the program started
  switches,           \* how often the user has switched
  orig_vc,            \* prepare_console's *orig_vc, s2ram's active_console
  vt,                 \* the terminal prepare_console chose
  vt_open,            \* vt_fd >= 0
  set_kmsg_redirect,  \* the static of the same name
  vfd,                \* the terminal lock_vt opened, 0: none
  orig_vtm            \* its mode before

terminalVars == <<active, vt_mode, kmsg, found_kmsg, switches, orig_vc, vt, vt_open,
                  set_kmsg_redirect, vfd, orig_vtm>>

(* VT_AUTO; VT_PROCESS with the X server handling the request; VT_PROCESS  *)
(* with this program handling it, which ignores it (SIGUSR1 is SIG_IGN     *)
(* from lock_vt() on).                                                     *)
Modes == {"auto", "server", "ignored"}

UsualMode == [v \in VTs |-> IF v = XVT THEN "server" ELSE "auto"]

TerminalTypeOK ==
  /\ active \in VTs
  /\ vt_mode \in [VTs -> Modes]
  /\ kmsg \in VTs \union {0} /\ found_kmsg \in VTs \union {0}
  /\ switches \in 0..MaxSwitches
  /\ orig_vc \in VTs \union {0}
  /\ vt \in VTs \union {0}
  /\ vt_open \in BOOLEAN /\ set_kmsg_redirect \in BOOLEAN
  /\ vfd \in VTs \union {0}
  /\ orig_vtm \in Modes

TerminalInit ==
  /\ active \in VTs \ FreeVTs
  /\ vt_mode = UsualMode
  /\ kmsg \in {0, 1} /\ found_kmsg = kmsg
  /\ switches = 0
  /\ orig_vc = 0 /\ vt = 0 /\ vt_open = FALSE
  /\ set_kmsg_redirect = FALSE
  /\ vfd = 0 /\ orig_vtm = "auto"

(* The kernel lets the screen leave terminal v: the X server can answer    *)
(* only while user space runs.                                             *)
CanLeave(v) ==
  \/ vt_mode[v] = "auto"
  \/ vt_mode[v] = "server" /\ ~frozen

(* The screen goes to v, at once if v is on it already. *)
CanShow(v) == active = v \/ CanLeave(active)

(* The user changes to another terminal in use. *)
SwitchVT ==
  /\ ~Over
  /\ switches < MaxSwitches
  /\ CanLeave(active)
  /\ \E v \in ((VTs \ FreeVTs) \union {vt}) \ {0, active} : active' = v
  /\ switches' = switches + 1
  /\ UNCHANGED processVars
  /\ UNCHANGED <<vt_mode, kmsg, orig_vc, vt, vt_open, set_kmsg_redirect,
                 vfd, orig_vtm, found_kmsg>>

-----------------------------------------------------------------------------
(* prepare_console() up to the open of the chosen terminal.  -ENOTTY       *)
(* (/dev/console is no virtual terminal) is told apart by the caller; any  *)
(* other failure is the same to it.  Kernel messages may be redirected     *)
(* already: their terminal is taken then.  known is whether the kernel     *)
(* answers TIOCL_GETKMSGREDIRECT: if not, tiocl[0] keeps the number of the *)
(* request, which is not zero, and nothing will be redirected.             *)
prepare_console ==
  /\ pc = "prepare_console"
  /\ \/ Goto("console_enotty") /\ UNCHANGED terminalVars
     \/ Goto("console_failed") /\ UNCHANGED terminalVars
     \/ /\ Goto("activate_vt")
        /\ orig_vc' = active
        /\ \E known \in BOOLEAN :
             /\ \/ known /\ kmsg > 0 /\ vt' = kmsg
                \/ ~(known /\ kmsg > 0) /\ vt' \in FreeVTs
             /\ set_kmsg_redirect' = (known /\ kmsg = 0)
        /\ UNCHANGED <<active, vt_mode, kmsg, switches, vt_open, vfd,
                       orig_vtm, found_kmsg>>

(* VT_ACTIVATE and VT_WAITACTIVE of the chosen terminal, which returns     *)
(* when the screen shows it.  A wait that fails (a signal) is counted as   *)
(* failing at that moment, the switch being made or not.                   *)
activate_vt ==
  /\ pc = "activate_vt"
  /\ \/ Fault("activate", "console_failed") /\ UNCHANGED active
     \/ CanShow(vt) /\ Fault("activate", "console_failed") /\ active' = vt
     \/ CanShow(vt) /\ Goto("redirect_kmsg") /\ active' = vt
  /\ UNCHANGED <<vt_mode, kmsg, switches, orig_vc, vt, vt_open,
                 set_kmsg_redirect, vfd, orig_vtm, found_kmsg>>

(* The rest of prepare_console(): the standard streams, the redirection of *)
(* kernel messages unless there was one, and the descriptor returned.      *)
redirect_kmsg ==
  /\ pc = "redirect_kmsg"
  /\ Goto("console_ready")
  /\ vt_open' = TRUE
  /\ \/ ~set_kmsg_redirect /\ UNCHANGED <<kmsg, set_kmsg_redirect>>
     \/ set_kmsg_redirect /\ kmsg' = vt /\ UNCHANGED set_kmsg_redirect
     \/ set_kmsg_redirect /\ set_kmsg_redirect' = FALSE /\ UNCHANGED kmsg
  /\ UNCHANGED <<active, vt_mode, switches, orig_vc, vt, vfd, orig_vtm, found_kmsg>>

(* lock_vt(): the terminal on the screen NOW, which the user may have      *)
(* changed since activate_vt, is the one to be locked.                     *)
lock_vt ==
  /\ pc = "lock_vt"
  /\ \/ Goto("lock_failed") /\ UNCHANGED vfd
     \/ Goto("lock_mode") /\ vfd' = active
  /\ UNCHANGED <<active, vt_mode, kmsg, switches, orig_vc, vt, vt_open,
                 set_kmsg_redirect, orig_vtm, found_kmsg>>

(* The rest of lock_vt(): the mode of that terminal is noted and its       *)
(* switch requests are ignored, whether it is still on the screen or not.  *)
lock_mode ==
  /\ pc = "lock_mode"
  /\ \/ /\ Goto("lock_failed")
        /\ orig_vtm' \in {orig_vtm, vt_mode[vfd]}
        /\ UNCHANGED vt_mode
     \/ /\ Goto("vt_locked")
        /\ orig_vtm' = vt_mode[vfd]
        /\ vt_mode' = [vt_mode EXCEPT ![vfd] = "ignored"]
  /\ UNCHANGED <<active, kmsg, switches, orig_vc, vt, vt_open,
                 set_kmsg_redirect, vfd, found_kmsg>>

(* What VT_SETMODE makes of a mode that VT_GETMODE returned: with          *)
(* VT_PROCESS the caller is the one who is asked from then on, whoever it  *)
(* was before, and this program ignores SIGUSR1, the signal the X server   *)
(* asks for.                                                               *)
SetByCaller(mode) == IF mode = "auto" THEN "auto" ELSE "ignored"

\* Mutant: unlocks the terminal the program opened, not the one it locked.
unlock_vt_Own ==
  /\ pc = "unlock_vt"
  /\ Goto("restore_console")
  /\ vt_mode' = IF vt_open
                THEN [vt_mode EXCEPT ![vt] = SetByCaller(orig_vtm)]
                ELSE vt_mode
  /\ UNCHANGED <<active, kmsg, switches, orig_vc, vt, vt_open,
                 set_kmsg_redirect, vfd, orig_vtm, found_kmsg>>

(* unlock_vt(): VT_SETMODE with the mode VT_GETMODE returned.  The X       *)
(* server does not get its terminal back.                                  *)
unlock_vt ==
  /\ pc = "unlock_vt"
  /\ Goto("restore_console")
  /\ vt_mode' = IF vt_open
                THEN [vt_mode EXCEPT ![vfd] = SetByCaller(orig_vtm)]
                ELSE vt_mode
  /\ UNCHANGED <<active, kmsg, switches, orig_vc, vt, vt_open,
                 set_kmsg_redirect, vfd, orig_vtm, found_kmsg>>

(* restore_console() up to VT_ACTIVATE, whose failure skips the rest. *)
restore_console ==
  /\ pc = "restore_console"
  /\ \/ ~vt_open /\ Goto("console_restored") /\ UNCHANGED vt_open
     \/ /\ vt_open /\ Fault("activate", "console_restored")
        /\ vt_open' = FALSE
     \/ vt_open /\ Goto("reset_kmsg") /\ UNCHANGED vt_open
  /\ UNCHANGED <<active, vt_mode, kmsg, switches, orig_vc, vt,
                 set_kmsg_redirect, vfd, orig_vtm, found_kmsg>>

\* Mutant: the redirection is ended if there was one before.
reset_kmsg_Inverted ==
  /\ pc = "reset_kmsg"
  /\ CanShow(orig_vc)
  /\ vt_open' = FALSE
  /\ \/ Fault("activate", "console_restored") /\ UNCHANGED active
     \/ Goto("console_restored") /\ active' = orig_vc
  /\ kmsg' = IF set_kmsg_redirect THEN kmsg ELSE 0
  /\ UNCHANGED <<vt_mode, switches, orig_vc, vt, set_kmsg_redirect, vfd,
                 orig_vtm, found_kmsg>>

(* VT_WAITACTIVE, the end of the redirection if this program began it,     *)
(* whether the wait succeeded or not, and the close of the descriptor.     *)
reset_kmsg ==
  /\ pc = "reset_kmsg"
  /\ CanShow(orig_vc)
  /\ vt_open' = FALSE
  /\ \/ Fault("activate", "console_restored") /\ UNCHANGED active
     \/ Goto("console_restored") /\ active' = orig_vc
  /\ kmsg' = IF set_kmsg_redirect THEN 0 ELSE kmsg
  /\ UNCHANGED <<vt_mode, switches, orig_vc, vt, set_kmsg_redirect, vfd,
                 orig_vtm, found_kmsg>>

-----------------------------------------------------------------------------
(* chvt(num) polls the active terminal, asking for num between two looks,  *)
(* and gives up after USER_WAIT_MAX_ITERATIONS looks; a switch asked for   *)
(* may still be made after that.                                           *)
chvt(num, label) ==
  \/ CanShow(num) /\ Goto(label) /\ active' = num
  \/ Fault("activate", label) /\ UNCHANGED active
  \/ CanShow(num) /\ Fault("activate", label) /\ active' = num

(* s2ram notes the terminal it is on and changes to the first one.  It     *)
(* goes on if it cannot.                                                   *)
switch_to_vt1 ==
  /\ pc = "switch_to_vt1"
  /\ \/ /\ orig_vc' = active
        /\ chvt(1, "s2ram_hacks")
     \/ /\ Fault("activate", "s2ram_hacks")
        /\ UNCHANGED <<orig_vc, active>>
  /\ UNCHANGED <<vt_mode, kmsg, switches, vt, vt_open, set_kmsg_redirect,
                 vfd, orig_vtm, found_kmsg>>

\* Mutant: changes back without asking whether it knows where to.
switch_back_Unchecked ==
  /\ pc = "switch_back"
  /\ chvt(orig_vc, "exited")
  /\ UNCHANGED <<vt_mode, kmsg, switches, orig_vc, vt, vt_open,
                 set_kmsg_redirect, vfd, orig_vtm, found_kmsg>>

(* ... and changes back, if it knows where to. *)
switch_back ==
  /\ pc = "switch_back"
  /\ \/ orig_vc > 0 /\ chvt(orig_vc, "exited")
     \/ orig_vc = 0 /\ Goto("exited") /\ UNCHANGED active
  /\ UNCHANGED <<vt_mode, kmsg, switches, orig_vc, vt, vt_open,
                 set_kmsg_redirect, vfd, orig_vtm, found_kmsg>>

TerminalNext ==
  \/ prepare_console \/ activate_vt \/ redirect_kmsg
  \/ lock_vt \/ lock_mode \/ unlock_vt
  \/ restore_console \/ reset_kmsg
  \/ switch_to_vt1 \/ switch_back
=============================================================================
