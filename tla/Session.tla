------------------------------ MODULE Session -------------------------------
(***************************************************************************)
(* One run of s2disk or s2both (main() of suspend.c) or of s2ram (main()   *)
(* of s2ram-main.c) from its first step to its last: what it changes in    *)
(* the running system so that the machine can be put to sleep, and what it *)
(* puts back on each of the ways out.  The terminal and the video quirks   *)
(* are modules of their own; suspend_system(), the subject of Hibernate,   *)
(* is taken here by its outcomes.                                          *)
(***************************************************************************)
EXTENDS Terminal, Quirks

VARIABLES
  mounts,           \* the file systems this program has mounted
  cwd,              \* the working directory is on the tmpfs
  fds,              \* the descriptors and streams open
  s2ram,            \* suspend.c's static: sleep in RAM once the image is saved
  s2ram_kms,        \* the same, for a kernel that restores the video itself
  loglevel,         \* the console loglevel: the user's or the program's
  orig_loglevel,    \* get_kernel_console_loglevel() returned it
  swappiness,       \* likewise
  orig_swappiness

resourceVars == <<mounts, cwd, fds>>
modeVars == <<s2ram, s2ram_kms>>
settingVars == <<loglevel, orig_loglevel, swappiness, orig_swappiness>>
mainVars == <<resourceVars, modeVars, settingVars>>
vars == <<processVars, terminalVars, quirkVars, mainVars>>

Setting == {"user", "tool"}
Read == {"unread", "user", "tool"}

(* Each variable of the session has a value of its kind. *)
TypeOK ==
  /\ program \in Programs
  /\ frozen \in BOOLEAN /\ nofile \in BOOLEAN /\ died \in BOOLEAN
  /\ faults \subseteq {"activate", "chdir"}
  /\ TerminalTypeOK
  /\ QuirksTypeOK
  /\ mounts \subseteq {"tmpfs", "proc"} /\ cwd \in BOOLEAN
  /\ fds \subseteq {"resume", "snapshot", "printk", "swappiness"}
  /\ s2ram \in BOOLEAN /\ s2ram_kms \in BOOLEAN
  /\ loglevel \in Setting /\ swappiness \in Setting
  /\ orig_loglevel \in Read /\ orig_swappiness \in Read

Init ==
  /\ program \in Programs
  /\ pc = IF program = "s2ram" THEN "s2ram_main" ELSE "get_config"
  /\ frozen = FALSE /\ nofile = FALSE /\ died = FALSE /\ faults = {}
  /\ TerminalInit
  /\ QuirksInit
  /\ mounts = {} /\ cwd = FALSE /\ fds = {}
  /\ s2ram = FALSE /\ s2ram_kms = FALSE
  /\ loglevel = "user" /\ swappiness = "user"
  /\ orig_loglevel = "unread" /\ orig_swappiness = "unread"

-----------------------------------------------------------------------------
(* main() of s2ram after the options.  s2ram_check_kms() finds a KMS       *)
(* driver, unless the user rules that out: no quirks then.  Otherwise the  *)
(* configuration file or the whitelist must allow the machine.             *)
s2ram_main ==
  /\ pc = "s2ram_main"
  /\ \/ Goto("s2ram_kms_do") /\ UNCHANGED quirkVars
     \/ /\ get_s2ram_config(Goto("switch_to_vt1"), Goto("exited"))
        /\ UNCHANGED <<savedVars, lrmi, hardwareVars>>
  /\ UNCHANGED <<terminalVars, mainVars>>

(* The step after s2ram_hacks() and after s2ram_resume() in s2ram. *)
s2ram_called ==
  /\ program = "s2ram"
  /\ \/ pc = "hacks_done" /\ Goto("s2ram_do")
     \/ pc = "hacks_failed" /\ Goto("switch_back")
     \/ pc = "quirks_resumed" /\ Goto("switch_back")
  /\ UNCHANGED <<terminalVars, quirkVars, mainVars>>

-----------------------------------------------------------------------------
(* get_config() of suspend.c: a configuration it cannot use ends the       *)
(* program; s2both asks for KMS and then for the quirks.                   *)
get_config ==
  /\ pc = "get_config"
  /\ \/ Goto("exited") /\ UNCHANGED <<quirkVars, modeVars>>
     \/ /\ program = "s2disk"
        /\ Goto("setup") /\ UNCHANGED <<quirkVars, modeVars>>
     \/ /\ program = "s2both"
        /\ Goto("setup")
        /\ s2ram_kms' = TRUE
        /\ UNCHANGED <<quirkVars, s2ram>>
     \/ /\ program = "s2both"
        /\ s2ram_is_supported(Goto("setup") /\ s2ram' = TRUE,
                              Goto("setup") /\ s2ram' = FALSE,
                              Goto("exited") /\ s2ram' = FALSE)
        /\ UNCHANGED <<savedVars, lrmi, hardwareVars, s2ram_kms>>
  /\ UNCHANGED <<terminalVars, resourceVars, settingVars>>

(* The memory pool, the key, mlockall(), the test image file and the       *)
(* directory to mount on: whatever fails here is returned at once.         *)
setup ==
  /\ pc = "setup"
  /\ Goto("exited") \/ Goto("mount")
  /\ UNCHANGED <<terminalVars, quirkVars, mainVars>>

mount ==
  /\ pc = "mount"
  /\ \/ Goto("exited") /\ UNCHANGED mounts
     \/ Goto("open_resume") /\ mounts' = mounts \union {"tmpfs"}
  /\ UNCHANGED <<terminalVars, quirkVars, modeVars, settingVars, cwd, fds>>

(* The resume device is checked, and opened by a node on the tmpfs, which  *)
(* the program makes its working directory.                                *)
open_resume ==
  /\ pc = "open_resume"
  /\ \/ Goto("umount") /\ UNCHANGED <<cwd, fds>>
     \/ Goto("umount") /\ cwd' = TRUE /\ UNCHANGED fds
     \/ Goto("open_snapshot") /\ cwd' = TRUE /\ fds' = fds \union {"resume"}
  /\ UNCHANGED <<terminalVars, quirkVars, modeVars, settingVars, mounts>>

open_snapshot ==
  /\ pc = "open_snapshot"
  /\ \/ Goto("close_resume") /\ UNCHANGED fds
     \/ Goto("set_swap_file") /\ fds' = fds \union {"snapshot"}
  /\ UNCHANGED <<terminalVars, quirkVars, modeVars, settingVars, mounts, cwd>>
\* Mutant: a goto to the wrong label.
set_swap_file_WrongLabel ==
  /\ pc = "set_swap_file"
  /\ Goto("umount") \/ Goto("prepare_console")
  /\ UNCHANGED <<terminalVars, quirkVars, mainVars>>

set_swap_file ==
  /\ pc = "set_swap_file"
  /\ Goto("close_snapshot") \/ Goto("prepare_console")
  /\ UNCHANGED <<terminalVars, quirkVars, mainVars>>

(* Where main() goes on after prepare_console(), lock_vt(), s2ram_hacks()  *)
(* and restore_console().  Without a terminal of its own it does not lock  *)
(* one either.                                                             *)
console_called ==
  /\ program # "s2ram"
  /\ \/ pc = "console_enotty" /\ Goto("quirks")
     \/ pc = "console_failed" /\ Goto("close_snapshot")
     \/ pc = "console_ready" /\ Goto("lock_vt")
     \/ pc = "lock_failed" /\ Goto("restore_console")
     \/ pc = "vt_locked" /\ Goto("quirks")
     \/ pc = "quirks" /\ s2ram /\ Goto("s2ram_hacks")
     \/ pc = "quirks" /\ ~s2ram /\ Goto("set_loglevel")
     \/ pc = "console_restored" /\ Goto("close_snapshot")
  /\ UNCHANGED <<terminalVars, quirkVars, mainVars>>

\* Mutant: the result of s2ram_hacks() is not looked at.
hacks_called_Unchecked ==
  /\ program # "s2ram"
  /\ pc \in {"hacks_done", "hacks_failed"}
  /\ Goto("set_loglevel")
  /\ UNCHANGED <<terminalVars, quirkVars, mainVars>>

(* Without its quirks the machine is not suspended to RAM. *)
hacks_called ==
  /\ program # "s2ram"
  /\ pc \in {"hacks_done", "hacks_failed"}
  /\ s2ram' = (pc = "hacks_done")
  /\ Goto("set_loglevel")
  /\ UNCHANGED <<terminalVars, quirkVars, resourceVars, settingVars,
                 s2ram_kms>>

-----------------------------------------------------------------------------
(* open_printk() mounts /proc if it is missing, perhaps for nothing.  The  *)
(* level is changed if the file can be opened, even if the old one could   *)
(* not be read from it.                                                    *)
set_loglevel ==
  /\ pc = "set_loglevel"
  /\ Goto("set_swappiness")
  /\ mounts' \in {mounts, mounts \union {"proc"}}
  /\ \/ UNCHANGED <<fds, loglevel, orig_loglevel>>
     \/ /\ fds' = fds \union {"printk"}
        /\ orig_loglevel' \in {"unread", loglevel}
        /\ loglevel' = "tool"
  /\ UNCHANGED <<terminalVars, quirkVars, modeVars, cwd, swappiness,
                 orig_swappiness>>

set_swappiness ==
  /\ pc = "set_swappiness"
  /\ Goto("set_limits")
  /\ \/ UNCHANGED <<fds, swappiness, orig_swappiness>>
     \/ /\ fds' = fds \union {"swappiness"}
        /\ orig_swappiness' \in {"unread", swappiness}
        /\ swappiness' = "tool"
  /\ UNCHANGED <<terminalVars, quirkVars, modeVars, mounts, cwd, loglevel,
                 orig_loglevel>>

(* The three limits are set to zero, for good. *)
set_limits ==
  /\ pc = "set_limits"
  /\ pc' = "suspend_system"
  /\ nofile' = TRUE
  /\ UNCHANGED <<program, frozen, died, faults>>
  /\ UNCHANGED <<terminalVars, quirkVars, mainVars>>

(* suspend_system() up to the image: user space cannot be frozen, or the   *)
(* image is not made or not written, or the machine comes back from it.    *)
suspend_system ==
  /\ pc = "suspend_system"
  /\ \/ Goto("restore_settings")
     \/ /\ pc' = "write_image" /\ frozen' = TRUE
        /\ UNCHANGED <<program, nofile, died, faults>>
  /\ UNCHANGED <<terminalVars, quirkVars, mainVars>>

write_image ==
  /\ pc = "write_image"
  /\ \/ Goto("unfreeze")
     \/ Goto(IF s2ram \/ s2ram_kms THEN "suspend_to_ram" ELSE "off")
  /\ UNCHANGED <<terminalVars, quirkVars, mainVars>>

\* Mutant: the quirks are undone for KMS only.
suspend_to_ram_Inverted ==
  /\ pc = "suspend_to_ram"
  /\ \/ Goto("off") /\ UNCHANGED quirkVars
     \/ /\ Goto(IF s2ram_kms THEN "restore_vga_pci" ELSE "unfreeze")
        /\ SleepAndWake
  /\ UNCHANGED <<terminalVars, mainVars>>

(* The machine that cannot sleep with the image on disk is switched off.   *)
suspend_to_ram ==
  /\ pc = "suspend_to_ram"
  /\ \/ Goto("off") /\ UNCHANGED quirkVars
     \/ /\ Goto(IF s2ram_kms THEN "unfreeze" ELSE "restore_vga_pci")
        /\ SleepAndWake
  /\ UNCHANGED <<terminalVars, mainVars>>

(* A later boot restores the image: the snapshotted program finds          *)
(* in_suspend = 0 and leaves the loop.  Its own state and the kernel's are *)
(* those of the snapshot; the card has been started by the BIOS.           *)
resumed ==
  /\ pc = "off"
  /\ Goto("unfreeze")
  /\ light' = TRUE /\ posted' = TRUE /\ lost' = {}
  /\ UNCHANGED <<choiceVars, savedVars, lrmi, fbcon, slept>>
  /\ UNCHANGED <<terminalVars, mainVars>>

unfreeze ==
  /\ program # "s2ram"
  /\ pc \in {"unfreeze", "quirks_resumed"}
  /\ pc' = "restore_settings"
  /\ frozen' = FALSE
  /\ UNCHANGED <<program, nofile, died, faults>>
  /\ UNCHANGED <<terminalVars, quirkVars, mainVars>>

-----------------------------------------------------------------------------
\* Mutant: the swappiness file is opened again to put the value back.
restore_settings_Reopen ==
  /\ pc = "restore_settings"
  /\ Goto("unlock_vt")
  /\ loglevel' = IF "printk" \in fds /\ orig_loglevel # "unread"
                 THEN orig_loglevel ELSE loglevel
  /\ swappiness' = IF ~nofile /\ orig_swappiness # "unread"
                   THEN orig_swappiness ELSE swappiness
  /\ mounts' = mounts \ {"proc"}
  /\ fds' = fds \ {"printk", "swappiness"}
  /\ UNCHANGED <<terminalVars, quirkVars, modeVars, cwd, orig_loglevel,
                 orig_swappiness>>


(* The way out.  A setting is put back if it was read.  close_printk()     *)
(* comes first: a /proc that was mounted stays as long as the swappiness   *)
(* stream is open on it.                                                   *)
restore_settings ==
  /\ pc = "restore_settings"
  /\ Goto("unlock_vt")
  /\ loglevel' = IF "printk" \in fds /\ orig_loglevel # "unread"
                 THEN orig_loglevel ELSE loglevel
  /\ swappiness' = IF "swappiness" \in fds /\ orig_swappiness # "unread"
                   THEN orig_swappiness ELSE swappiness
  /\ mounts' = IF "swappiness" \in fds THEN mounts ELSE mounts \ {"proc"}
  /\ fds' = fds \ {"printk", "swappiness"}
  /\ UNCHANGED <<terminalVars, quirkVars, modeVars, cwd, orig_loglevel,
                 orig_swappiness>>

close_snapshot ==
  /\ pc = "close_snapshot"
  /\ Goto("close_resume")
  /\ fds' = fds \ {"snapshot"}
  /\ UNCHANGED <<terminalVars, quirkVars, modeVars, settingVars, mounts, cwd>>

close_resume ==
  /\ pc = "close_resume"
  /\ Goto("umount")
  /\ fds' = fds \ {"resume"}
  /\ UNCHANGED <<terminalVars, quirkVars, modeVars, settingVars, mounts, cwd>>

(* The tmpfs is busy while the process is in it or has the node open; the  *)
(* program ends whether it could be unmounted or not.                      *)
umount ==
  /\ pc = "umount"
  /\ \/ Fault("chdir", "exited") /\ UNCHANGED <<cwd, mounts>>
     \/ /\ Goto("exited")
        /\ cwd' = FALSE
        /\ mounts' = IF "resume" \in fds THEN mounts ELSE mounts \ {"tmpfs"}
  /\ UNCHANGED <<terminalVars, quirkVars, modeVars, settingVars, fds>>

-----------------------------------------------------------------------------
MainNext ==
  \/ s2ram_main \/ s2ram_called
  \/ get_config \/ setup \/ mount \/ open_resume \/ open_snapshot
  \/ set_swap_file \/ console_called \/ hacks_called
  \/ set_loglevel \/ set_swappiness \/ set_limits
  \/ suspend_system \/ write_image \/ suspend_to_ram \/ unfreeze
  \/ restore_settings \/ close_snapshot \/ close_resume \/ umount

ProgramNext ==
  \/ MainNext
  \/ TerminalNext /\ UNCHANGED <<quirkVars, mainVars>>
  \/ QuirksNext /\ UNCHANGED <<terminalVars, mainVars>>

Next ==
  \/ ProgramNext
  \/ resumed
  \/ SwitchVT /\ UNCHANGED <<quirkVars, mainVars>>

(* The program is scheduled as long as it can take a step; the user need   *)
(* not do anything, nor start the machine again.                           *)
Spec == Init /\ [][Next]_vars /\ WF_vars(ProgramNext)

-----------------------------------------------------------------------------
(* Whichever step of main() fails, the tmpfs is not left mounted over the  *)
(* fixed path of this program, where the next run would mount another:     *)
(* each goto of the way out lands where all that keeps it busy is closed.  *)
MountReleased ==
  Returned /\ "chdir" \notin faults => "tmpfs" \notin mounts

(* The X server's terminal, locked because the user had changed to it, is  *)
(* not the server's any more: unlock_vt() has made it this program's.      *)
ServerLostVT ==
  /\ switches > 0 /\ vfd = XVT
  /\ vt_mode = [UsualMode EXCEPT ![XVT] = "ignored"]

(* No terminal is left ignoring the user's switch requests, whichever was  *)
(* on the screen when lock_vt() locked one: unlock_vt() gives the mode     *)
(* back to the terminal it was taken from.  The one exception is the X     *)
(* server's, and only if the user changed to it before lock_vt().          *)
NoTerminalLeftLocked == Returned => vt_mode = UsualMode \/ ServerLostVT

(* If the kernel refuses no switch and the user makes none, the terminal   *)
(* on the screen at the end is the one of the beginning, and a redirection *)
(* of kernel messages this program began has ended, one it found has not.  *)
ConsoleRestored ==
  Returned /\ "activate" \notin faults =>
    /\ switches = 0 /\ orig_vc # 0 => active = orig_vc
    /\ kmsg = found_kmsg

(* The loglevel and the swappiness of the user come back, even though they *)
(* are changed through streams opened before the limit on descriptors is   *)
(* set to zero and put back after; only a value that could not be read is  *)
(* lost.                                                                   *)
SettingsRestored ==
  Returned =>
    /\ loglevel = "tool" => orig_loglevel = "unread"
    /\ swappiness = "tool" => orig_swappiness = "unread"

(* Quirks touch the hardware only if the user forced them or the whitelist *)
(* has them for this machine, and never on a machine with a framebuffer    *)
(* that is listed as having to go without.                                 *)
QuirksAllowed ==
  pc \in {"save_state", "get_mode", "light_off", "save_vga_pci",
          "suspend_fbcon"} =>
    \/ force
    \/ /\ entry # NONE /\ flags = entry
       /\ ~("NOFB" \in flags /\ framebuffer)

(* s2ram_resume() writes the PCI configuration space of the VGA card, and  *)
(* does it unconditionally: the machine never gets there, asleep or not,   *)
(* from an s2ram_hacks() that gave up before it had read that space.       *)
RestoresOnlyWhatWasSaved ==
  pc = "restore_vga_pci" /\ "PCI_SAVE" \in flags => vga_pci_state

(* After a sleep in RAM the card has every part of its state back that had *)
(* been saved, none undone by a later step, the backlight is on and the    *)
(* framebuffer consoles run.  For the consoles and for the configuration   *)
(* space a descriptor is needed, and s2both has none left.                 *)
VideoBack ==
  Returned /\ slept =>
    /\ vga_pci_state => "PCI" \notin lost \/ nofile
    /\ vbe_buffer => "VBE" \notin lost
    /\ vbe_mode => "MODE" \notin lost
    /\ light
    /\ fbcon \/ nofile

(* restore_console() waits for the screen to leave the terminal that was   *)
(* the X server's, which nobody but this program could answer.             *)
WaitsForItself ==
  /\ pc = "reset_kmsg"
  /\ ServerLostVT
  /\ active = XVT /\ orig_vc # XVT


(* The option vbe_post, "VBE POST the graphics card after resume", as it   *)
(* applies to s2both: when the program is over after a sleep in RAM, the   *)
(* BIOS has initialised the card.                                          *)
PostedAfterResume ==
  /\ program = "s2both" /\ pc = "exited"
  /\ slept /\ ~s2ram_kms /\ "VBE_POST" \in flags
  => posted
=============================================================================
