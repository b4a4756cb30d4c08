--------------------------- MODULE Session_proofs ---------------------------
(***************************************************************************)
(* The safety properties of Session, for any terminals, any whitelist, any *)
(* command line and any number of switches by the user.  They follow from  *)
(* one inductive invariant, SInv, which says for every part of the state   *)
(* where in the program it may differ from what the program found.         *)
(***************************************************************************)
EXTENDS Session, TLAPS

(* s2ram_hacks(), entered at "s2ram_hacks". *)
Hacks == {"s2ram_hacks", "save_state", "get_mode", "light_off",
          "save_vga_pci", "suspend_fbcon"}

(* s2ram_resume(), entered at "restore_vga_pci". *)
Resume == {"restore_vga_pci", "do_post", "restore_state_from",
           "do_set_mode", "resume_fbcon", "light_on"}

HacksReturned == {"hacks_done", "hacks_failed"}

(* main() of suspend.c: before it has the console, while it has it, from   *)
(* the first setting changed to the last put back, and on the way out.     *)
BeforeMount == {"get_config", "setup", "mount"}
BeforeConsole == BeforeMount \union
  {"open_resume", "open_snapshot", "set_swap_file", "prepare_console"}
OpensConsole == {"console_enotty", "console_failed", "activate_vt",
                 "redirect_kmsg"}
Locks == {"console_ready", "lock_vt", "lock_mode", "lock_failed"}
Locked == {"vt_locked", "quirks", "set_loglevel"} \union Hacks
            \union HacksReturned
Changed == {"set_swappiness", "set_limits", "suspend_system", "write_image",
            "suspend_to_ram", "off"} \union Resume \union
           {"quirks_resumed", "unfreeze", "restore_settings"}
Leaves == {"restore_console", "reset_kmsg"}
Left == {"console_restored", "close_snapshot", "close_resume", "umount",
         "exited"}

SuspendLabels == BeforeConsole \union OpensConsole \union Locks
                   \union Locked \union Changed \union {"unlock_vt"}
                   \union Leaves \union Left

S2ramLabels == {"s2ram_main", "s2ram_kms_do", "switch_to_vt1", "s2ram_do",
                "quirks_resumed", "switch_back", "exited"}
                 \union Hacks \union HacksReturned \union Resume

(* Each program is in its own main() or in a function it calls. *)
PlaceInv ==
  /\ pc \in IF program = "s2ram" THEN S2ramLabels ELSE SuspendLabels
  /\ died => pc = "exited"

(* Nothing is open before the first open, and the resume device is closed  *)
(* where the tmpfs is unmounted.                                           *)
MountInv ==
  /\ pc \in BeforeMount \union {"open_resume"} => fds = {}
  /\ pc = "umount" => "resume" \notin fds
  /\ program = "s2ram" \/ pc \in BeforeMount => "tmpfs" \notin mounts
  /\ MountReleased

(* One terminal at most ignores the switch requests, between lock_vt() and *)
(* unlock_vt(), and then vt_open holds: unlock_vt() will see that.  After  *)
(* unlock_vt() it can only be the X server's.                              *)
VTLocked ==
  /\ vt_open
  /\ vfd \in VTs
  /\ vt_mode = [UsualMode EXCEPT ![vfd] = "ignored"]
  /\ orig_vtm = UsualMode[vfd]

Holding == Locked \union Changed \union {"unlock_vt"}

LockInv ==
  /\ vt_open => /\ program # "s2ram"
                /\ pc \notin BeforeConsole \union OpensConsole
  /\ pc \in {"console_ready", "lock_vt", "lock_mode", "vt_locked",
             "reset_kmsg"} => vt_open
  /\ pc = "lock_mode" => vfd \in VTs
  /\ vt_open /\ pc \in Holding => VTLocked
  /\ \/ vt_mode = UsualMode
     \/ VTLocked /\ (pc \in Holding \/ died)
     \/ ServerLostVT /\ pc \in Leaves \union Left

(* prepare_console() never takes the X server's terminal, so lock_vt()     *)
(* finds it on the screen only if the user has switched since.             *)
RaceInv ==
  /\ vt # XVT /\ kmsg # XVT
  /\ pc \in {"redirect_kmsg", "console_ready", "lock_vt"}
       => active = vt \/ switches > 0
  /\ vfd = XVT => switches > 0

(* A setting that is not the user's and that was read is put back: the     *)
(* stream to do so is still open and restore_settings() is still to come.  *)
SettingsInv ==
  /\ orig_loglevel # "tool" /\ orig_swappiness # "tool"
  /\ loglevel = "tool" /\ orig_loglevel # "unread" =>
       /\ "printk" \in fds
       /\ pc \in Changed \/ died
  /\ swappiness = "tool" /\ orig_swappiness # "unread" =>
       /\ "swappiness" \in fds
       /\ pc \in Changed \/ died
  /\ \/ program = "s2ram"
     \/ pc \in BeforeConsole \union OpensConsole \union Locks \union Locked
     => loglevel = "user"
  /\ \/ program = "s2ram"
     \/ pc \in BeforeConsole \union OpensConsole \union Locks \union Locked
     \/ pc = "set_swappiness"
     => swappiness = "user"

(* The machine may have the quirks it is given. *)
QuirksMayRun ==
  \/ force
  \/ /\ entry # NONE /\ flags = entry
     /\ ~("NOFB" \in flags /\ framebuffer)

(* suspend.c calls s2ram_hacks() and s2ram_resume() only if s2ram is set;  *)
(* s2ram and s2ram_kms are never both set.                                 *)
AllowedInv ==
  /\ s2ram \/ pc \in Hacks \/ pc = "switch_to_vt1" => QuirksMayRun
  /\ program # "s2ram" /\ pc \in Hacks \union HacksReturned => s2ram
  /\ program # "s2ram" /\ pc \in Resume => s2ram
  /\ s2ram \/ s2ram_kms => program = "s2both"
  /\ pc = "get_config" => ~s2ram /\ ~s2ram_kms
  /\ ~(s2ram /\ s2ram_kms)
  /\ pc = "suspend_to_ram" => s2ram \/ s2ram_kms

(* s2ram_hacks() has done its work if it is over and has not failed. *)
SavedInv ==
  /\ vga_pci_state => "PCI_SAVE" \in flags
  /\ \/ pc \in {"suspend_fbcon", "hacks_done", "s2ram_do",
                "restore_vga_pci"}
     \/ s2ram /\ pc \in {"set_loglevel", "set_swappiness", "set_limits",
                         "suspend_system", "write_image", "suspend_to_ram"}
     => ("PCI_SAVE" \in flags => vga_pci_state)

(* No quirk has touched the card. *)
Untouched ==
  /\ ~vga_pci_state /\ ~vbe_buffer /\ ~vbe_mode
  /\ light /\ fbcon

Awake == Resume \union
  {"quirks_resumed", "unfreeze", "restore_settings", "unlock_vt",
   "restore_console", "reset_kmsg", "console_restored", "close_snapshot",
   "close_resume", "umount", "switch_back", "exited"}

(* What the steps of s2ram_resume() taken so far have given back. *)
CardBack ==
  /\ vga_pci_state /\ pc # "restore_vga_pci"
       => "PCI" \notin lost \/ nofile
  /\ vbe_buffer /\ pc \notin {"restore_vga_pci", "do_post",
                               "restore_state_from"} => "VBE" \notin lost
  /\ vbe_mode /\ pc \notin Resume \ {"resume_fbcon", "light_on"}
       => "MODE" \notin lost
  /\ pc \notin Resume \ {"light_on"} => fbcon \/ nofile
  /\ pc \notin Resume => light

VideoInv ==
  /\ \/ s2ram_kms
     \/ pc \in BeforeConsole \union OpensConsole \union Locks
     \/ pc \in {"vt_locked", "quirks", "s2ram_hacks", "s2ram_main",
                "s2ram_kms_do", "switch_to_vt1"}
     => Untouched
  /\ fb_nosuspend => fbcon
  /\ ~light => "RADEON_OFF" \in flags
  /\ slept => pc \in Awake
  /\ slept /\ ~died => Untouched \/ CardBack

(* Kernel messages go where they went, and the screen is on the terminal   *)
(* of the beginning, unless the program still has a terminal of its own.   *)
ConsoleInv ==
  /\ set_kmsg_redirect => found_kmsg = 0
  /\ ~set_kmsg_redirect => kmsg = found_kmsg
  /\ kmsg # found_kmsg =>
       /\ vt_open \/ "activate" \in faults
       /\ pc \notin BeforeConsole \union OpensConsole
  /\ vt_open => pc \notin Left \/ died
  /\ pc \in BeforeConsole \union {"console_enotty", "s2ram_main",
                                  "s2ram_kms_do", "switch_to_vt1"}
       => orig_vc = 0
  /\ pc \in {"activate_vt", "redirect_kmsg"} => vt # 0 /\ orig_vc # 0
  /\ vt_open => orig_vc # 0
  /\ switches = 0 /\ "activate" \notin faults /\ orig_vc # 0 =>
       \/ active = orig_vc
       \/ pc = "redirect_kmsg" \/ vt_open
       \/ program = "s2ram" /\ (pc # "exited" \/ died)

SInv ==
  /\ TypeOK /\ PlaceInv
  /\ MountInv /\ LockInv /\ RaceInv /\ SettingsInv
  /\ AllowedInv /\ SavedInv /\ VideoInv
  /\ ConsoleInv

(* What the tuples of variables and the two ways to go on stand for is     *)
(* visible in all of the proofs.                                           *)
USE DEF processVars, terminalVars, quirkVars, choiceVars, savedVars,
        hardwareVars, mainVars, resourceVars, modeVars, settingVars,
        Goto, Fault

-----------------------------------------------------------------------------
(* What the choice of the quirks may change, and what it leaves alone. *)
LEMMA ChoiceMain ==
  s2ram_main \/ get_config =>
    /\ pc' \in {"s2ram_kms_do", "switch_to_vt1", "exited", "setup"}
    /\ UNCHANGED <<program, frozen, nofile, died, faults>>
    /\ UNCHANGED <<mounts, cwd, fds, loglevel, orig_loglevel, swappiness,
                   orig_swappiness>>
    /\ UNCHANGED <<vbe_buffer, vbe_mode, vga_pci_state, lrmi, light, fbcon,
                   lost, posted, slept>>
    /\ s2ram' = s2ram \/ s2ram' = TRUE \/ s2ram' = FALSE
    /\ s2ram_kms' = s2ram_kms \/ s2ram_kms' = TRUE
<1>1. ASSUME s2ram_main PROVE ChoiceMain!2
  BY <1>1 DEF s2ram_main, get_s2ram_config, s2ram_is_supported, s2ram_check,
    machine_match
<1>2. ASSUME get_config PROVE ChoiceMain!2
  BY <1>2 DEF get_config, s2ram_is_supported, s2ram_check, machine_match
<1> QED
  BY <1>1, <1>2

(* The quirks chosen come from the command line, from the configuration    *)
(* file or from an entry of the whitelist.                                 *)
LEMMA ChoiceQuirks ==
  s2ram_main \/ get_config =>
    /\ \/ flags' = flags
       \/ \E quirks \in CmdLines : flags' = flags \union quirks
       \/ flags' \in Whitelist \union {NONE} /\ flags' # NONE
    /\ force' = force \/ force' = TRUE
    /\ fb_nosuspend' = fb_nosuspend \/ fb_nosuspend' \in BOOLEAN
    /\ framebuffer' = framebuffer \/ framebuffer' \in BOOLEAN
    /\ entry' = entry \/ entry' \in Whitelist \union {NONE}
<1>1. ASSUME s2ram_main PROVE ChoiceQuirks!2
  BY <1>1 DEF s2ram_main, get_s2ram_config, s2ram_is_supported, s2ram_check,
    machine_match
<1>2. ASSUME get_config PROVE ChoiceQuirks!2
  BY <1>2 DEF get_config, s2ram_is_supported, s2ram_check, machine_match
<1> QED
  BY <1>1, <1>2

(* What the steps of main() may do to the state main() keeps. *)
LEMMA MainProcess ==
  MainNext =>
    /\ UNCHANGED <<program, died>>
    /\ frozen' = frozen \/ frozen' = TRUE \/ frozen' = FALSE
    /\ nofile' = nofile \/ nofile' = TRUE
    /\ faults' = faults \/ faults' = faults \union {"chdir"}
    /\ mounts' \subseteq mounts \union {"tmpfs", "proc"}
    /\ cwd' = cwd \/ cwd' = TRUE \/ cwd' = FALSE
    /\ fds' \subseteq
         fds \union {"resume", "snapshot", "printk", "swappiness"}
    /\ s2ram' = s2ram \/ s2ram' = TRUE \/ s2ram' = FALSE
    /\ s2ram_kms' = s2ram_kms \/ s2ram_kms' = TRUE
    /\ \/ loglevel' = loglevel \/ loglevel' = "tool"
       \/ loglevel' = orig_loglevel /\ orig_loglevel # "unread"
    /\ \/ swappiness' = swappiness \/ swappiness' = "tool"
       \/ swappiness' = orig_swappiness /\ orig_swappiness # "unread"
    /\ orig_loglevel' \in {orig_loglevel, "unread", loglevel}
    /\ orig_swappiness' \in {orig_swappiness, "unread", swappiness}
<1> SUFFICES ASSUME MainNext PROVE MainProcess!2
  OBVIOUS
<1>1. CASE s2ram_main \/ get_config
  BY <1>1, ChoiceMain
<1>2. CASE hacks_called
  BY <1>2, Zenon DEF hacks_called
<1>3. CASE \/ mount \/ open_resume \/ open_snapshot \/ set_loglevel
           \/ set_swappiness \/ close_snapshot \/ close_resume \/ umount
  BY <1>3 DEF mount, open_resume, open_snapshot, set_loglevel,
    set_swappiness, close_snapshot, close_resume, umount
<1>4. CASE restore_settings
  BY <1>4 DEF restore_settings
<1>5. CASE \/ s2ram_called \/ setup \/ set_swap_file \/ console_called
           \/ set_limits \/ suspend_system \/ write_image \/ suspend_to_ram
           \/ unfreeze
  BY <1>5 DEF s2ram_called, setup, set_swap_file, console_called, set_limits,
    suspend_system, write_image, suspend_to_ram, unfreeze
<1> QED
  BY <1>1, <1>2, <1>3, <1>4, <1>5 DEF MainNext

(* The terminal code moves on in the program and notes refused calls. *)
LEMMA TerminalProcess ==
  TerminalNext =>
    /\ UNCHANGED <<program, frozen, nofile, died>>
    /\ faults' = faults \/ faults' = faults \union {"activate"}
BY DEF TerminalNext, prepare_console, activate_vt, redirect_kmsg, lock_vt,
  lock_mode, unlock_vt, restore_console, reset_kmsg, switch_to_vt1,
  switch_back, chvt

(* The quirk code moves on in the program or dies in a library call. *)
LEMMA QuirksProcess ==
  QuirksNext =>
    /\ UNCHANGED <<program, nofile, faults>>
    /\ \/ UNCHANGED <<frozen, died>>
       \/ frozen' = FALSE /\ died' = TRUE
BY DEF QuirksNext, SleepAndWake, set_acpi_video_mode, save_state, get_mode,
  light_off, save_vga_pci, suspend_fbcon, s2ram_generic_do, restore_vga_pci,
  do_post, restore_state_from, do_set_mode, resume_fbcon,
  light_on, vbetool_init, Exit1

(* The steps of main() leave the terminals to the functions it calls. *)
LEMMA MainLeavesTerminals ==
  MainNext \/ resumed => UNCHANGED terminalVars
<1>1. s2ram_main \/ s2ram_called \/ get_config \/ setup \/ mount
        => UNCHANGED terminalVars
  BY DEF s2ram_main, s2ram_called, get_config, setup, mount
<1>2. open_resume \/ open_snapshot \/ set_swap_file \/ console_called
        \/ hacks_called => UNCHANGED terminalVars
  BY DEF open_resume, open_snapshot, set_swap_file, console_called,
    hacks_called
<1>3. set_loglevel \/ set_swappiness \/ set_limits \/ suspend_system
        => UNCHANGED terminalVars
  BY DEF set_loglevel, set_swappiness, set_limits, suspend_system
<1>4. write_image \/ suspend_to_ram \/ unfreeze \/ resumed
        => UNCHANGED terminalVars
  BY DEF write_image, suspend_to_ram, unfreeze, resumed
<1>5. restore_settings \/ close_snapshot \/ close_resume \/ umount
        => UNCHANGED terminalVars
  BY DEF restore_settings, close_snapshot, close_resume, umount
<1> QED BY <1>1, <1>2, <1>3, <1>4, <1>5 DEF MainNext

(* main() itself gets to lock_vt() only from prepare_console().            *)
LEMMA RaceLabels ==
  MainNext /\ pc' \in {"redirect_kmsg", "console_ready", "lock_vt"}
    => pc = "console_ready"
<1>1. s2ram_main \/ get_config
        => pc' \in {"s2ram_kms_do", "switch_to_vt1", "exited", "setup"}
  BY ChoiceMain
<1> QED
  BY <1>1 DEF MainNext, s2ram_called, setup, mount, open_resume,
    open_snapshot, set_swap_file, console_called, hacks_called, set_loglevel,
    set_swappiness, set_limits, suspend_system, write_image, suspend_to_ram,
    unfreeze, restore_settings, close_snapshot, close_resume, umount

-----------------------------------------------------------------------------
(* TypeOK, without the terminal and the quirks. *)
MainTypeOK ==
  /\ program \in Programs
  /\ frozen \in BOOLEAN /\ nofile \in BOOLEAN /\ died \in BOOLEAN
  /\ faults \subseteq {"activate", "chdir"}
  /\ mounts \subseteq {"tmpfs", "proc"} /\ cwd \in BOOLEAN
  /\ fds \subseteq {"resume", "snapshot", "printk", "swappiness"}
  /\ s2ram \in BOOLEAN /\ s2ram_kms \in BOOLEAN
  /\ loglevel \in Setting /\ swappiness \in Setting
  /\ orig_loglevel \in Read /\ orig_swappiness \in Read

(* The state main() keeps has its type after any step.                     *)
LEMMA MainType == TypeOK /\ [Next]_vars => MainTypeOK'
<1> SUFFICES ASSUME TypeOK, [Next]_vars PROVE MainTypeOK'
  OBVIOUS
<1> USE DEF TypeOK
<1>1. CASE MainNext
  <2>1. /\ frozen' \in BOOLEAN /\ nofile' \in BOOLEAN /\ died' \in BOOLEAN
        /\ cwd' \in BOOLEAN
        /\ s2ram' \in BOOLEAN /\ s2ram_kms' \in BOOLEAN
    BY <1>1, MainProcess, Zenon
  <2>2. program' \in Programs /\ faults' \subseteq {"activate", "chdir"}
    BY <1>1, MainProcess, Zenon
  <2>3. /\ mounts' \subseteq {"tmpfs", "proc"}
        /\ fds' \subseteq {"resume", "snapshot", "printk", "swappiness"}
    BY <1>1, MainProcess, Zenon
  <2>4. loglevel' \in Setting /\ swappiness' \in Setting
    BY <1>1, MainProcess, Zenon DEF Setting, Read
  <2>5. orig_loglevel' \in Read /\ orig_swappiness' \in Read
    BY <1>1, MainProcess, Zenon DEF Setting, Read
  <2> QED
    BY <2>1, <2>2, <2>3, <2>4, <2>5, Zenon DEF MainTypeOK
<1>2. CASE TerminalNext /\ UNCHANGED <<quirkVars, mainVars>>
  BY <1>2, TerminalProcess, Zenon DEF MainTypeOK
<1>3. CASE QuirksNext /\ UNCHANGED <<terminalVars, mainVars>>
  BY <1>3, QuirksProcess, Zenon DEF MainTypeOK
<1>4. CASE resumed
  BY <1>4, Zenon DEF resumed, MainTypeOK
<1>5. CASE SwitchVT /\ UNCHANGED <<quirkVars, mainVars>>
  BY <1>5, Zenon DEF SwitchVT, MainTypeOK
<1>6. CASE UNCHANGED vars
  BY <1>6, Zenon DEF vars, MainTypeOK
<1> QED
  BY <1>1, <1>2, <1>3, <1>4, <1>5, <1>6 DEF Next, ProgramNext

(* The terminals have their types after any step: prepare_console() has    *)
(* chosen a terminal before it is activated, and restore_console() has one *)
(* to go back to.                                                          *)
LEMMA TermType == SInv /\ [Next]_vars => TerminalTypeOK'
<1> SUFFICES ASSUME SInv, [Next]_vars PROVE TerminalTypeOK'
  OBVIOUS
<1> USE DEF SInv, TypeOK, TerminalTypeOK, Modes, UsualMode
<1>1. CASE MainNext
  BY <1>1 DEF MainNext, s2ram_main, s2ram_called, get_config, setup, mount,
    open_resume, open_snapshot, set_swap_file, console_called, hacks_called,
    set_loglevel, set_swappiness, set_limits, suspend_system, write_image,
    suspend_to_ram, unfreeze, restore_settings, close_snapshot, close_resume,
    umount, get_s2ram_config, s2ram_is_supported, s2ram_check, machine_match,
    SleepAndWake
<1>2. CASE TerminalNext /\ UNCHANGED <<quirkVars, mainVars>>
  <2>1. CASE prepare_console
    <3>1. UNCHANGED <<active, vt_mode, kmsg, switches, vt_open, vfd,
                      orig_vtm, found_kmsg>>
      BY <2>1 DEF prepare_console
    <3>2. orig_vc' \in VTs \union {0}
      BY <2>1 DEF prepare_console
    <3>3. vt' \in VTs \union {0}
      BY <2>1, TerminalAssumption DEF prepare_console
    <3>4. set_kmsg_redirect' \in BOOLEAN
      BY <2>1, Zenon DEF prepare_console
    <3> QED
      BY <3>1, <3>2, <3>3, <3>4
  <2>2. CASE activate_vt
    <3>1. vt \in VTs
      BY <2>2 DEF activate_vt, ConsoleInv
    <3>2. active' \in VTs
      BY <2>2, <3>1 DEF activate_vt
    <3>3. UNCHANGED <<vt_mode, kmsg, switches, orig_vc, vt, vt_open,
                      set_kmsg_redirect, vfd, orig_vtm, found_kmsg>>
      BY <2>2 DEF activate_vt
    <3> QED
      BY <3>2, <3>3
  <2>3. CASE redirect_kmsg
    BY <1>2, <2>3 DEF redirect_kmsg
  <2>4. CASE lock_vt
    BY <1>2, <2>4 DEF lock_vt
  <2>5. CASE unlock_vt
    BY <1>2, <2>5 DEF unlock_vt, SetByCaller
  <2>6. CASE restore_console
    BY <1>2, <2>6 DEF restore_console
  <2>7. CASE reset_kmsg
    <3>1. vt_open
      BY <2>7 DEF reset_kmsg, LockInv
    <3>2. orig_vc \in VTs
      BY <3>1 DEF ConsoleInv
    <3>3. active' \in VTs /\ kmsg' \in VTs \union {0}
      BY <2>7, <3>2 DEF reset_kmsg
    <3> QED
      BY <2>7, <3>3 DEF reset_kmsg
  <2>8. CASE switch_to_vt1
    BY <2>8, TerminalAssumption DEF switch_to_vt1, chvt
  <2>9. CASE switch_back
    BY <1>2, <2>9 DEF switch_back, chvt
  <2>10. CASE lock_mode
    <3>1. vt_mode[vfd] \in Modes
      BY <2>10 DEF lock_mode, LockInv
    <3>2. orig_vtm' \in Modes /\ vt_mode' \in [VTs -> Modes]
      BY <2>10, <3>1 DEF lock_mode
    <3> QED
      BY <2>10, <3>2 DEF lock_mode
  <2> QED
    BY <1>2, <2>1, <2>2, <2>3, <2>4, <2>5, <2>6, <2>7, <2>8, <2>9, <2>10 DEF
      TerminalNext
<1>3. CASE QuirksNext /\ UNCHANGED <<terminalVars, mainVars>>
  BY <1>3 DEF QuirksNext, set_acpi_video_mode, save_state, get_mode, light_off,
    save_vga_pci, suspend_fbcon, s2ram_generic_do, restore_vga_pci,
    do_post, restore_state_from, do_set_mode, resume_fbcon,
    light_on, vbetool_init, Exit1, SleepAndWake
<1>4. CASE resumed
  BY <1>4 DEF resumed
<1>5. CASE SwitchVT /\ UNCHANGED <<quirkVars, mainVars>>
  <2>1. active' \in VTs
    BY <1>5 DEF SwitchVT
  <2>2. switches' \in 0..MaxSwitches
    BY <1>5, TerminalAssumption DEF SwitchVT
  <2> QED
    BY <1>5, <2>1, <2>2 DEF SwitchVT
<1>6. CASE UNCHANGED vars
  BY <1>6 DEF vars
<1> QED
  BY <1>1, <1>2, <1>3, <1>4, <1>5, <1>6 DEF Next, ProgramNext

(* The choice of the quirks and the video state have their types after any *)
(* step.                                                                   *)
LEMMA QuirksType == TypeOK /\ [Next]_vars => QuirksTypeOK'
<1> SUFFICES ASSUME TypeOK, [Next]_vars PROVE QuirksTypeOK'
  OBVIOUS
<1> USE DEF TypeOK, QuirksTypeOK, VideoState, QuirkNames
<1>1. CASE MainNext
  <2>1. CASE s2ram_main
    <3>1. flags' \subseteq QuirkNames \union {"NOFB"}
      BY <2>1, ChoiceQuirks, QuirksAssumption, ZenonT(40)
    <3>2. UNCHANGED <<vbe_buffer, vbe_mode, vga_pci_state, lrmi, light,
                      fbcon, lost, posted, slept>>
      BY <2>1, ChoiceMain
    <3>3. /\ force' \in BOOLEAN /\ fb_nosuspend' \in BOOLEAN
          /\ framebuffer' \in BOOLEAN /\ entry' \in Whitelist \union {NONE}
      BY <2>1, ChoiceQuirks, Zenon
    <3> QED
      BY <3>1, <3>2, <3>3
  <2>2. CASE s2ram_called
    BY <1>1, <2>2 DEF s2ram_called
  <2>3. CASE get_config
    <3>1. flags' \subseteq QuirkNames \union {"NOFB"}
      BY <2>3, ChoiceQuirks, QuirksAssumption, ZenonT(40)
    <3>2. UNCHANGED <<vbe_buffer, vbe_mode, vga_pci_state, lrmi, light,
                      fbcon, lost, posted, slept>>
      BY <2>3, ChoiceMain
    <3>3. /\ force' \in BOOLEAN /\ fb_nosuspend' \in BOOLEAN
          /\ framebuffer' \in BOOLEAN /\ entry' \in Whitelist \union {NONE}
      BY <2>3, ChoiceQuirks, Zenon
    <3> QED
      BY <3>1, <3>2, <3>3
  <2>4. CASE setup
    BY <1>1, <2>4 DEF setup
  <2>5. CASE mount
    BY <1>1, <2>5 DEF mount
  <2>6. CASE open_resume
    BY <1>1, <2>6 DEF open_resume
  <2>7. CASE open_snapshot
    BY <1>1, <2>7 DEF open_snapshot
  <2>8. CASE set_swap_file
    BY <1>1, <2>8 DEF set_swap_file
  <2>9. CASE console_called
    BY <1>1, <2>9 DEF console_called
  <2>10. CASE hacks_called
    BY <1>1, <2>10 DEF hacks_called
  <2>11. CASE set_loglevel
    BY <1>1, <2>11 DEF set_loglevel
  <2>12. CASE set_swappiness
    BY <1>1, <2>12 DEF set_swappiness
  <2>13. CASE set_limits
    BY <1>1, <2>13 DEF set_limits
  <2>14. CASE suspend_system
    BY <1>1, <2>14 DEF suspend_system
  <2>15. CASE write_image
    BY <1>1, <2>15 DEF write_image
  <2>16. CASE suspend_to_ram
    <3>1. \/ UNCHANGED quirkVars
          \/ SleepAndWake
      BY <2>16 DEF suspend_to_ram
    <3>2. /\ UNCHANGED <<choiceVars, savedVars, lrmi, light, fbcon>>
          /\ slept' = slept \/ slept' = TRUE
          /\ posted' = posted \/ posted' = FALSE
          /\ lost' = lost \/ lost' = VideoState
      BY <3>1 DEF SleepAndWake
    <3>3. slept' \in BOOLEAN /\ posted' \in BOOLEAN
      BY <3>2, Zenon
    <3>4. lost' \subseteq VideoState
      BY <3>2, Zenon
    <3> QED
      BY <3>2, <3>3, <3>4
  <2>17. CASE unfreeze
    BY <1>1, <2>17 DEF unfreeze
  <2>18. CASE restore_settings
    BY <1>1, <2>18 DEF restore_settings
  <2>19. CASE close_snapshot
    BY <1>1, <2>19 DEF close_snapshot
  <2>20. CASE close_resume
    BY <1>1, <2>20 DEF close_resume
  <2>21. CASE umount
    BY <1>1, <2>21 DEF umount
  <2> QED
    BY <1>1, <2>1, <2>2, <2>3, <2>4, <2>5, <2>6, <2>7, <2>8, <2>9, <2>10,
      <2>11, <2>12, <2>13, <2>14, <2>15, <2>16, <2>17, <2>18, <2>19, <2>20,
      <2>21 DEF MainNext
<1>2. CASE TerminalNext /\ UNCHANGED <<quirkVars, mainVars>>
  BY <1>2 DEF TerminalNext, prepare_console, activate_vt, redirect_kmsg,
    lock_vt, lock_mode, unlock_vt, restore_console, reset_kmsg, switch_to_vt1,
    switch_back, chvt
<1>3. CASE QuirksNext /\ UNCHANGED <<terminalVars, mainVars>>
  <2>1. CASE set_acpi_video_mode
    BY <1>3, <2>1 DEF set_acpi_video_mode
  <2>2. CASE save_state
    <3>1. UNCHANGED <<choiceVars, vbe_mode, vga_pci_state, hardwareVars>>
      BY <2>2 DEF save_state
    <3>2. vbe_buffer' \in BOOLEAN /\ lrmi' \in BOOLEAN
      BY <2>2, Zenon DEF save_state, vbetool_init, Exit1
    <3> QED
      BY <3>1, <3>2
  <2>3. CASE get_mode
    <3>1. UNCHANGED <<choiceVars, vbe_buffer, vga_pci_state, hardwareVars>>
      BY <2>3 DEF get_mode
    <3>2. vbe_mode' \in BOOLEAN /\ lrmi' \in BOOLEAN
      BY <2>3, Zenon DEF get_mode, vbetool_init, Exit1
    <3> QED
      BY <3>1, <3>2
  <2>4. CASE light_off
    <3>1. UNCHANGED <<choiceVars, savedVars, lrmi, fbcon, lost, posted, slept>>
      BY <2>4 DEF light_off
    <3>2. light' \in BOOLEAN
      BY <2>4, Zenon DEF light_off
    <3> QED
      BY <3>1, <3>2
  <2>5. CASE save_vga_pci
    <3>1. UNCHANGED <<choiceVars, vbe_mode, vbe_buffer, lrmi, hardwareVars>>
      BY <2>5 DEF save_vga_pci
    <3>2. vga_pci_state' \in BOOLEAN
      BY <2>5, Zenon DEF save_vga_pci
    <3> QED
      BY <3>1, <3>2
  <2>6. CASE suspend_fbcon
    <3>1. UNCHANGED <<choiceVars, savedVars, lrmi, light, lost, posted, slept>>
      BY <2>6 DEF suspend_fbcon
    <3>2. fbcon' \in BOOLEAN
      BY <2>6, Zenon DEF suspend_fbcon
    <3> QED
      BY <3>1, <3>2
  <2>7. CASE s2ram_generic_do
    <3>1. /\ UNCHANGED <<choiceVars, savedVars, lrmi, light, fbcon>>
          /\ slept' = slept \/ slept' = TRUE
          /\ posted' = posted \/ posted' = FALSE
          /\ lost' = lost \/ lost' = VideoState
      BY <2>7 DEF s2ram_generic_do, SleepAndWake
    <3>2. slept' \in BOOLEAN /\ posted' \in BOOLEAN
      BY <3>1, Zenon
    <3>3. lost' \subseteq VideoState
      BY <3>1, Zenon
    <3> QED
      BY <3>1, <3>2, <3>3
  <2>8. CASE restore_vga_pci
    BY <1>3, <2>8 DEF restore_vga_pci, pci_write_block
  <2>9. CASE do_post
    <3>1. UNCHANGED <<choiceVars, savedVars, light, fbcon, slept>>
      BY <2>9 DEF do_post
    <3>2. posted' \in BOOLEAN /\ lrmi' \in BOOLEAN
      BY <2>9, Zenon DEF do_post, vbetool_init, Exit1
    <3>3. lost' \subseteq VideoState
      BY <2>9 DEF do_post
    <3> QED
      BY <3>1, <3>2, <3>3
  <2>10. CASE restore_state_from
    <3>1. UNCHANGED <<choiceVars, savedVars, light, fbcon, slept, posted>>
      BY <2>10 DEF restore_state_from
    <3>2. lrmi' \in BOOLEAN
      BY <2>10, Zenon DEF restore_state_from, vbetool_init, Exit1
    <3>3. lost' \subseteq VideoState
      BY <2>10 DEF restore_state_from
    <3> QED
      BY <3>1, <3>2, <3>3
  <2>11. CASE do_set_mode
    <3>1. UNCHANGED <<choiceVars, savedVars, light, fbcon, slept, posted>>
      BY <2>11 DEF do_set_mode
    <3>2. lrmi' \in BOOLEAN
      BY <2>11, Zenon DEF do_set_mode, vbetool_init, Exit1
    <3>3. lost' \subseteq VideoState
      BY <2>11 DEF do_set_mode
    <3> QED
      BY <3>1, <3>2, <3>3
  <2>12. CASE resume_fbcon
    <3>1. UNCHANGED <<choiceVars, savedVars, lrmi, light, lost, posted, slept>>
      BY <2>12 DEF resume_fbcon
    <3>2. fbcon' \in BOOLEAN
      BY <2>12, Zenon DEF resume_fbcon
    <3> QED
      BY <3>1, <3>2
  <2>13. CASE light_on
    <3>1. UNCHANGED <<choiceVars, savedVars, lrmi, fbcon, lost, posted, slept>>
      BY <2>13 DEF light_on
    <3>2. light' \in BOOLEAN
      BY <2>13, Zenon DEF light_on
    <3> QED
      BY <3>1, <3>2
  <2> QED
    BY <1>3, <2>1, <2>2, <2>3, <2>4, <2>5, <2>6, <2>7, <2>8, <2>9, <2>10,
      <2>11, <2>12, <2>13 DEF QuirksNext
<1>4. CASE resumed
  BY <1>4 DEF resumed
<1>5. CASE SwitchVT /\ UNCHANGED <<quirkVars, mainVars>>
  BY <1>5 DEF SwitchVT
<1>6. CASE UNCHANGED vars
  BY <1>6 DEF vars
<1> QED
  BY <1>1, <1>2, <1>3, <1>4, <1>5, <1>6 DEF Next, ProgramNext

(* Each variable has a value of its kind after any step. *)
LEMMA TypeStep == SInv /\ [Next]_vars => TypeOK'
BY MainType, TermType, QuirksType DEF SInv, TypeOK, MainTypeOK

-----------------------------------------------------------------------------
(* Each program stays in its own main() and the functions it calls, and a  *)
(* program that died is over.                                              *)
LEMMA PlaceStep == SInv /\ [Next]_vars => PlaceInv'
<1> SUFFICES ASSUME SInv, [Next]_vars PROVE PlaceInv'
  OBVIOUS
<1> USE DEF SInv, PlaceInv, AllowedInv, Hacks, Resume, HacksReturned,
  BeforeMount, BeforeConsole, OpensConsole, Locks, Locked, Changed, Leaves,
  Left, SuspendLabels, S2ramLabels
<1>1. CASE MainNext
  BY <1>1 DEF MainNext, s2ram_main, s2ram_called, get_config, setup, mount,
    open_resume, open_snapshot, set_swap_file, console_called, hacks_called,
    set_loglevel, set_swappiness, set_limits, suspend_system, write_image,
    suspend_to_ram, unfreeze, restore_settings, close_snapshot, close_resume,
    umount, get_s2ram_config, s2ram_is_supported, s2ram_check, machine_match,
    SleepAndWake
<1>2. CASE TerminalNext /\ UNCHANGED <<quirkVars, mainVars>>
  BY <1>2 DEF TerminalNext, prepare_console, activate_vt, redirect_kmsg,
    lock_vt, lock_mode, unlock_vt, restore_console, reset_kmsg, switch_to_vt1,
    switch_back, chvt
<1>3. CASE QuirksNext /\ UNCHANGED <<terminalVars, mainVars>>
  <2>1. CASE set_acpi_video_mode
    BY <1>3, <2>1 DEF set_acpi_video_mode
  <2>2. CASE save_state
    BY <1>3, <2>2 DEF save_state, vbetool_init, Exit1
  <2>3. CASE get_mode
    BY <1>3, <2>3 DEF get_mode, vbetool_init, Exit1
  <2>4. CASE light_off
    BY <1>3, <2>4 DEF light_off
  <2>5. CASE save_vga_pci
    BY <1>3, <2>5 DEF save_vga_pci
  <2>6. CASE suspend_fbcon
    BY <1>3, <2>6 DEF suspend_fbcon
  <2>7. CASE s2ram_generic_do
    BY <1>3, <2>7 DEF s2ram_generic_do, SleepAndWake
  <2>8. CASE restore_vga_pci
    BY <1>3, <2>8 DEF restore_vga_pci
  <2>9. CASE do_post
    BY <1>3, <2>9 DEF do_post, vbetool_init, Exit1
  <2>10. CASE restore_state_from
    BY <1>3, <2>10 DEF restore_state_from, vbetool_init, Exit1
  <2>11. CASE do_set_mode
    BY <1>3, <2>11 DEF do_set_mode, vbetool_init, Exit1
  <2>12. CASE resume_fbcon
    BY <1>3, <2>12 DEF resume_fbcon
  <2>13. CASE light_on
    BY <1>3, <2>13 DEF light_on
  <2> QED
    BY <1>3, <2>1, <2>2, <2>3, <2>4, <2>5, <2>6, <2>7, <2>8, <2>9, <2>10,
      <2>11, <2>12, <2>13 DEF QuirksNext
<1>4. CASE resumed
  BY <1>4 DEF resumed
<1>5. CASE SwitchVT /\ UNCHANGED <<quirkVars, mainVars>>
  BY <1>5 DEF SwitchVT
<1>6. CASE UNCHANGED vars
  BY <1>6 DEF vars
<1> QED
  BY <1>1, <1>2, <1>3, <1>4, <1>5, <1>6 DEF Next, ProgramNext

(* Every way out closes what keeps the tmpfs busy before it is unmounted.  *)
LEMMA MountStep == SInv /\ [Next]_vars => MountInv'
<1> SUFFICES ASSUME SInv, [Next]_vars PROVE MountInv'
  OBVIOUS
<1> USE DEF SInv, MountInv, MountReleased, Returned, PlaceInv, Hacks, Resume,
  HacksReturned, BeforeMount, BeforeConsole, OpensConsole, Locks, Locked,
  Changed, Leaves, Left, SuspendLabels, S2ramLabels
<1>1. CASE MainNext
  BY <1>1 DEF MainNext, s2ram_main, s2ram_called, get_config, setup, mount,
    open_resume, open_snapshot, set_swap_file, console_called, hacks_called,
    set_loglevel, set_swappiness, set_limits, suspend_system, write_image,
    suspend_to_ram, unfreeze, restore_settings, close_snapshot, close_resume,
    umount, get_s2ram_config, s2ram_is_supported, s2ram_check, machine_match,
    SleepAndWake
<1>2. CASE TerminalNext /\ UNCHANGED <<quirkVars, mainVars>>
  BY <1>2 DEF TerminalNext, prepare_console, activate_vt, redirect_kmsg,
    lock_vt, lock_mode, unlock_vt, restore_console, reset_kmsg, switch_to_vt1,
    switch_back, chvt
<1>3. CASE QuirksNext /\ UNCHANGED <<terminalVars, mainVars>>
  BY <1>3 DEF QuirksNext, set_acpi_video_mode, save_state, get_mode, light_off,
    save_vga_pci, suspend_fbcon, s2ram_generic_do, restore_vga_pci,
    do_post, restore_state_from, do_set_mode, resume_fbcon,
    light_on, vbetool_init, Exit1, SleepAndWake
<1>4. CASE resumed
  BY <1>4 DEF resumed
<1>5. CASE SwitchVT /\ UNCHANGED <<quirkVars, mainVars>>
  BY <1>5 DEF SwitchVT
<1>6. CASE UNCHANGED vars
  BY <1>6 DEF vars
<1> QED
  BY <1>1, <1>2, <1>3, <1>4, <1>5, <1>6 DEF Next, ProgramNext

(* The locked terminal is the one unlock_vt() will unlock.                 *)
LEMMA LockStep == SInv /\ [Next]_vars => LockInv'
<1> SUFFICES ASSUME SInv, [Next]_vars PROVE LockInv'
  OBVIOUS
<1> USE DEF SInv, LockInv, ServerLostVT, PlaceInv, TypeOK, TerminalTypeOK,
  VTLocked, Holding, UsualMode, Hacks, Resume, HacksReturned, BeforeMount,
  BeforeConsole, OpensConsole, Locks, Locked, Changed, Leaves, Left,
  SuspendLabels, S2ramLabels
<1>1. CASE MainNext
  <2>1. CASE s2ram_main
    BY <1>1, <2>1 DEF s2ram_main, get_s2ram_config, s2ram_is_supported,
      s2ram_check, machine_match
  <2>2. CASE s2ram_called
    BY <1>1, <2>2 DEF s2ram_called
  <2>3. CASE get_config
    BY <1>1, <2>3 DEF get_config, s2ram_is_supported, s2ram_check,
      machine_match
  <2>4. CASE setup
    BY <1>1, <2>4 DEF setup
  <2>5. CASE mount
    BY <1>1, <2>5 DEF mount
  <2>6. CASE open_resume
    BY <1>1, <2>6 DEF open_resume
  <2>7. CASE open_snapshot
    BY <1>1, <2>7 DEF open_snapshot
  <2>8. CASE set_swap_file
    BY <1>1, <2>8 DEF set_swap_file
  <2>9. CASE console_called
    BY <1>1, <2>9 DEF console_called
  <2>10. CASE hacks_called
    BY <1>1, <2>10 DEF hacks_called
  <2>11. CASE set_loglevel
    BY <1>1, <2>11 DEF set_loglevel
  <2>12. CASE set_swappiness
    BY <1>1, <2>12 DEF set_swappiness
  <2>13. CASE set_limits
    BY <1>1, <2>13 DEF set_limits
  <2>14. CASE suspend_system
    BY <1>1, <2>14 DEF suspend_system
  <2>15. CASE write_image
    BY <1>1, <2>15 DEF write_image
  <2>16. CASE suspend_to_ram
    BY <1>1, <2>16 DEF suspend_to_ram, SleepAndWake
  <2>17. CASE unfreeze
    BY <1>1, <2>17 DEF unfreeze
  <2>18. CASE restore_settings
    BY <1>1, <2>18 DEF restore_settings
  <2>19. CASE close_snapshot
    BY <1>1, <2>19 DEF close_snapshot
  <2>20. CASE close_resume
    BY <1>1, <2>20 DEF close_resume
  <2>21. CASE umount
    BY <1>1, <2>21 DEF umount
  <2> QED
    BY <1>1, <2>1, <2>2, <2>3, <2>4, <2>5, <2>6, <2>7, <2>8, <2>9, <2>10,
      <2>11, <2>12, <2>13, <2>14, <2>15, <2>16, <2>17, <2>18, <2>19, <2>20,
      <2>21 DEF MainNext
<1>2. CASE TerminalNext /\ UNCHANGED <<quirkVars, mainVars>>
  <2>1. CASE prepare_console
    BY <1>2, <2>1 DEF prepare_console
  <2>2. CASE activate_vt
    BY <1>2, <2>2 DEF activate_vt
  <2>3. CASE redirect_kmsg
    BY <1>2, <2>3 DEF redirect_kmsg
  <2>4. CASE lock_vt
    BY <1>2, <2>4 DEF lock_vt
  <2>5. CASE lock_mode
    BY <1>2, <2>5 DEF lock_mode
  <2>6. CASE unlock_vt
    <3>1. pc' = "restore_console" /\ UNCHANGED <<program, died, vt_open, vfd>>
      BY <2>6 DEF unlock_vt
    <3>2. CASE ~vt_open
      BY <2>6, <3>1, <3>2 DEF unlock_vt
    <3>3. CASE vt_open /\ vfd # XVT
      <4>1. VTLocked /\ orig_vtm = "auto"
        BY <2>6, <3>3 DEF unlock_vt
      <4>2. vt_mode' = UsualMode
        BY <2>6, <3>3, <4>1 DEF unlock_vt, SetByCaller
      <4> QED
        BY <3>1, <4>2
    <3>4. CASE vt_open /\ vfd = XVT
      <4>1. VTLocked /\ orig_vtm = "server"
        BY <2>6, <3>4 DEF unlock_vt
      <4>2. vt_mode' = [UsualMode EXCEPT ![XVT] = "ignored"]
        BY <2>6, <3>4, <4>1 DEF unlock_vt, SetByCaller
      <4>3. switches' > 0
        BY <2>6, <3>4 DEF unlock_vt, RaceInv
      <4> QED
        BY <3>1, <3>4, <4>2, <4>3
    <3> QED
      BY <3>2, <3>3, <3>4
  <2>7. CASE restore_console
    BY <1>2, <2>7 DEF restore_console
  <2>8. CASE reset_kmsg
    BY <1>2, <2>8 DEF reset_kmsg
  <2>9. CASE switch_to_vt1
    BY <1>2, <2>9 DEF switch_to_vt1, chvt
  <2>10. CASE switch_back
    BY <1>2, <2>10 DEF switch_back, chvt
  <2> QED
    BY <1>2, <2>1, <2>2, <2>3, <2>4, <2>5, <2>6, <2>7, <2>8, <2>9, <2>10
    DEF TerminalNext
<1>3. CASE QuirksNext /\ UNCHANGED <<terminalVars, mainVars>>
  <2>1. CASE set_acpi_video_mode
    BY <1>3, <2>1 DEF set_acpi_video_mode
  <2>2. CASE save_state
    BY <1>3, <2>2 DEF save_state, vbetool_init, Exit1
  <2>3. CASE get_mode
    BY <1>3, <2>3 DEF get_mode, vbetool_init, Exit1
  <2>4. CASE light_off
    BY <1>3, <2>4 DEF light_off
  <2>5. CASE save_vga_pci
    BY <1>3, <2>5 DEF save_vga_pci
  <2>6. CASE suspend_fbcon
    BY <1>3, <2>6 DEF suspend_fbcon
  <2>7. CASE s2ram_generic_do
    BY <1>3, <2>7 DEF s2ram_generic_do, SleepAndWake
  <2>8. CASE restore_vga_pci
    BY <1>3, <2>8 DEF restore_vga_pci
  <2>9. CASE do_post
    BY <1>3, <2>9 DEF do_post, vbetool_init, Exit1
  <2>10. CASE restore_state_from
    BY <1>3, <2>10 DEF restore_state_from, vbetool_init, Exit1
  <2>11. CASE do_set_mode
    BY <1>3, <2>11 DEF do_set_mode, vbetool_init, Exit1
  <2>12. CASE resume_fbcon
    BY <1>3, <2>12 DEF resume_fbcon
  <2>13. CASE light_on
    BY <1>3, <2>13 DEF light_on
  <2> QED
    BY <1>3, <2>1, <2>2, <2>3, <2>4, <2>5, <2>6, <2>7, <2>8, <2>9, <2>10,
      <2>11, <2>12, <2>13 DEF QuirksNext
<1>4. CASE resumed
  BY <1>4 DEF resumed
<1>5. CASE SwitchVT /\ UNCHANGED <<quirkVars, mainVars>>
  BY <1>5 DEF SwitchVT
<1>6. CASE UNCHANGED vars
  BY <1>6 DEF vars
<1> QED
  BY <1>1, <1>2, <1>3, <1>4, <1>5, <1>6 DEF Next, ProgramNext

(* The X server's terminal is locked only in the race with the user. *)
LEMMA RaceStep == SInv /\ [Next]_vars => RaceInv'
<1> SUFFICES ASSUME SInv, [Next]_vars PROVE RaceInv'
  OBVIOUS
<1>1. switches \in Nat
  BY TerminalAssumption DEF SInv, TypeOK, TerminalTypeOK
<1>2. XVT # 0 /\ XVT \notin FreeVTs
  BY TerminalAssumption
<1> USE <1>1, <1>2 DEF RaceInv, SInv
<1>3. CASE MainNext
  <2>1. UNCHANGED terminalVars
    BY <1>3, MainLeavesTerminals
  <2>2. pc' \in {"redirect_kmsg", "console_ready", "lock_vt"}
          => pc = "console_ready"
    BY <1>3, RaceLabels
  <2> QED
    BY <2>1, <2>2
<1>4. CASE TerminalNext
  <2>1. CASE prepare_console
    BY <2>1 DEF prepare_console
  <2>2. CASE activate_vt
    BY <2>2 DEF activate_vt
  <2>3. CASE redirect_kmsg
    BY <2>3 DEF redirect_kmsg
  <2>4. CASE lock_vt
    BY <2>4 DEF lock_vt
  <2>5. CASE lock_mode
    BY <2>5 DEF lock_mode
  <2>6. CASE unlock_vt
    BY <2>6 DEF unlock_vt
  <2>7. CASE restore_console
    BY <2>7 DEF restore_console
  <2>8. CASE reset_kmsg
    BY <2>8 DEF reset_kmsg
  <2>9. CASE switch_to_vt1
    BY <2>9 DEF switch_to_vt1, chvt
  <2>10. CASE switch_back
    BY <2>10 DEF switch_back, chvt
  <2> QED
    BY <1>4, <2>1, <2>2, <2>3, <2>4, <2>5, <2>6, <2>7, <2>8, <2>9, <2>10
    DEF TerminalNext
<1>5. CASE QuirksNext /\ UNCHANGED <<terminalVars, mainVars>>
  <2>1. pc' \notin {"redirect_kmsg", "console_ready", "lock_vt"}
    BY <1>5 DEF QuirksNext, set_acpi_video_mode, save_state, get_mode,
      light_off, save_vga_pci, suspend_fbcon, s2ram_generic_do,
      restore_vga_pci, do_post, restore_state_from, do_set_mode,
      resume_fbcon, light_on, vbetool_init, Exit1
  <2> QED
    BY <1>5, <2>1
<1>6. CASE resumed
  BY <1>6 DEF resumed
<1>7. CASE SwitchVT
  BY <1>7 DEF SwitchVT
<1>8. CASE UNCHANGED vars
  BY <1>8 DEF vars
<1> QED
  BY <1>3, <1>4, <1>5, <1>6, <1>7, <1>8 DEF Next, ProgramNext

(* A setting that was read and changed is put back through the stream that *)
(* was opened for it.                                                      *)
LEMMA SettingsStep == SInv /\ [Next]_vars => SettingsInv'
<1> SUFFICES ASSUME SInv, [Next]_vars PROVE SettingsInv'
  OBVIOUS
<1> USE DEF SInv, SettingsInv, PlaceInv, TypeOK, Setting, Read, Hacks, Resume,
  HacksReturned, BeforeMount, BeforeConsole, OpensConsole, Locks, Locked,
  Changed, Leaves, Left, SuspendLabels, S2ramLabels
<1>1. CASE MainNext
  BY <1>1 DEF MainNext, s2ram_main, s2ram_called, get_config, setup, mount,
    open_resume, open_snapshot, set_swap_file, console_called, hacks_called,
    set_loglevel, set_swappiness, set_limits, suspend_system, write_image,
    suspend_to_ram, unfreeze, restore_settings, close_snapshot, close_resume,
    umount, get_s2ram_config, s2ram_is_supported, s2ram_check, machine_match,
    SleepAndWake
<1>2. CASE TerminalNext /\ UNCHANGED <<quirkVars, mainVars>>
  BY <1>2 DEF TerminalNext, prepare_console, activate_vt, redirect_kmsg,
    lock_vt, lock_mode, unlock_vt, restore_console, reset_kmsg, switch_to_vt1,
    switch_back, chvt
<1>3. CASE QuirksNext /\ UNCHANGED <<terminalVars, mainVars>>
  <2>1. CASE set_acpi_video_mode
    BY <1>3, <2>1 DEF set_acpi_video_mode
  <2>2. CASE save_state
    BY <1>3, <2>2 DEF save_state, vbetool_init, Exit1
  <2>3. CASE get_mode
    BY <1>3, <2>3 DEF get_mode, vbetool_init, Exit1
  <2>4. CASE light_off
    BY <1>3, <2>4 DEF light_off
  <2>5. CASE save_vga_pci
    BY <1>3, <2>5 DEF save_vga_pci
  <2>6. CASE suspend_fbcon
    BY <1>3, <2>6 DEF suspend_fbcon
  <2>7. CASE s2ram_generic_do
    BY <1>3, <2>7 DEF s2ram_generic_do, SleepAndWake
  <2>8. CASE restore_vga_pci
    BY <1>3, <2>8 DEF restore_vga_pci
  <2>9. CASE do_post
    BY <1>3, <2>9 DEF do_post, vbetool_init, Exit1
  <2>10. CASE restore_state_from
    BY <1>3, <2>10 DEF restore_state_from, vbetool_init, Exit1
  <2>11. CASE do_set_mode
    BY <1>3, <2>11 DEF do_set_mode, vbetool_init, Exit1
  <2>12. CASE resume_fbcon
    BY <1>3, <2>12 DEF resume_fbcon
  <2>13. CASE light_on
    BY <1>3, <2>13 DEF light_on
  <2> QED
    BY <1>3, <2>1, <2>2, <2>3, <2>4, <2>5, <2>6, <2>7, <2>8, <2>9, <2>10,
      <2>11, <2>12, <2>13 DEF QuirksNext
<1>4. CASE resumed
  BY <1>4 DEF resumed
<1>5. CASE SwitchVT /\ UNCHANGED <<quirkVars, mainVars>>
  BY <1>5 DEF SwitchVT
<1>6. CASE UNCHANGED vars
  BY <1>6 DEF vars
<1> QED
  BY <1>1, <1>2, <1>3, <1>4, <1>5, <1>6 DEF Next, ProgramNext

(* No step leads to the quirks on a machine that may not have them.        *)
LEMMA AllowedStep == SInv /\ [Next]_vars => AllowedInv'
<1> SUFFICES ASSUME SInv, [Next]_vars PROVE AllowedInv'
  OBVIOUS
<1> USE DEF SInv, AllowedInv, PlaceInv, TypeOK, QuirksMayRun, Hacks, Resume,
  HacksReturned, BeforeMount, BeforeConsole, OpensConsole, Locks, Locked,
  Changed, Leaves, Left, SuspendLabels, S2ramLabels
<1>1. CASE MainNext
  <2>1. CASE s2ram_main
    BY <1>1, <2>1 DEF s2ram_main, get_s2ram_config, s2ram_is_supported,
      s2ram_check, machine_match
  <2>2. CASE s2ram_called
    BY <1>1, <2>2 DEF s2ram_called
  <2>3. CASE get_config
    <3>1. program' = program /\ pc' \in {"exited", "setup"}
      BY <2>3 DEF get_config, s2ram_is_supported, s2ram_check, machine_match
    <3>2. s2ram' => program = "s2both" /\ ~s2ram_kms'
      BY <2>3 DEF get_config, s2ram_is_supported, s2ram_check, machine_match
    <3>4. ASSUME s2ram' PROVE QuirksMayRun'
      <4> DEFINE ok == Goto("setup") /\ s2ram' = TRUE
                 no == Goto("setup") /\ s2ram' = FALSE
                 einval == Goto("exited") /\ s2ram' = FALSE
      <4>1. s2ram_is_supported(ok, no, einval)
        BY <2>3, <3>4 DEF get_config
      <4>2. CASE force
        BY <4>1, <4>2 DEF s2ram_is_supported
      <4>3. CASE ~force
        <5>1. PICK id \in machine_match :
                     entry' = id /\ s2ram_check(id, ok, no)
          BY <3>4, <4>1, <4>3 DEF s2ram_is_supported
        <5> QED
          BY <3>4, <5>1 DEF s2ram_check
      <4> QED
        BY <4>2, <4>3
    <3>3. s2ram_kms' => program = "s2both"
      BY <2>3 DEF get_config, s2ram_is_supported, s2ram_check, machine_match
    <3> QED
      BY <3>1, <3>2, <3>3, <3>4
  <2>4. CASE setup
    BY <1>1, <2>4 DEF setup
  <2>5. CASE mount
    BY <1>1, <2>5 DEF mount
  <2>6. CASE open_resume
    BY <1>1, <2>6 DEF open_resume
  <2>7. CASE open_snapshot
    BY <1>1, <2>7 DEF open_snapshot
  <2>8. CASE set_swap_file
    BY <1>1, <2>8 DEF set_swap_file
  <2>9. CASE console_called
    BY <1>1, <2>9 DEF console_called
  <2>10. CASE hacks_called
    BY <1>1, <2>10 DEF hacks_called
  <2>11. CASE set_loglevel
    BY <1>1, <2>11 DEF set_loglevel
  <2>12. CASE set_swappiness
    BY <1>1, <2>12 DEF set_swappiness
  <2>13. CASE set_limits
    BY <1>1, <2>13 DEF set_limits
  <2>14. CASE suspend_system
    BY <1>1, <2>14 DEF suspend_system
  <2>15. CASE write_image
    BY <1>1, <2>15 DEF write_image
  <2>16. CASE suspend_to_ram
    BY <1>1, <2>16 DEF suspend_to_ram, SleepAndWake
  <2>17. CASE unfreeze
    BY <1>1, <2>17 DEF unfreeze
  <2>18. CASE restore_settings
    BY <1>1, <2>18 DEF restore_settings
  <2>19. CASE close_snapshot
    BY <1>1, <2>19 DEF close_snapshot
  <2>20. CASE close_resume
    BY <1>1, <2>20 DEF close_resume
  <2>21. CASE umount
    BY <1>1, <2>21 DEF umount
  <2> QED
    BY <1>1, <2>1, <2>2, <2>3, <2>4, <2>5, <2>6, <2>7, <2>8, <2>9, <2>10,
      <2>11, <2>12, <2>13, <2>14, <2>15, <2>16, <2>17, <2>18, <2>19, <2>20,
      <2>21 DEF MainNext
<1>2. CASE TerminalNext /\ UNCHANGED <<quirkVars, mainVars>>
  BY <1>2 DEF TerminalNext, prepare_console, activate_vt, redirect_kmsg,
    lock_vt, lock_mode, unlock_vt, restore_console, reset_kmsg, switch_to_vt1,
    switch_back, chvt
<1>3. CASE QuirksNext /\ UNCHANGED <<terminalVars, mainVars>>
  <2>1. CASE set_acpi_video_mode
    BY <1>3, <2>1 DEF set_acpi_video_mode
  <2>2. CASE save_state
    BY <1>3, <2>2 DEF save_state, vbetool_init, Exit1
  <2>3. CASE get_mode
    BY <1>3, <2>3 DEF get_mode, vbetool_init, Exit1
  <2>4. CASE light_off
    BY <1>3, <2>4 DEF light_off
  <2>5. CASE save_vga_pci
    BY <1>3, <2>5 DEF save_vga_pci
  <2>6. CASE suspend_fbcon
    BY <1>3, <2>6 DEF suspend_fbcon
  <2>7. CASE s2ram_generic_do
    BY <1>3, <2>7 DEF s2ram_generic_do, SleepAndWake
  <2>8. CASE restore_vga_pci
    BY <1>3, <2>8 DEF restore_vga_pci
  <2>9. CASE do_post
    BY <1>3, <2>9 DEF do_post, vbetool_init, Exit1
  <2>10. CASE restore_state_from
    BY <1>3, <2>10 DEF restore_state_from, vbetool_init, Exit1
  <2>11. CASE do_set_mode
    BY <1>3, <2>11 DEF do_set_mode, vbetool_init, Exit1
  <2>12. CASE resume_fbcon
    BY <1>3, <2>12 DEF resume_fbcon
  <2>13. CASE light_on
    BY <1>3, <2>13 DEF light_on
  <2> QED
    BY <1>3, <2>1, <2>2, <2>3, <2>4, <2>5, <2>6, <2>7, <2>8, <2>9, <2>10,
      <2>11, <2>12, <2>13 DEF QuirksNext
<1>4. CASE resumed
  BY <1>4 DEF resumed
<1>5. CASE SwitchVT /\ UNCHANGED <<quirkVars, mainVars>>
  BY <1>5 DEF SwitchVT
<1>6. CASE UNCHANGED vars
  BY <1>6 DEF vars
<1> QED
  BY <1>1, <1>2, <1>3, <1>4, <1>5, <1>6 DEF Next, ProgramNext

(* A step into s2ram_resume() comes from an s2ram_hacks() that succeeded.  *)
LEMMA SavedStep == SInv /\ [Next]_vars => SavedInv'
<1> SUFFICES ASSUME SInv, [Next]_vars PROVE SavedInv'
  OBVIOUS
<1> USE DEF SInv, SavedInv, AllowedInv, PlaceInv, VideoInv, Untouched, Hacks,
  Resume, HacksReturned, BeforeMount, BeforeConsole, OpensConsole, Locks,
  Locked, Changed, Leaves, Left, SuspendLabels, S2ramLabels
<1>1. CASE MainNext
  <2>1. CASE s2ram_main
    <3>1. ~vga_pci_state
      BY <2>1 DEF s2ram_main
    <3> QED
      BY <2>1, <3>1, ChoiceMain
  <2>2. CASE s2ram_called
    BY <1>1, <2>2 DEF s2ram_called
  <2>3. CASE get_config
    <3>1. ~vga_pci_state
      BY <2>3 DEF get_config
    <3> QED
      BY <2>3, <3>1, ChoiceMain
  <2>4. CASE setup
    BY <1>1, <2>4 DEF setup
  <2>5. CASE mount
    BY <1>1, <2>5 DEF mount
  <2>6. CASE open_resume
    BY <1>1, <2>6 DEF open_resume
  <2>7. CASE open_snapshot
    BY <1>1, <2>7 DEF open_snapshot
  <2>8. CASE set_swap_file
    BY <1>1, <2>8 DEF set_swap_file
  <2>9. CASE console_called
    BY <1>1, <2>9 DEF console_called
  <2>10. CASE hacks_called
    BY <1>1, <2>10 DEF hacks_called
  <2>11. CASE set_loglevel
    BY <1>1, <2>11 DEF set_loglevel
  <2>12. CASE set_swappiness
    BY <1>1, <2>12 DEF set_swappiness
  <2>13. CASE set_limits
    BY <1>1, <2>13 DEF set_limits
  <2>14. CASE suspend_system
    BY <1>1, <2>14 DEF suspend_system
  <2>15. CASE write_image
    BY <1>1, <2>15 DEF write_image
  <2>16. CASE suspend_to_ram
    BY <1>1, <2>16 DEF suspend_to_ram, SleepAndWake
  <2>17. CASE unfreeze
    BY <1>1, <2>17 DEF unfreeze
  <2>18. CASE restore_settings
    BY <1>1, <2>18 DEF restore_settings
  <2>19. CASE close_snapshot
    BY <1>1, <2>19 DEF close_snapshot
  <2>20. CASE close_resume
    BY <1>1, <2>20 DEF close_resume
  <2>21. CASE umount
    BY <1>1, <2>21 DEF umount
  <2> QED
    BY <1>1, <2>1, <2>2, <2>3, <2>4, <2>5, <2>6, <2>7, <2>8, <2>9, <2>10,
      <2>11, <2>12, <2>13, <2>14, <2>15, <2>16, <2>17, <2>18, <2>19, <2>20,
      <2>21 DEF MainNext
<1>2. CASE TerminalNext /\ UNCHANGED <<quirkVars, mainVars>>
  BY <1>2 DEF TerminalNext, prepare_console, activate_vt, redirect_kmsg,
    lock_vt, lock_mode, unlock_vt, restore_console, reset_kmsg, switch_to_vt1,
    switch_back, chvt
<1>3. CASE QuirksNext /\ UNCHANGED <<terminalVars, mainVars>>
  <2>1. CASE set_acpi_video_mode
    BY <1>3, <2>1 DEF set_acpi_video_mode
  <2>2. CASE save_state
    BY <1>3, <2>2 DEF save_state, vbetool_init, Exit1
  <2>3. CASE get_mode
    BY <1>3, <2>3 DEF get_mode, vbetool_init, Exit1
  <2>4. CASE light_off
    BY <1>3, <2>4 DEF light_off
  <2>5. CASE save_vga_pci
    BY <1>3, <2>5 DEF save_vga_pci
  <2>6. CASE suspend_fbcon
    BY <1>3, <2>6 DEF suspend_fbcon
  <2>7. CASE s2ram_generic_do
    BY <1>3, <2>7 DEF s2ram_generic_do, SleepAndWake
  <2>8. CASE restore_vga_pci
    BY <1>3, <2>8 DEF restore_vga_pci
  <2>9. CASE do_post
    BY <1>3, <2>9 DEF do_post, vbetool_init, Exit1
  <2>10. CASE restore_state_from
    BY <1>3, <2>10 DEF restore_state_from, vbetool_init, Exit1
  <2>11. CASE do_set_mode
    BY <1>3, <2>11 DEF do_set_mode, vbetool_init, Exit1
  <2>12. CASE resume_fbcon
    BY <1>3, <2>12 DEF resume_fbcon
  <2>13. CASE light_on
    BY <1>3, <2>13 DEF light_on
  <2> QED
    BY <1>3, <2>1, <2>2, <2>3, <2>4, <2>5, <2>6, <2>7, <2>8, <2>9, <2>10,
      <2>11, <2>12, <2>13 DEF QuirksNext
<1>4. CASE resumed
  BY <1>4 DEF resumed
<1>5. CASE SwitchVT /\ UNCHANGED <<quirkVars, mainVars>>
  BY <1>5 DEF SwitchVT
<1>6. CASE UNCHANGED vars
  BY <1>6 DEF vars
<1> QED
  BY <1>1, <1>2, <1>3, <1>4, <1>5, <1>6 DEF Next, ProgramNext

(* What s2ram_resume() has given back is not lost by a later step.         *)
LEMMA VideoStep == SInv /\ [Next]_vars => VideoInv'
<1> SUFFICES ASSUME SInv, [Next]_vars PROVE VideoInv'
  OBVIOUS
<1> USE DEF SInv, SavedInv, AllowedInv, PlaceInv, VideoInv, Untouched,
  CardBack, Awake, Hacks, Resume, HacksReturned, BeforeMount, BeforeConsole,
  OpensConsole, Locks, Locked, Changed, Leaves, Left, SuspendLabels,
  S2ramLabels
<1>1. CASE MainNext
  BY <1>1 DEF MainNext, s2ram_main, s2ram_called, get_config, setup, mount,
    open_resume, open_snapshot, set_swap_file, console_called, hacks_called,
    set_loglevel, set_swappiness, set_limits, suspend_system, write_image,
    suspend_to_ram, unfreeze, restore_settings, close_snapshot, close_resume,
    umount, get_s2ram_config, s2ram_is_supported, s2ram_check, machine_match,
    SleepAndWake
<1>2. CASE TerminalNext /\ UNCHANGED <<quirkVars, mainVars>>
  BY <1>2 DEF TerminalNext, prepare_console, activate_vt, redirect_kmsg,
    lock_vt, lock_mode, unlock_vt, restore_console, reset_kmsg, switch_to_vt1,
    switch_back, chvt
<1>3. CASE QuirksNext /\ UNCHANGED <<terminalVars, mainVars>>
  <2>1. CASE set_acpi_video_mode
    BY <1>3, <2>1 DEF set_acpi_video_mode
  <2>2. CASE save_state
    BY <1>3, <2>2 DEF save_state, vbetool_init, Exit1
  <2>3. CASE get_mode
    BY <1>3, <2>3 DEF get_mode, vbetool_init, Exit1
  <2>4. CASE light_off
    BY <1>3, <2>4 DEF light_off
  <2>5. CASE save_vga_pci
    BY <1>3, <2>5 DEF save_vga_pci
  <2>6. CASE suspend_fbcon
    BY <1>3, <2>6 DEF suspend_fbcon
  <2>7. CASE s2ram_generic_do
    BY <1>3, <2>7 DEF s2ram_generic_do, SleepAndWake
  <2>8. CASE restore_vga_pci
    BY <1>3, <2>8 DEF restore_vga_pci, pci_write_block
  <2>9. CASE do_post
    BY <1>3, <2>9 DEF do_post, vbetool_init, Exit1
  <2>10. CASE restore_state_from
    BY <1>3, <2>10 DEF restore_state_from, vbetool_init, Exit1
  <2>11. CASE do_set_mode
    BY <1>3, <2>11 DEF do_set_mode, vbetool_init, Exit1
  <2>12. CASE resume_fbcon
    BY <1>3, <2>12 DEF resume_fbcon
  <2>13. CASE light_on
    BY <1>3, <2>13 DEF light_on
  <2> QED
    BY <1>3, <2>1, <2>2, <2>3, <2>4, <2>5, <2>6, <2>7, <2>8, <2>9, <2>10,
      <2>11, <2>12, <2>13 DEF QuirksNext
<1>4. CASE resumed
  BY <1>4 DEF resumed
<1>5. CASE SwitchVT /\ UNCHANGED <<quirkVars, mainVars>>
  BY <1>5 DEF SwitchVT
<1>6. CASE UNCHANGED vars
  BY <1>6 DEF vars
<1> QED
  BY <1>1, <1>2, <1>3, <1>4, <1>5, <1>6 DEF Next, ProgramNext

(* The messages and the screen are given back with the terminal.           *)
LEMMA ConsoleStep == SInv /\ [Next]_vars => ConsoleInv'
<1> SUFFICES ASSUME SInv, [Next]_vars PROVE ConsoleInv'
  OBVIOUS
<1> USE DEF SInv, ConsoleInv, PlaceInv, LockInv, TypeOK, TerminalTypeOK,
  CanShow, CanLeave, Hacks, Resume, HacksReturned, BeforeMount, BeforeConsole,
  OpensConsole, Locks, Locked, Changed, Leaves, Left, SuspendLabels,
  S2ramLabels
<1>1. CASE MainNext
  BY <1>1 DEF MainNext, s2ram_main, s2ram_called, get_config, setup, mount,
    open_resume, open_snapshot, set_swap_file, console_called, hacks_called,
    set_loglevel, set_swappiness, set_limits, suspend_system, write_image,
    suspend_to_ram, unfreeze, restore_settings, close_snapshot, close_resume,
    umount, get_s2ram_config, s2ram_is_supported, s2ram_check, machine_match,
    SleepAndWake
<1>2. CASE TerminalNext /\ UNCHANGED <<quirkVars, mainVars>>
  <2>1. CASE prepare_console
    <3>1. program # "s2ram" /\ ~vt_open /\ orig_vc = 0
          /\ kmsg = found_kmsg
      BY <2>1 DEF prepare_console
    <3>2. set_kmsg_redirect' => found_kmsg' = 0
      BY <2>1 DEF prepare_console
    <3>3. ~set_kmsg_redirect' => kmsg' = found_kmsg'
      BY <2>1 DEF prepare_console
    <3>4. /\ pc' \notin Left /\ pc' \notin BeforeConsole
          /\ pc' # "redirect_kmsg" /\ ~vt_open'
      BY <2>1, <3>1 DEF prepare_console
    <3>5. kmsg' = found_kmsg'
      BY <2>1 DEF prepare_console
    <3>6. pc' = "activate_vt" => vt' # 0 /\ orig_vc' # 0
      BY <2>1, TerminalAssumption DEF prepare_console
    <3>7. /\ pc' = "console_enotty" => orig_vc' = 0
          /\ orig_vc' # 0 => active' = orig_vc'
      BY <2>1, <3>1 DEF prepare_console
    <3>8. pc' \in {"console_enotty", "activate_vt", "console_failed"}
      BY <2>1 DEF prepare_console
    <3> QED
      BY <3>1, <3>2, <3>3, <3>4, <3>5, <3>6, <3>7, <3>8
  <2>2. CASE activate_vt
    BY <1>2, <2>2 DEF activate_vt
  <2>3. CASE redirect_kmsg
    <3>1. program # "s2ram" /\ orig_vc # 0 /\ vt_open' /\ pc' = "console_ready"
      BY <2>3 DEF redirect_kmsg
    <3>2. set_kmsg_redirect' => found_kmsg' = 0
      BY <2>3 DEF redirect_kmsg
    <3>3. ~set_kmsg_redirect' => kmsg' = found_kmsg'
      BY <2>3 DEF redirect_kmsg
    <3> QED
      BY <2>3, <3>1, <3>2, <3>3 DEF redirect_kmsg
  <2>4. CASE lock_vt
    BY <1>2, <2>4 DEF lock_vt
  <2>5. CASE unlock_vt
    BY <1>2, <2>5 DEF unlock_vt
  <2>6. CASE restore_console
    BY <1>2, <2>6 DEF restore_console
  <2>7. CASE reset_kmsg
    BY <1>2, <2>7 DEF reset_kmsg
  <2>8. CASE switch_to_vt1
    BY <1>2, <2>8 DEF switch_to_vt1, chvt
  <2>9. CASE switch_back
    BY <1>2, <2>9 DEF switch_back, chvt
  <2>10. CASE lock_mode
    BY <1>2, <2>10 DEF lock_mode
  <2> QED
    BY <1>2, <2>1, <2>2, <2>3, <2>4, <2>5, <2>6, <2>7, <2>8, <2>9, <2>10 DEF
      TerminalNext
<1>3. CASE QuirksNext /\ UNCHANGED <<terminalVars, mainVars>>
  BY <1>3 DEF QuirksNext, set_acpi_video_mode, save_state, get_mode, light_off,
    save_vga_pci, suspend_fbcon, s2ram_generic_do, restore_vga_pci,
    do_post, restore_state_from, do_set_mode, resume_fbcon,
    light_on, vbetool_init, Exit1, SleepAndWake
<1>4. CASE resumed
  BY <1>4 DEF resumed
<1>5. CASE SwitchVT /\ UNCHANGED <<quirkVars, mainVars>>
  BY <1>5 DEF SwitchVT
<1>6. CASE UNCHANGED vars
  BY <1>6 DEF vars
<1> QED
  BY <1>1, <1>2, <1>3, <1>4, <1>5, <1>6 DEF Next, ProgramNext

-----------------------------------------------------------------------------
(* The program starts with nothing mounted, open, locked or changed. *)
LEMMA SessionInit == Init => SInv
<1> SUFFICES ASSUME Init PROVE SInv
  OBVIOUS
<1> USE DEF Init, TerminalInit, QuirksInit
<1>1. TypeOK
  <2>1. TerminalTypeOK
    <3>1. vt_mode \in [VTs -> Modes]
      BY DEF UsualMode, Modes
    <3>2. active \in VTs /\ kmsg \in VTs \union {0}
          /\ switches \in 0..MaxSwitches
      BY TerminalAssumption
    <3> QED
      BY <3>1, <3>2 DEF TerminalTypeOK, Modes
  <2>2. flags \subseteq QuirkNames \union {"NOFB"}
    BY QuirksAssumption
  <2>3. force \in BOOLEAN /\ fb_nosuspend \in BOOLEAN
    BY Zenon
  <2>4. QuirksTypeOK
    BY <2>2, <2>3 DEF QuirksTypeOK, VideoState
  <2> QED
    BY <2>1, <2>4 DEF TypeOK, Programs, Setting, Read
<1>2. PlaceInv
  BY DEF PlaceInv, S2ramLabels, SuspendLabels, BeforeConsole, BeforeMount
<1>3. MountInv /\ SettingsInv
  BY DEF MountInv, MountReleased, Returned, SettingsInv
<1>4. LockInv
  BY DEF LockInv, BeforeConsole, OpensConsole, Holding, Locked, Changed
<1>5. AllowedInv /\ SavedInv
  BY DEF AllowedInv, SavedInv, Hacks, HacksReturned, Resume
<1>6. VideoInv
  BY DEF VideoInv, Untouched
<1>7. ConsoleInv
  BY DEF ConsoleInv
<1>8. RaceInv
  BY TerminalAssumption DEF RaceInv
<1> QED
  BY <1>1, <1>2, <1>3, <1>4, <1>5, <1>6, <1>7, <1>8 DEF SInv

(* SInv holds in every state of every run of a program. *)
LEMMA SessionInvariant == Spec => []SInv
<1>1. SInv /\ [Next]_vars => SInv'
  BY TypeStep, PlaceStep, MountStep, LockStep, RaceStep, SettingsStep,
     AllowedStep, SavedStep, VideoStep, ConsoleStep DEF SInv
<1> QED
  BY <1>1, SessionInit, PTL DEF Spec

(* Each variable of the session keeps a value of its kind, whatever the    *)
(* terminals, the whitelist and the command lines are.                     *)
THEOREM SessionTyped == Spec => []TypeOK
<1>1. SInv => TypeOK
  BY DEF SInv, TypeOK
<1> QED
  BY <1>1, SessionInvariant, PTL

(* Whichever step of main() in suspend.c fails, its way out leaves no      *)
(* tmpfs mounted, unless chdir() itself fails.                             *)
THEOREM TmpfsReleased == Spec => []MountReleased
<1>1. SInv => MountReleased
  BY DEF SInv, MountInv
<1> QED
  BY <1>1, SessionInvariant, PTL

(* unlock_vt() gives its mode back to the terminal lock_vt() took it from, *)
(* however often the user has changed terminals in between: no terminal    *)
(* goes on ignoring the user but, in the race with lock_vt(), the one the  *)
(* X server was driving, which VT_SETMODE has made this program's.         *)
THEOREM TerminalUnlocked == Spec => []NoTerminalLeftLocked
<1>1. SInv => NoTerminalLeftLocked
  BY DEF SInv, NoTerminalLeftLocked, ServerLostVT, PlaceInv, LockInv, Holding,
    Locked, Changed, Hacks, HacksReturned, Resume, Returned
<1> QED
  BY <1>1, SessionInvariant, PTL

(* restore_console() and s2ram's chvt() put the user's terminal back on    *)
(* the screen, and the redirection of kernel messages is what it was.      *)
THEOREM ConsoleGivenBack == Spec => []ConsoleRestored
<1>1. SInv => ConsoleRestored
  BY DEF SInv, ConsoleRestored, ConsoleInv, Left, Returned
<1> QED
  BY <1>1, SessionInvariant, PTL

(* The loglevel and the swappiness that could be read are put back on      *)
(* every way out of main(), the limit of zero descriptors notwithstanding. *)
THEOREM SettingsGivenBack == Spec => []SettingsRestored
<1>1. SInv => SettingsRestored
  BY DEF SInv, SettingsRestored, SettingsInv, Changed, Resume, Returned
<1> QED
  BY <1>1, SessionInvariant, PTL

(* s2ram_hacks() touches the hardware only if the user forced it or the    *)
(* whitelist has exactly these quirks for the machine.                     *)
THEOREM QuirksOnlyWhereAllowed == Spec => []QuirksAllowed
<1>1. SInv => QuirksAllowed
  BY DEF SInv, QuirksAllowed, AllowedInv, QuirksMayRun, Hacks
<1> QED
  BY <1>1, SessionInvariant, PTL

(* s2ram_resume() writes the PCI configuration of the card only after      *)
(* s2ram_hacks() has read it.                                              *)
THEOREM RestoresSaved == Spec => []RestoresOnlyWhatWasSaved
<1>1. SInv => RestoresOnlyWhatWasSaved
  BY DEF SInv, RestoresOnlyWhatWasSaved, SavedInv
<1> QED
  BY <1>1, SessionInvariant, PTL

(* After a sleep in RAM everything s2ram_hacks() saved is back on the card *)
(* and stays there, the backlight is on, and the framebuffer consoles run. *)
(* What needs a descriptor, the consoles and the PCI configuration space,  *)
(* is promised only where one is left: in s2ram, not in s2both.            *)
THEOREM VideoGivenBack == Spec => []VideoBack
<1>1. SInv => VideoBack
  BY DEF SInv, VideoBack, VideoInv, Untouched, CardBack, Resume, Returned
<1> QED
  BY <1>1, SessionInvariant, PTL

-----------------------------------------------------------------------------
(* The end of the program.                                                 *)

(* The way of each program through its labels: how many are still ahead at *)
(* most.  The machine that is off comes back at "unfreeze".                *)
Ahead ==
  [get_config |-> 46, s2ram_main |-> 46, setup |-> 45, mount |-> 44,
   open_resume |-> 43, open_snapshot |-> 42, set_swap_file |-> 41,
   prepare_console |-> 40, activate_vt |-> 39, redirect_kmsg |-> 38,
   console_ready |-> 37, lock_vt |-> 36, lock_mode |-> 35,
   console_enotty |-> 34, vt_locked |-> 34, quirks |-> 33,
   switch_to_vt1 |-> 33, s2ram_hacks |-> 32, save_state |-> 31,
   get_mode |-> 30, light_off |-> 29,
   save_vga_pci |-> 28, suspend_fbcon |-> 27, hacks_done |-> 26,
   hacks_failed |-> 26, s2ram_do |-> 25, set_loglevel |-> 25,
   set_swappiness |-> 24, set_limits |-> 23, suspend_system |-> 22,
   write_image |-> 21, suspend_to_ram |-> 20, off |-> 19,
   restore_vga_pci |-> 19, do_post |-> 18, restore_state_from |-> 17,
   do_set_mode |-> 16, resume_fbcon |-> 15, light_on |-> 14,
   quirks_resumed |-> 13, unfreeze |-> 12, restore_settings |-> 11,
   unlock_vt |-> 10, lock_failed |-> 9, restore_console |-> 8,
   reset_kmsg |-> 7, console_restored |-> 6, console_failed |-> 6,
   close_snapshot |-> 5, close_resume |-> 4, umount |-> 3,
   switch_back |-> 2, s2ram_kms_do |-> 1, exited |-> 0]

(* The steps the program and the user still have. *)
StepsLeft == Ahead[pc] + (MaxSwitches - switches)

(* Every step of the program goes forward, the return from disk included. *)
LEMMA GoesForward ==
  ASSUME PlaceInv, ProgramNext \/ resumed
  PROVE  Ahead[pc] \in Nat /\ Ahead[pc'] \in Nat /\ Ahead[pc'] < Ahead[pc]
<1> USE DEF Ahead
<1>1. CASE s2ram_main \/ get_config
  <2>1. \/ /\ pc = "s2ram_main"
           /\ pc' \in {"s2ram_kms_do", "switch_to_vt1", "exited"}
        \/ pc = "get_config" /\ pc' \in {"exited", "setup"}
    BY <1>1 DEF s2ram_main, get_config, get_s2ram_config, s2ram_is_supported,
      s2ram_check, machine_match
  <2> QED BY <2>1
<1>2. CASE s2ram_called \/ console_called \/ hacks_called
  BY <1>2 DEF s2ram_called, console_called, hacks_called
<1>3. CASE setup \/ mount \/ open_resume \/ open_snapshot \/ set_swap_file
  BY <1>3 DEF setup, mount, open_resume, open_snapshot, set_swap_file
<1>4. CASE set_loglevel \/ set_swappiness \/ set_limits
  BY <1>4 DEF set_loglevel, set_swappiness, set_limits
<1>5. CASE suspend_system \/ write_image \/ suspend_to_ram \/ unfreeze
           \/ resumed
  BY <1>5 DEF suspend_system, write_image, suspend_to_ram, unfreeze, resumed
<1>6. CASE restore_settings \/ close_snapshot \/ close_resume \/ umount
  BY <1>6 DEF restore_settings, close_snapshot, close_resume, umount
<1>7. CASE TerminalNext
  <2>1. CASE \/ prepare_console \/ activate_vt \/ redirect_kmsg
             \/ lock_vt \/ lock_mode
    BY <2>1 DEF prepare_console, activate_vt, redirect_kmsg, lock_vt,
      lock_mode
  <2>2. CASE unlock_vt \/ restore_console \/ reset_kmsg
    BY <2>2 DEF unlock_vt, restore_console, reset_kmsg
  <2>3. CASE switch_to_vt1 \/ switch_back
    BY <2>3 DEF switch_to_vt1, switch_back, chvt
  <2> QED BY <1>7, <2>1, <2>2, <2>3 DEF TerminalNext
<1>8. CASE QuirksNext
  <2>1. CASE set_acpi_video_mode \/ light_off \/ save_vga_pci
             \/ suspend_fbcon \/ s2ram_generic_do
    <3>1. \/ pc = "s2ram_hacks" /\ pc' \in {"hacks_failed", "save_state"}
          \/ pc = "light_off" /\ pc' = "save_vga_pci"
          \/ pc = "save_vga_pci" /\ pc' \in {"hacks_failed", "suspend_fbcon"}
          \/ pc = "suspend_fbcon" /\ pc' = "hacks_done"
          \/ pc = "s2ram_do" /\ pc' = "restore_vga_pci"
          \/ pc = "s2ram_kms_do" /\ pc' = "exited"
      BY <2>1, Zenon DEF set_acpi_video_mode, light_off, save_vga_pci,
        suspend_fbcon, s2ram_generic_do
    <3> QED BY <3>1
  <2>2. CASE save_state \/ get_mode
    BY <2>2 DEF save_state, get_mode, vbetool_init, Exit1
  <2>3. CASE do_post \/ restore_state_from \/ do_set_mode
    BY <2>3 DEF do_post, restore_state_from, do_set_mode, vbetool_init, Exit1
  <2>4. CASE restore_vga_pci \/ resume_fbcon \/ light_on
    <3>1. \/ pc = "restore_vga_pci" /\ pc' = "do_post"
          \/ pc = "resume_fbcon" /\ pc' = "light_on"
          \/ pc = "light_on" /\ pc' = "quirks_resumed"
      BY <2>4, Zenon DEF restore_vga_pci, resume_fbcon, light_on
    <3> QED BY <3>1
  <2> QED BY <1>8, <2>1, <2>2, <2>3, <2>4 DEF QuirksNext
<1> QED
  BY <1>1, <1>2, <1>3, <1>4, <1>5, <1>6, <1>7, <1>8
  DEF ProgramNext, MainNext

(* Every program, the machine switched off and started again included,     *)
(* comes nearer to its end with every step, for any terminals, quirks and  *)
(* number of switches by the user: main() goes through its labels in one   *)
(* direction and never back to one it has left.  This is one half of       *)
(* Terminates.                                                             *)
THEOREM SessionGetsCloser ==
  Spec => [][/\ StepsLeft \in Nat
             /\ StepsLeft' \in Nat
             /\ StepsLeft' < StepsLeft]_vars
<1> DEFINE Closer == /\ StepsLeft \in Nat
                     /\ StepsLeft' \in Nat
                     /\ StepsLeft' < StepsLeft
<1>1. SInv /\ SInv' /\ Next => Closer
  <2> SUFFICES ASSUME SInv, SInv', Next PROVE Closer
    OBVIOUS
  <2>1. PICK m, n : m = switches /\ n = switches'
    OBVIOUS
  <2>2. MaxSwitches \in Nat /\ m \in 0..MaxSwitches /\ n \in 0..MaxSwitches
    BY <2>1, TerminalAssumption DEF SInv, TypeOK, TerminalTypeOK
  <2>3. PICK a, b : a = Ahead[pc] /\ b = Ahead[pc']
    OBVIOUS
  <2>4. /\ StepsLeft = a + (MaxSwitches - m)
        /\ StepsLeft' = b + (MaxSwitches - n)
    BY <2>1, <2>3 DEF StepsLeft, Ahead
  <2>5. CASE ProgramNext \/ resumed
    <3>1. a \in Nat /\ b \in Nat /\ b < a
      BY <2>3, <2>5, GoesForward DEF SInv
    <3>2. n = m
      <4>1. CASE MainNext \/ resumed
        BY <2>1, <4>1, MainLeavesTerminals
      <4>2. CASE TerminalNext
        BY <2>1, <4>2 DEF TerminalNext, prepare_console, activate_vt,
          redirect_kmsg, lock_vt, lock_mode, unlock_vt, restore_console,
          reset_kmsg, switch_to_vt1, switch_back
      <4>3. CASE QuirksNext /\ UNCHANGED <<terminalVars, mainVars>>
        BY <2>1, <4>3
      <4> QED BY <2>5, <4>1, <4>2, <4>3 DEF ProgramNext
    <3> QED BY <2>2, <2>4, <3>1, <3>2
  <2>6. CASE SwitchVT
    <3>1. n = m + 1 /\ pc' = pc
      BY <2>1, <2>6 DEF SwitchVT
    <3>2. a \in Nat /\ b = a
      <4>1. b = a
        BY <2>3, <3>1
      <4>2. pc \in S2ramLabels \union SuspendLabels
        BY DEF SInv, PlaceInv
      <4>3. Ahead[pc] \in Nat
        BY <4>2 DEF Ahead, S2ramLabels, SuspendLabels, Hacks, Resume,
          HacksReturned, BeforeMount, BeforeConsole, OpensConsole, Locks,
          Locked, Changed, Leaves, Left
      <4> QED BY <2>3, <4>1, <4>3
    <3> QED BY <2>2, <2>4, <3>1, <3>2
  <2> QED BY <2>5, <2>6 DEF Next
<1> QED
  BY <1>1, SessionInvariant, PTL DEF Spec

(* User space is frozen only between the snapshot and the way out. *)
FrozenInv ==
  frozen =>
    /\ program # "s2ram"
    /\ pc \in {"write_image", "suspend_to_ram", "off", "quirks_resumed",
               "unfreeze"} \union Resume

(* It is thawed before anything is put back. *)
LEMMA FrozenStep == SInv /\ FrozenInv /\ [Next]_vars => FrozenInv'
<1> SUFFICES ASSUME SInv, FrozenInv, [Next]_vars PROVE FrozenInv'
  OBVIOUS
<1> USE DEF FrozenInv, Resume
<1>1. CASE MainNext
  <2>1. CASE s2ram_main \/ get_config
    <3>1. pc \in {"s2ram_main", "get_config"} /\ frozen' = frozen
      BY <2>1, ChoiceMain DEF s2ram_main, get_config
    <3> QED BY <3>1
  <2>2. CASE s2ram_called \/ console_called \/ hacks_called
    BY <2>2 DEF s2ram_called, console_called, hacks_called
  <2>3. CASE setup \/ mount \/ open_resume \/ open_snapshot \/ set_swap_file
    BY <2>3 DEF setup, mount, open_resume, open_snapshot, set_swap_file
  <2>4. CASE set_loglevel \/ set_swappiness \/ set_limits
    BY <2>4 DEF set_loglevel, set_swappiness, set_limits
  <2>5. CASE suspend_system
    BY <2>5 DEF suspend_system, SInv, PlaceInv, S2ramLabels, Hacks,
      HacksReturned
  <2>6. CASE write_image \/ suspend_to_ram \/ unfreeze
    BY <2>6 DEF write_image, suspend_to_ram, unfreeze
  <2>7. CASE restore_settings \/ close_snapshot \/ close_resume \/ umount
    BY <2>7 DEF restore_settings, close_snapshot, close_resume, umount
  <2> QED BY <1>1, <2>1, <2>2, <2>3, <2>4, <2>5, <2>6, <2>7 DEF MainNext
<1>2. CASE TerminalNext
  <2>1. frozen' = frozen
    BY <1>2, TerminalProcess
  <2>2. pc \in {"prepare_console", "activate_vt", "redirect_kmsg", "lock_vt",
               "lock_mode", "unlock_vt", "restore_console", "reset_kmsg",
               "switch_to_vt1", "switch_back"}
    BY <1>2 DEF TerminalNext, prepare_console, activate_vt, redirect_kmsg,
      lock_vt, lock_mode, unlock_vt, restore_console, reset_kmsg,
      switch_to_vt1, switch_back
  <2> QED BY <2>1, <2>2
<1>3. CASE QuirksNext
  <2>1. program' = program
    BY <1>3, QuirksProcess
  <2>2. CASE set_acpi_video_mode \/ light_off \/ save_vga_pci
             \/ suspend_fbcon \/ s2ram_generic_do
    <3>1. /\ pc \in {"s2ram_hacks", "light_off", "save_vga_pci",
                     "suspend_fbcon", "s2ram_do", "s2ram_kms_do"}
          /\ frozen' = frozen
      BY <2>2, Zenon DEF set_acpi_video_mode, light_off, save_vga_pci,
        suspend_fbcon, s2ram_generic_do
    <3> QED BY <3>1
  <2>3. CASE save_state \/ get_mode
    BY <2>3 DEF save_state, get_mode, vbetool_init, Exit1
  <2>4. CASE do_post \/ restore_state_from \/ do_set_mode
    BY <2>1, <2>4 DEF do_post, restore_state_from, do_set_mode, vbetool_init,
      Exit1
  <2>5. CASE restore_vga_pci \/ resume_fbcon \/ light_on
    <3>1. /\ pc \in Resume /\ pc' \in {"do_post", "light_on", "quirks_resumed"}
          /\ frozen' = frozen
      BY <2>5, Zenon DEF restore_vga_pci, resume_fbcon, light_on
    <3> QED BY <2>1, <3>1
  <2> QED BY <1>3, <2>2, <2>3, <2>4, <2>5 DEF QuirksNext
<1>4. CASE resumed
  BY <1>4 DEF resumed
<1>5. CASE SwitchVT
  BY <1>5 DEF SwitchVT
<1>6. CASE UNCHANGED vars
  BY <1>6 DEF vars
<1> QED
  BY <1>1, <1>2, <1>3, <1>4, <1>5, <1>6 DEF Next, ProgramNext

(* Where prepare_console() waits in VT_WAITACTIVE, somebody answers the    *)
(* request to leave the terminal on the screen, however often the user has *)
(* switched.  Where restore_console() waits, the same holds with the one   *)
(* exception that Terminates has: the wait for the program itself, on the  *)
(* terminal of the X server that lock_vt() took in the race.  The terminal *)
(* the program opened never is in its way, and the X server is not frozen. *)
(* This is the other half of Terminates: nothing else the program does has *)
(* to wait for anybody.                                                    *)
THEOREM WaitsAreAnswered ==
  Spec => [](/\ pc = "activate_vt" => CanShow(vt)
             /\ pc = "reset_kmsg" => CanShow(orig_vc) \/ WaitsForItself)
<1> DEFINE Answered ==
      /\ pc = "activate_vt" => CanShow(vt)
      /\ pc = "reset_kmsg" => CanShow(orig_vc) \/ WaitsForItself
<1>1. Init => FrozenInv
  BY DEF Init, FrozenInv
<1>2. SInv /\ FrozenInv => Answered
  <2> SUFFICES ASSUME SInv, FrozenInv, pc \in {"activate_vt", "reset_kmsg"}
               PROVE  Answered
    OBVIOUS
  <2>1. ~frozen
    BY DEF FrozenInv, Resume, SInv, TypeOK
  <2>2. active \in VTs /\ XVT \in VTs
    BY TerminalAssumption DEF SInv, TypeOK, TerminalTypeOK
  <2>3. \/ vt_mode = UsualMode
        \/ ServerLostVT /\ pc = "reset_kmsg"
    BY DEF SInv, PlaceInv, LockInv, Holding, Locked, Changed, Hacks,
      HacksReturned, Resume, Leaves, Left
  <2>4. CASE vt_mode = UsualMode
    BY <2>1, <2>2, <2>4 DEF CanShow, CanLeave, UsualMode
  <2>5. CASE ServerLostVT /\ pc = "reset_kmsg"
    <3>1. CASE active = XVT
      BY <2>5, <3>1 DEF CanShow, WaitsForItself
    <3>2. CASE active # XVT
      BY <2>2, <2>5, <3>2 DEF CanShow, CanLeave, ServerLostVT, UsualMode
    <3> QED BY <3>1, <3>2
  <2> QED BY <2>3, <2>4, <2>5
<1> QED
  BY <1>1, <1>2, FrozenStep, SessionInvariant, PTL DEF Spec
=============================================================================
