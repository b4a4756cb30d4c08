------------------------------- MODULE Quirks -------------------------------
(***************************************************************************)
(* The video quirks of s2ram and s2both on x86 (s2ram-x86.c and the parts  *)
(* of s2ram.c, radeontool.c and vbetool it calls): which quirks a machine  *)
(* gets, what s2ram_hacks() does before the machine sleeps and what        *)
(* s2ram_resume() does after.  The ACPI quirks S3_BIOS and S3_MODE only    *)
(* change the number set_acpi_video_mode() writes and are left out.        *)
(***************************************************************************)
EXTENDS ToolProcess

CONSTANTS
  NONE,       \* no whitelist entry, no forced quirks in the configuration
  CmdLines,   \* the sets of quirks given on the command line
  Whitelist   \* the sets of flags the whitelist has for known machines

QuirkNames == {"VBE_SAVE", "VBE_POST", "VBE_MODE", "RADEON_OFF", "PCI_SAVE"}

ASSUME QuirksAssumption ==
  /\ CmdLines \subseteq SUBSET QuirkNames
  /\ Whitelist \subseteq SUBSET (QuirkNames \union {"NOFB"})
  /\ NONE \notin Whitelist

VARIABLES
  flags,         \* the quirks to apply
  force,         \* --force or s2ram_force: do not ask the whitelist
  fb_nosuspend,  \* --nofbsuspend
  entry,         \* the whitelist entry machine_match() found
  framebuffer,   \* is_framebuffer()
  vbe_buffer,    \* the VBE state is saved
  vbe_mode,      \* the VBE mode is saved
  vga_pci_state, \* the PCI configuration of the VGA card is saved
  lrmi,          \* the real mode interface has been set up
  light,         \* the backlight is on
  fbcon,         \* the framebuffer consoles run
  lost,          \* the video state the hardware has lost in the sleep
  posted,        \* the BIOS has initialised the card since the sleep
  slept          \* the machine has been suspended to RAM and has woken up

quirkVars == <<flags, force, fb_nosuspend, entry, framebuffer, vbe_buffer,
               vbe_mode, vga_pci_state, lrmi, light, fbcon, lost, posted,
               slept>>
choiceVars == <<flags, force, fb_nosuspend, entry, framebuffer>>
savedVars == <<vbe_buffer, vbe_mode, vga_pci_state>>
hardwareVars == <<light, fbcon, lost, posted, slept>>

VideoState == {"PCI", "VBE", "MODE"}

QuirksTypeOK ==
  /\ flags \subseteq QuirkNames \union {"NOFB"}
  /\ force \in BOOLEAN /\ fb_nosuspend \in BOOLEAN /\ framebuffer \in BOOLEAN
  /\ entry \in Whitelist \union {NONE}
  /\ vbe_buffer \in BOOLEAN /\ vbe_mode \in BOOLEAN
  /\ vga_pci_state \in BOOLEAN /\ lrmi \in BOOLEAN
  /\ light \in BOOLEAN /\ fbcon \in BOOLEAN
  /\ lost \subseteq VideoState
  /\ posted \in BOOLEAN /\ slept \in BOOLEAN

(* s2disk is built without the quirks and takes no option for them. *)
QuirksInit ==
  /\ flags \in IF program = "s2disk" THEN {{}} ELSE CmdLines
  /\ force \in IF program = "s2disk" THEN {FALSE} ELSE BOOLEAN
  /\ fb_nosuspend \in IF program = "s2disk" THEN {FALSE} ELSE BOOLEAN
  /\ entry = NONE /\ framebuffer = FALSE
  /\ vbe_buffer = FALSE /\ vbe_mode = FALSE /\ vga_pci_state = FALSE
  /\ lrmi = FALSE
  /\ light = TRUE /\ fbcon = TRUE
  /\ lost = {} /\ posted = FALSE /\ slept = FALSE

-----------------------------------------------------------------------------
(* machine_match(): what the DMI strings of the machine, compared with the *)
(* entries in their order, may come to.                                    *)
machine_match == Whitelist \union {NONE}

\* Mutant: the framebuffer is not looked for.
s2ram_check_AnyFb(id, ok, unsupported) ==
  \/ id = NONE /\ unsupported /\ UNCHANGED <<flags, framebuffer>>
  \/ /\ id # NONE
     /\ flags' = id
     /\ framebuffer' \in BOOLEAN
     /\ ok

(* s2ram_check(): the flags of the entry are taken over, also if a machine *)
(* that must not use a framebuffer is turned down because it has one.      *)
s2ram_check(id, ok, unsupported) ==
  \/ id = NONE /\ unsupported /\ UNCHANGED <<flags, framebuffer>>
  \/ /\ id # NONE
     /\ flags' = id
     /\ framebuffer' \in BOOLEAN
     /\ IF "NOFB" \in flags' /\ framebuffer' THEN unsupported ELSE ok

(* s2ram_is_supported(): quirks on the command line need --force; without  *)
(* it the whitelist decides.                                               *)
s2ram_is_supported(ok, unsupported, einval) ==
  /\ UNCHANGED <<force, fb_nosuspend>>
  /\ \/ force /\ ok /\ UNCHANGED <<flags, entry, framebuffer>>
     \/ /\ ~force /\ flags # {} /\ einval
        /\ UNCHANGED <<flags, entry, framebuffer>>
     \/ /\ ~force /\ flags = {}
        /\ \E id \in machine_match :
             entry' = id /\ s2ram_check(id, ok, unsupported)

(* get_s2ram_config() of s2ram.c: a configuration file that forces quirks  *)
(* adds them to those of the command line and leaves the whitelist out;    *)
(* any other outcome asks the whitelist.                                   *)
get_s2ram_config(ok, unsupported) ==
  \/ /\ force' = TRUE
     /\ \E quirks \in CmdLines, nosuspend \in BOOLEAN :
          /\ flags' = flags \union quirks
          /\ fb_nosuspend' = (fb_nosuspend \/ nosuspend)
     /\ ok
     /\ UNCHANGED <<entry, framebuffer>>
  \/ s2ram_is_supported(ok, unsupported, unsupported)

(* vbetool_init(): LRMI_init() opens /dev/zero and /dev/mem when it is     *)
(* called first and, on some builds of the library, whenever it is called. *)
(* The program does not survive its failure.                               *)
vbetool_init(label) ==
  \/ Exit1 /\ UNCHANGED lrmi
  \/ /\ lrmi \/ ~nofile
     /\ Goto(label)
     /\ lrmi' = TRUE

-----------------------------------------------------------------------------
(* s2ram_hacks(), one action for each device it touches. *)
set_acpi_video_mode ==
  /\ pc = "s2ram_hacks"
  /\ \/ Goto("hacks_failed")
     \/ Goto("save_state")
  /\ UNCHANGED quirkVars

(* __save_state() returns NULL if it cannot allocate real mode memory. *)
save_state ==
  /\ pc = "save_state"
  /\ \/ /\ "VBE_SAVE" \notin flags
        /\ Goto("get_mode")
        /\ UNCHANGED <<lrmi, vbe_buffer>>
     \/ /\ "VBE_SAVE" \in flags
        /\ vbetool_init("get_mode")
        /\ vbe_buffer' \in IF died' THEN {vbe_buffer} ELSE BOOLEAN
  /\ UNCHANGED <<choiceVars, vbe_mode, vga_pci_state, hardwareVars>>

(* __get_mode() is negative if the BIOS call fails. *)
get_mode ==
  /\ pc = "get_mode"
  /\ \/ /\ "VBE_MODE" \notin flags
        /\ Goto("light_off")
        /\ UNCHANGED <<lrmi, vbe_mode>>
     \/ /\ "VBE_MODE" \in flags
        /\ vbetool_init("light_off")
        /\ vbe_mode' \in IF died' THEN {vbe_mode} ELSE BOOLEAN
  /\ UNCHANGED <<choiceVars, vbe_buffer, vga_pci_state, hardwareVars>>

(* radeon_cmd_light(0) does nothing if map_radeon_cntl_mem() found no card.*)
light_off ==
  /\ pc = "light_off"
  /\ Goto("save_vga_pci")
  /\ light' \in IF "RADEON_OFF" \in flags THEN {light, FALSE} ELSE {light}
  /\ UNCHANGED <<choiceVars, savedVars, lrmi, fbcon, lost, posted, slept>>

save_vga_pci ==
  /\ pc = "save_vga_pci"
  /\ \/ /\ "PCI_SAVE" \notin flags
        /\ Goto("suspend_fbcon")
        /\ UNCHANGED vga_pci_state
     \/ /\ "PCI_SAVE" \in flags
        /\ Goto("hacks_failed")     \* find_vga() found no device
        /\ UNCHANGED vga_pci_state
     \/ /\ "PCI_SAVE" \in flags
        /\ Goto("suspend_fbcon")
        /\ vga_pci_state' = TRUE
  /\ UNCHANGED <<choiceVars, vbe_buffer, vbe_mode, lrmi, hardwareVars>>

(* fbcon_state(1): without /sys/class/graphics there is nothing to do. *)
suspend_fbcon ==
  /\ pc = "suspend_fbcon"
  /\ Goto("hacks_done")
  /\ fbcon' \in IF fb_nosuspend THEN {fbcon} ELSE {fbcon, FALSE}
  /\ UNCHANGED <<choiceVars, savedVars, lrmi, light, lost, posted, slept>>

(* The machine sleeps and wakes up again: the card has lost its state. *)
SleepAndWake ==
  /\ slept' = TRUE
  /\ lost' = VideoState
  /\ posted' = FALSE
  /\ UNCHANGED <<choiceVars, savedVars, lrmi, light, fbcon>>

(* s2ram_generic_do(): the write of "mem" to /sys/power/state. *)
s2ram_generic_do ==
  /\ \/ pc = "s2ram_do" /\ Goto("restore_vga_pci")   \* s2ram_resume() is next
     \/ pc = "s2ram_kms_do" /\ Goto("exited")
  /\ SleepAndWake \/ UNCHANGED quirkVars

-----------------------------------------------------------------------------
(* s2ram_resume(), one action for each device. *)

(* What pci_write_block() may leave lost.  The library had opened the      *)
(* configuration space for reading and may have to open it again to write. *)
(* Without a descriptor it cannot, and its result is not looked at.        *)
pci_write_block ==
  {lost \ {"PCI"}} \union (IF nofile THEN {lost} ELSE {})

restore_vga_pci ==
  /\ pc = "restore_vga_pci"
  /\ Goto("do_post")
  /\ lost' \in IF "PCI_SAVE" \in flags THEN pci_write_block ELSE {lost}
  /\ UNCHANGED <<choiceVars, savedVars, lrmi, light, fbcon, posted, slept>>

(* The video BIOS initialises the card from scratch. *)
do_post ==
  /\ pc = "do_post"
  /\ \/ /\ "VBE_POST" \notin flags
        /\ Goto("restore_state_from")
        /\ UNCHANGED <<lrmi, posted, lost>>
     \/ /\ "VBE_POST" \in flags
        /\ vbetool_init("restore_state_from")
        /\ posted' = (posted \/ ~died')
        /\ lost' = IF died' THEN lost ELSE lost \union {"VBE", "MODE"}
  /\ UNCHANGED <<choiceVars, savedVars, light, fbcon, slept>>

restore_state_from ==
  /\ pc = "restore_state_from"
  /\ \/ ~vbe_buffer /\ Goto("do_set_mode") /\ UNCHANGED <<lrmi, lost>>
     \/ /\ vbe_buffer
        /\ vbetool_init("do_set_mode")
        /\ lost' = IF died' THEN lost ELSE lost \ {"VBE"}
  /\ UNCHANGED <<choiceVars, savedVars, light, fbcon, posted, slept>>

do_set_mode ==
  /\ pc = "do_set_mode"
  /\ \/ ~vbe_mode /\ Goto("resume_fbcon") /\ UNCHANGED <<lrmi, lost>>
     \/ /\ vbe_mode
        /\ vbetool_init("resume_fbcon")
        /\ lost' = IF died' THEN lost ELSE lost \ {"MODE"}
  /\ UNCHANGED <<choiceVars, savedVars, light, fbcon, posted, slept>>

(* fbcon_state(0): opendir() needs a descriptor, and without one the       *)
(* function returns silently.                                              *)
resume_fbcon ==
  /\ pc = "resume_fbcon"
  /\ Goto("light_on")
  /\ fbcon' = IF fb_nosuspend \/ nofile THEN fbcon ELSE TRUE
  /\ UNCHANGED <<choiceVars, savedVars, lrmi, light, lost, posted, slept>>

light_on ==
  /\ pc = "light_on"
  /\ Goto("quirks_resumed")
  /\ light' = IF "RADEON_OFF" \in flags THEN TRUE ELSE light
  /\ UNCHANGED <<choiceVars, savedVars, lrmi, fbcon, lost, posted, slept>>

QuirksNext ==
  \/ set_acpi_video_mode \/ save_state \/ get_mode \/ light_off
  \/ save_vga_pci \/ suspend_fbcon
  \/ s2ram_generic_do
  \/ restore_vga_pci \/ do_post \/ restore_state_from \/ do_set_mode
  \/ resume_fbcon \/ light_on
=============================================================================
