------------------------------- MODULE Image -------------------------------
(***************************************************************************)
(* What is in an image and whether it can be read again: write_image(),    *)
(* save_image() and flush_buffer() of suspend.c, load_buffer(),            *)
(* load_image() and read_or_verify() of load.c, with the keys of module    *)
(* Keys.  One s2disk with its two attempts, then resume, over as many      *)
(* boots as the user likes.                                                *)
(*                                                                         *)
(* A page of the snapshot is its number.  Where a page is on the swap is   *)
(* the subject of SwapWriter, how threads pass it on that of SaveThreads,  *)
(* and when blocks reach the medium that of Hibernate; here the swap is a  *)
(* sequence of pages, written and read from its beginning.                 *)
(***************************************************************************)
EXTENDS Keys, FiniteSets

CONSTANTS
  Sizes,            \* bound: how many pages a snapshot may have
  BufPages,         \* buffer_size in pages
  PageSize,         \* page_size in units of compressed data
  WordSize,         \* sizeof(size_t) in these units
  CompressedSizes,  \* bound: what lzo1x_1_compress() may make of a buffer
  Configs,          \* configurations of s2disk
  Methods           \* configured shutdown methods

ASSUME ImageAssumption ==
  /\ Sizes \subseteq Nat \ {0}
  /\ BufPages \in Nat /\ BufPages > 1
  /\ PageSize \in Nat \ {0} /\ WordSize \in Nat
  /\ CompressedSizes \subseteq Nat \ {0}
  /\ \A c \in Configs : c \subseteq {"checksum", "verify", "compress", "encrypt", "test"}
  /\ Methods \subseteq {"platform", "shutdown", "reboot"}

VARIABLES
  options,          \* the configuration
  size_ioctl,       \* the kernel has SNAPSHOT_GET_IMAGE_SIZE
  shutdown_method,  \* suspend.c's shutdown_method
  off,              \* how the machine was switched off
  attempts,         \* attempts left in suspend_system()
  size,             \* pages of the snapshot
  taken,            \* pages read from the snapshot device
  buffer,           \* pages in handle->buffer
  ctx,              \* pages the writer's checksum is over
  swap,             \* pages written, as they are on the swap
  header,           \* struct image_header_info
  pos,              \* pages read back
  loaded,           \* pages of the image load_image() has dealt with
  sum,              \* pages the reader's checksum is over
  kernel,           \* pages the kernel has got from resume
  error,            \* why the image could not be read
  damaged           \* a page on the swap has changed

writeVars == <<options, size_ioctl, shutdown_method, off, attempts, size, taken, buffer,
               ctx, swap, header, damaged>>
readVars == <<pos, loaded, sum, kernel, error>>
vars == <<pc, keyVars, writeVars, readVars>>

Flags == {"CHECKSUM", "COMPRESSED", "ENCRYPTED", "USE_RSA", "PLATFORM_SUSPEND"}

Header == [pages : Nat, flags : SUBSET Flags, size : Nat, sum : Seq(Nat),
           salt : Salts, rsa : String, key : [key : Key, ivec : Ivec]]

NoHeader == [pages |-> 0, flags |-> {}, size |-> 0, sum |-> <<>>,
             salt |-> "zero", rsa |-> NoString, key |-> blank]

Flag(f, o) == IF o \in options THEN {f} ELSE {}

Pages(n) == [i \in 1..n |-> i]

Least(a, b) == IF a < b THEN a ELSE b

-----------------------------------------------------------------------------
(* Blocks on the swap. *)

(* A page on the swap: part number part of a block that holds the pages    *)
(* data; the first part has the size of the compressed data in it.  lock   *)
(* is the state of the cipher it was encrypted in.                         *)
Stored(data, cnt, part, k) ==
  [data |-> data, size |-> cnt, part |-> part, lock |-> [cipher EXCEPT !.n = @ + k - 1]]

Garbage == [data |-> <<0>>, size |-> 0, part |-> 0, lock |-> setkey(blank)]

(* while (size > 0) { ... size -= page_size; } *)
PagesFor(bytes) == (bytes + PageSize - 1) \div PageSize

(* flush_buffer(): checksum, compress, encrypt and save the pages b. *)
flush_buffer(b) ==
  \E cnt \in IF "compress" \in options THEN CompressedSizes ELSE {0} :
    LET blocks == IF "compress" \in options
                  THEN [k \in 1..PagesFor(cnt + WordSize) |-> Stored(b, cnt, k, k)]
                  ELSE [k \in 1..Len(b) |-> Stored(<<b[k]>>, 0, 1, k)]
    IN /\ swap' = swap \o blocks
       /\ ctx' = IF options \cap {"checksum", "verify"} # {} THEN ctx \o b ELSE ctx
       /\ cipher' = IF "encrypt" \in options THEN [cipher EXCEPT !.n = @ + Len(blocks)]
                                             ELSE cipher

-----------------------------------------------------------------------------
(* s2disk *)

(* main() up to suspend_system(): the key, or the passphrase. *)
Main ==
  /\ pc = "main"
  /\ IF "encrypt" \in options
     THEN generate_key("prepare") \/ generate_key_fails
     ELSE pc' = "prepare" /\ UNCHANGED keyVars
  /\ UNCHANGED <<writeVars, readVars>>

Password ==
  /\ \E t \in Typed : ReadPassword(t) \/ ConfirmPassword(t, "prepare")
  /\ UNCHANGED <<writeVars, readVars>>

(* suspend_system(): platform_prepare() may fail; test mode has none.      *)
Prepare ==
  /\ pc = "prepare"
  /\ pc' = "write_image"
  /\ \/ UNCHANGED shutdown_method
     \/ /\ shutdown_method = "platform" /\ "test" \notin options
        /\ "platform" \in Faults
        /\ shutdown_method' = "shutdown"
  /\ UNCHANGED <<keyVars, options, size_ioctl, off, attempts, size, taken, buffer, ctx, swap,
                 header, damaged, readVars>>

(* The number of pages is known without a look at the image; a test image  *)
(* is a file.                                                              *)
SizeKnown == size_ioctl \/ "test" \in options

\* Mutant: the second attempt goes on behind the pages of the first.
FirstPages_Kept == IF SizeKnown THEN buffer ELSE Append(buffer, 1)

(* init_swap_writer() empties the buffer; to learn the number of pages,    *)
(* write_image() then reads the first one into it.                         *)
FirstPages == IF SizeKnown THEN <<>> ELSE <<1>>

\* Mutant: the shutdown method is recorded here.
EarlyFlags_Method ==
  UNION {Flag("CHECKSUM", "checksum"), Flag("COMPRESSED", "compress"),
         IF shutdown_method = "platform" THEN {"PLATFORM_SUSPEND"} ELSE {}}

(* The flags known before the image is saved. *)
EarlyFlags == Flag("CHECKSUM", "checksum") \union Flag("COMPRESSED", "compress")

(* The snapshot, and write_image() up to the keys.  A page that is read    *)
(* here, for the number of pages that is in it, is not counted.            *)
WriteImage ==
  /\ pc = "write_image"
  /\ \E s \in Sizes :
       /\ size' = s
       /\ taken' = IF SizeKnown THEN 0 ELSE 1
       /\ header' = [NoHeader EXCEPT !.pages = s - taken', !.flags = EarlyFlags]
  /\ buffer' = FirstPages
  /\ swap' = <<>> /\ ctx' = <<>>
  /\ pc' = IF "encrypt" \in options THEN "set_key" ELSE "save"
  /\ UNCHANGED <<keyVars, options, size_ioctl, shutdown_method, off, attempts, damaged, readVars>>

\* Mutant: attempts are not counted.
TryAgain_Ever(e) == e = "ENOSPC" /\ "test" \notin options

(* write_image() fails with e: suspend_system() tries again if the swap    *)
(* was too small, with the smallest image possible.                        *)
TryAgain(e) == e = "ENOSPC" /\ attempts > 1 /\ "test" \notin options

WriteFails(e) ==
  /\ IF TryAgain(e)
     THEN pc' = "write_image" /\ attempts' = attempts - 1
     ELSE pc' = "failed" /\ UNCHANGED attempts
  /\ UNCHANGED <<options, size_ioctl, off, size, taken, buffer, ctx, swap, header, damaged,
                 readVars>>

NoSwap ==
  /\ pc = "write_image"
  /\ "ENOSPC" \in Faults
  /\ WriteFails("ENOSPC")
  /\ UNCHANGED <<keyVars, shutdown_method>>

SetKeyRSA ==
  /\ pc = "set_key"
  /\ set_key_RSA
  /\ header' = [header EXCEPT !.flags = @ \union {"ENCRYPTED", "USE_RSA"},
                              !.rsa = keyfile, !.key = session]
  /\ pc' = "save"
  /\ UNCHANGED <<options, size_ioctl, shutdown_method, off, attempts, size, taken, buffer, ctx,
                 swap, damaged, readVars>>

SetKeyPassword ==
  /\ pc = "set_key"
  /\ \E salt \in Salts :
       /\ set_key_password(salt)
       /\ header' = [header EXCEPT !.flags = @ \union {"ENCRYPTED"}, !.salt = salt]
  /\ pc' = "save"
  /\ UNCHANGED <<options, size_ioctl, shutdown_method, off, attempts, size, taken, buffer, ctx,
                 swap, damaged, readVars>>

(* The key made of the passphrase is too weak for the cipher. *)
SetKeyFails ==
  /\ pc = "set_key"
  /\ "weak" \in Faults
  /\ \E salt \in Salts : set_key_password(salt)
  /\ WriteFails("EGCRY")
  /\ UNCHANGED shutdown_method

(* One turn of save_image()'s loop: a page is read, the user may press the *)
(* reboot key, a full buffer is flushed.                                   *)
SavePage ==
  /\ pc = "save"
  /\ taken < size
  /\ taken' = taken + 1
  /\ shutdown_method' \in {shutdown_method, "reboot"}
  /\ LET b == Append(buffer, taken + 1) IN
       IF Len(b) >= BufPages
       THEN flush_buffer(b) /\ buffer' = <<>>
       ELSE buffer' = b /\ UNCHANGED <<swap, ctx, cipher>>
  /\ UNCHANGED <<pc, stdin, password, answer, keyfile, use_RSA, weak, key_data, options,
                 size_ioctl, off, attempts, size, header, damaged, readVars>>

(* Any error of save_image(), or of write_page() for the header.           *)
SaveFails ==
  /\ pc = "save"
  /\ \E e \in Faults \cap {"ENOSPC", "EIO", "EINTR"} : WriteFails(e)
  /\ UNCHANGED <<keyVars, shutdown_method>>

(* The rest is flushed, the header completed and written. *)
SaveEnd ==
  /\ pc = "save"
  /\ taken = size
  /\ IF buffer # <<>> THEN flush_buffer(buffer) ELSE UNCHANGED <<swap, ctx, cipher>>
  /\ buffer' = <<>>
  /\ header' = [header EXCEPT !.size = Len(swap'), !.sum = ctx',
                              !.flags = @ \union (IF shutdown_method = "platform"
                                                  THEN {"PLATFORM_SUSPEND"} ELSE {})]
  /\ pc' = IF options \cap {"verify", "test"} # {} THEN "verify" ELSE "mark"
  /\ UNCHANGED <<stdin, password, answer, keyfile, use_RSA, weak, key_data, options, size_ioctl,
                 shutdown_method, off, attempts, size, taken, damaged, readVars>>

(* mark_swap() and suspend_shutdown(); platform_enter() may fail.  A test  *)
(* ends with reset_signature().                                            *)
Shutdown ==
  /\ pc = "mark"
  /\ IF "test" \in options THEN pc' = "tested" /\ UNCHANGED off
     ELSE /\ pc' = "boot"
          /\ \/ off' = shutdown_method
             \/ shutdown_method = "platform" /\ "platform" \in Faults /\ off' = "power_off"
  /\ UNCHANGED <<keyVars, options, size_ioctl, shutdown_method, attempts, size, taken, buffer,
                 ctx, swap, header, damaged, readVars>>

-----------------------------------------------------------------------------
(* read_or_verify(), for s2disk (dev is not written to) and for resume.    *)

StartReading ==
  /\ pos' = 0 /\ loaded' = 0
  /\ sum' = <<>> /\ kernel' = <<>>
  /\ error' = "none"

\* Mutant: the cipher goes on where the writer left it.
Rewound_Not == cipher

(* s2disk has the key set already and only goes back to the vector. *)
Rewound == [cipher EXCEPT !.ivec = key_data.ivec, !.n = 0]

Verify ==
  /\ pc = "verify"
  /\ StartReading
  /\ cipher' = IF "ENCRYPTED" \in header.flags
               THEN Rewound ELSE cipher
  /\ pc' = "verify_load"
  /\ UNCHANGED <<stdin, password, answer, keyfile, use_RSA, weak, key_data, writeVars>>

(* The next boot: a new process, which finds the header. *)
Resume ==
  /\ pc = "boot"
  /\ StartReading
  /\ stdin' = NoInput /\ answer' = NoString
  /\ cipher' = setkey(blank)
  /\ pc' = IF "ENCRYPTED" \notin header.flags THEN "load"
           ELSE IF "USE_RSA" \in header.flags THEN "decrypt_key" ELSE "restore_key"
  /\ UNCHANGED <<password, keyfile, use_RSA, weak, key_data, writeVars>>

RestoreKey ==
  /\ \E t \in Typed :
       decrypt_key(t, header.rsa, header.key, "load") \/ restore_key(t, header.salt, "load")
  /\ UNCHANGED <<writeVars, readVars>>

(* What the user sees of a failure; in s2disk, the image is given up.      *)
Refuse(e) ==
  /\ error' = e
  /\ pc' = IF pc = "verify_load" THEN "verify_failed" ELSE "question"

(* Page i of the swap, decrypted k pages after the vector was set.  CFB:   *)
(* the vector only matters for the first page.                             *)
Decrypted(i, k) ==
  IF \/ "ENCRYPTED" \notin header.flags
     \/ /\ swap[i].lock.key = cipher.key
        /\ swap[i].lock.n = cipher.n + k
        /\ cipher.n + k = 0 => swap[i].lock.ivec = cipher.ivec
  THEN swap[i] ELSE Garbage

verify_checksum == "CHECKSUM" \in header.flags \/ (pc = "verify_load" /\ "verify" \in options)

(* load_image() takes the pages b, for which load_buffer() read k pages of *)
(* the swap: it writes them to the kernel, which looks at the first page   *)
(* of an image only, and is done when it has dealt with header->pages.     *)
load_image(b, k) ==
  LET todo == IF header.pages = 0 THEN 1 ELSE header.pages - loaded
      out  == SubSeq(b, 1, Least(Len(b), todo))
      all  == IF verify_checksum THEN sum \o b ELSE sum
  IN /\ pos' = pos + k
     /\ cipher' = IF "ENCRYPTED" \in header.flags THEN [cipher EXCEPT !.n = @ + k] ELSE cipher
     /\ sum' = all
     /\ loaded' = loaded + Len(out)
     /\ IF pc = "load" /\ kernel = <<>> /\ out[1] # 1
        THEN Refuse("kernel") /\ UNCHANGED kernel
        ELSE /\ kernel' = IF pc = "load" THEN kernel \o out ELSE kernel
             /\ IF Len(out) < todo THEN UNCHANGED <<pc, error>>
                ELSE IF verify_checksum /\ all # header.sum THEN Refuse("checksum")
                ELSE /\ pc' = IF pc = "verify_load" THEN "mark" ELSE "restore"
                     /\ UNCHANGED error
     /\ UNCHANGED <<stdin, password, answer, keyfile, use_RSA, weak, key_data, writeVars>>

LoadStops(e) ==
  /\ Refuse(e)
  /\ UNCHANGED <<keyVars, writeVars, pos, loaded, sum, kernel>>

(* load_buffer() without compression. *)
LoadPlain ==
  /\ pc \in {"load", "verify_load"}
  /\ "COMPRESSED" \notin header.flags
  /\ LET k == Least(BufPages, header.size - pos) IN
       IF k = 0 THEN LoadStops("short")
       ELSE load_image([i \in 1..k |-> Decrypted(pos + i, i - 1).data[1]], k)

(* The size of a block is not checked: what a wrong key or a damaged page  *)
(* makes of it runs load_buffer() out of the image or out of its buffer.   *)
Garbled ==
  \/ LoadStops("lzo")
  \/ /\ pc' = "crashed"
     /\ UNCHANGED <<keyVars, writeVars, readVars>>

(* while (size < block->size + sizeof(size_t)) { ... size += page_size; } *)
BlockPages(bytes) == PagesFor(bytes + WordSize)

(* load_buffer() with compression: the first page says how many follow.    *)
LoadBlock ==
  /\ pc \in {"load", "verify_load"}
  /\ "COMPRESSED" \in header.flags
  /\ IF pos >= Len(swap) THEN LoadStops("short")
     ELSE LET first == Decrypted(pos + 1, 0)
              k     == BlockPages(first.size)
              whole == /\ k = PagesFor(first.size + WordSize)
                       /\ \A i \in 1..k : LET p == Decrypted(pos + i, i - 1) IN
                            p.part = i /\ p.data = first.data
          IN IF first.part # 1 THEN Garbled
             ELSE IF pos + k > Len(swap) THEN LoadStops("short")
             ELSE IF whole THEN load_image(first.data, k)
             ELSE LoadStops("lzo") \/ load_image([i \in 1..Len(first.data) |-> 0], k)

(* A page, the header or the extents cannot be read, the kernel takes no   *)
(* more, or libgcrypt fails.                                               *)
LoadFails ==
  /\ pc \in {"load", "verify_load", "decrypt_key", "restore_key"}
  /\ "read" \in Faults
  /\ LoadStops("io")

(* reboot_question() gets one character, from what is left of a line or    *)
(* from the user: it tries again at the next boot or gives the image up.   *)
RebootQuestion ==
  /\ pc = "question"
  /\ stdin' = IF stdin = NoInput THEN NoInput ELSE getchar(stdin)
  /\ \/ pc' = "given_up"
     \/ /\ stdin = NoInput \/ ~Empty(stdin)
        /\ pc' = "boot"
  /\ UNCHANGED <<password, answer, keyfile, use_RSA, weak, key_data, cipher, writeVars, readVars>>

(* Between the boots a page of the swap changes. *)
Damage ==
  /\ pc = "boot"
  /\ "damage" \in Faults
  /\ ~damaged
  /\ damaged' = TRUE
  /\ \E i \in 1..Len(swap) : swap' = [swap EXCEPT ![i] = Garbage]
  /\ UNCHANGED <<pc, keyVars, options, size_ioctl, shutdown_method, off, attempts, size, taken,
                 buffer, ctx, header, readVars>>

-----------------------------------------------------------------------------
Init ==
  /\ KeysInit
  /\ options \in Configs
  /\ size_ioctl \in BOOLEAN
  /\ shutdown_method \in Methods
  /\ off = "on"
  /\ attempts = 2
  /\ size = 0 /\ taken = 0
  /\ buffer = <<>> /\ ctx = <<>> /\ swap = <<>>
  /\ header = NoHeader
  /\ pos = 0 /\ loaded = 0 /\ sum = <<>> /\ kernel = <<>>
  /\ error = "none"
  /\ damaged = FALSE

Keygen == KeygenNext /\ UNCHANGED <<writeVars, readVars>>

Suspend ==
  \/ Main \/ Password \/ Prepare \/ WriteImage \/ NoSwap
  \/ SetKeyRSA \/ SetKeyPassword \/ SetKeyFails
  \/ SavePage \/ SaveFails \/ SaveEnd \/ Verify \/ Shutdown

Load == LoadPlain \/ LoadBlock \/ LoadFails

Next == Keygen \/ Suspend \/ Resume \/ RestoreKey \/ Load \/ RebootQuestion \/ Damage

Spec == Init /\ [][Next]_vars

(* The programs take their next step; nothing has to fail. *)
Fairness ==
  /\ WF_vars(Keygen) /\ WF_vars(Suspend) /\ WF_vars(RestoreKey)
  /\ WF_vars(LoadPlain \/ LoadBlock)

FairSpec == Spec /\ Fairness

-----------------------------------------------------------------------------
(* Properties. *)

Labels ==
  {"install", "keygen_pass", "keygen_confirm", "keygen_write", "main", "password", "confirm",
   "prepare", "write_image", "set_key", "save", "verify", "verify_load", "verify_failed",
   "mark", "failed", "tested", "boot", "decrypt_key", "restore_key", "load", "crashed",
   "question", "given_up", "restore"}

\* Every variable has a value of its type.
TypeOK ==
  /\ pc \in Labels
  /\ KeysTypeOK
  /\ options \in Configs /\ size_ioctl \in BOOLEAN
  /\ shutdown_method \in {"platform", "shutdown", "reboot"}
  /\ attempts \in 1..2 /\ size \in Sizes \union {0} /\ taken \in 0..size
  /\ Len(buffer) < BufPages
  /\ header \in Header
  /\ header.pages <= size /\ pos <= Len(swap) /\ loaded <= size

\* When resume goes on to restore the image, the kernel has got its pages, all
\* of them, in their order: write_image() and load_image() agree on the pages
\* in a block, on the size and the number of blocks, on the key and on where
\* the chaining of the cipher starts, whatever attempts went before.  A
\* damaged swap is noticed if there is a checksum.  (A kernel without the
\* ioctl gets all but the last page, since write_image() does not count the
\* page it has read itself.)
KernelGetsImage ==
  pc = "restore" /\ (damaged => "CHECKSUM" \in header.flags) =>
    \/ kernel = Pages(size)
    \/ ~SizeKnown /\ kernel = Pages(size - 1)

\* libgcrypt found the session key too weak, and write_image() took a password
\* nobody had been asked for.
FellBack == key_data.key = md5(NoString)

\* An image that s2disk has written is refused, by the verification or by
\* resume, only for a cause: an I/O error, a damaged swap, a wrong passphrase,
\* or one of two faults of write_image() (see FellBack; without the ioctl the
\* last buffer is not loaded if only its last page is in it, and then the
\* checksum is wrong).
FailsOnlyForCause ==
  pc \in {"question", "crashed", "verify_failed"} =>
    \/ error = "io" \/ damaged
    \/ /\ pc # "verify_failed" /\ header.flags \cap {"ENCRYPTED", "USE_RSA"} = {"ENCRYPTED"}
       /\ answer # password
    \/ FellBack /\ pc # "verify_failed"
    \/ ~SizeKnown /\ error = "checksum" /\ header.pages % BufPages = 0

\* "NOTICE: This needs to go after save_image(), because the user may modify
\* the behavior": resume prepares the platform exactly if s2disk used it (or
\* tried to), though the preparation may have failed and the user may have
\* pressed the reboot key in either attempt.
PlatformAgrees ==
  pc = "restore" => ("PLATFORM_SUSPEND" \in header.flags <=> off \in {"platform", "power_off"})

\* reboot_question() is answered by the user and not by what read_password()
\* left of a passphrase: for all passphrases of up to PASS_SIZE - 2 characters.
QuestionIsAnswered ==
  pc = "question" /\ stdin # NoInput => stdin.to > PASS_SIZE - 2

\* Whenever s2disk waits for a line, the user types l.
Types(l) ==
  pc \in {"password", "confirm"} /\ stdin = NoInput =>
    ReadPassword(l) \/ ConfirmPassword(l, "prepare")

\* Whenever resume does, the user types the passphrase of the key.
TypesKey ==
  pc = "decrypt_key" /\ stdin = NoInput =>
    decrypt_key(header.rsa, header.rsa, header.key, "load") \/ error' = "io"

\* The loops that ask for a passphrase end, whatever was typed before: in
\* s2disk for a user who goes on typing one of up to PASS_SIZE - 2 characters,
\* in resume for one who knows that of the key, if it has fewer than PASS_SIZE
\* characters (suspend-keygen accepts more).
PassphraseAccepted ==
  /\ \A l \in Lines : l.to \in 1..(PASS_SIZE - 2) /\ <>[][Types(l)]_vars =>
       (pc = "password" ~> pc = "prepare")
  /\ <>[][TypesKey]_vars => (pc = "decrypt_key" /\ header.rsa.to < PASS_SIZE ~> pc # "decrypt_key")

-----------------------------------------------------------------------------
(* What the documentation says and the code does not do. *)

\* "if the user provides the right passphrase, the resume tool will decrypt
\* (k, i) needed for decrypting the image" (HOWTO, section IV): not when
\* write_image() could not use the session key.
RightPassphraseResumes ==
  use_RSA /\ answer = keyfile /\ pc \in {"question", "crashed"} => error = "io" \/ damaged
=============================================================================
