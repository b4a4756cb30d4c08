-------------------------------- MODULE Keys --------------------------------
(***************************************************************************)
(* The passphrases and keys of an encrypted image: suspend-keygen          *)
(* (keygen.c), read_password() and encrypt_init() (encrypt.c),             *)
(* generate_key() and the key set-up in write_image() (suspend.c),         *)
(* decrypt_key() and restore_key() (load.c).  Module Image calls them and  *)
(* encrypts pages with the result.                                         *)
(*                                                                         *)
(* A string is a piece of a line somebody typed, since fgets() may cut a   *)
(* line in two: characters from + 1 to to of the line called of.           *)
(***************************************************************************)
EXTENDS Naturals, Sequences

CONSTANTS
  PASS_SIZE,    \* size of a passphrase buffer of s2disk and resume
  MAX_STR_LEN,  \* size of the passphrase buffer of suspend-keygen
  Names,        \* names of the lines users type
  Lengths,      \* bound: how many characters these lines have
  Faults        \* what may go wrong

ASSUME KeysAssumption ==
  /\ PASS_SIZE \in Nat /\ PASS_SIZE > 2
  /\ MAX_STR_LEN \in Nat /\ MAX_STR_LEN >= PASS_SIZE
  /\ Lengths \subseteq Nat

VARIABLES
  pc,        \* the next step of suspend-keygen, s2disk or resume
  stdin,     \* what is left of the line typed last, its newline not counted
  password,  \* suspend.c's password; in suspend-keygen, pass_buf
  answer,    \* load.c's password: what the user tells resume
  keyfile,   \* the passphrase the RSA key file was made with
  use_RSA,   \* generate_key() has succeeded
  weak,      \* libgcrypt finds the session key too weak to use it
  key_data,  \* key and initialization vector of s2disk
  cipher     \* cipher_handle: key and vector set, pages processed since

keyVars == <<stdin, password, answer, keyfile, use_RSA, weak, key_data, cipher>>

-----------------------------------------------------------------------------
(* Strings, keys and initialization vectors. *)

String == [of : Names \union {"none"}, from : Nat, to : Nat]

NoString == [of |-> "none", from |-> 0, to |-> 0]

NoInput == [of |-> "none", from |-> 1, to |-> 0]

Lines == [of : Names, from : {0}, to : Lengths]

Salts == {"zero", "urandom"}

(* A key is a hash of a string or, by "random", comes from /dev/urandom; a *)
(* vector is the beginning of a string, xor the salt.                      *)
Key == [by : {"none", "md5", "random"}, s : String]
Ivec == [by : {"none", "pass", "random"}, s : String, salt : Salts]

(* encrypt_init() without and with the salt. *)
md5(s) == [by |-> "md5", s |-> s]
vector(s, salt) == [by |-> "pass", s |-> s, salt |-> salt]

(* What generate_key() reads from /dev/urandom. *)
session == [key |-> [by |-> "random", s |-> NoString],
            ivec |-> [by |-> "random", s |-> NoString, salt |-> "urandom"]]

blank == [key |-> [by |-> "none", s |-> NoString],
          ivec |-> [by |-> "none", s |-> NoString, salt |-> "zero"]]

(* gcry_cipher_setkey() and gcry_cipher_setiv(): the chaining starts anew. *)
setkey(data) == [key |-> data.key, ivec |-> data.ivec, n |-> 0]

-----------------------------------------------------------------------------
(* The standard input. *)

(* What a read gets to see: the rest of the last line, or a new one. *)
Typed == IF stdin = NoInput THEN Lines ELSE {stdin}

(* fgets(s, n, stdin) returns s and leaves rest, given the line t. *)
Whole(t, n) == t.to - t.from + 1 <= n - 1

fgets(t, n) == IF Whole(t, n) THEN t ELSE [t EXCEPT !.to = t.from + n - 1]

rest(t, n) == IF Whole(t, n) THEN NoInput ELSE [t EXCEPT !.from = t.from + n - 1]

(* getchar() takes one character, perhaps the newline. *)
getchar(t) == IF t.from = t.to THEN NoInput ELSE [t EXCEPT !.from = @ + 1]

(* fgets() returned the newline only. *)
Empty(s) == s.from = s.to

-----------------------------------------------------------------------------
(* suspend-keygen; read_password() *)

(* The line t is read into password, another one while it is empty, by     *)
(* suspend-keygen and by s2disk with their own buffer sizes, and then      *)
(* confirmed; if the two differ, all is done again.                        *)
ReadPass(t, from, n, to) ==
  /\ pc = from
  /\ stdin' = rest(t, n)
  /\ IF Empty(fgets(t, n))
     THEN pc' = from /\ UNCHANGED password
     ELSE pc' = to /\ password' = fgets(t, n)
  /\ UNCHANGED <<answer, keyfile, use_RSA, weak, key_data, cipher>>

Confirm(t, from, n, again, to) ==
  /\ pc = from
  /\ stdin' = rest(t, n)
  /\ pc' = IF fgets(t, n) = password THEN to ELSE again
  /\ UNCHANGED <<password, answer, keyfile, use_RSA, weak, key_data, cipher>>

(* The key pair is made and tested first; that failing, no key file.       *)
KeygenStart ==
  /\ pc = "install"
  /\ pc' = "keygen_pass"
  /\ UNCHANGED keyVars

KeygenPass ==
  \E t \in Typed : ReadPass(t, "keygen_pass", MAX_STR_LEN, "keygen_confirm")

KeygenConfirm ==
  \E t \in Typed : Confirm(t, "keygen_confirm", MAX_STR_LEN, "keygen_pass", "keygen_write")

(* The private half is encrypted with a key made of the passphrase and     *)
(* written to the file, along with a test string.  Then it is over with    *)
(* this process; s2disk starts with an empty password.                     *)
KeygenWrite ==
  /\ pc = "keygen_write"
  /\ \/ keyfile' = password
     \/ "keygen" \in Faults /\ UNCHANGED keyfile
  /\ password' = NoString
  /\ stdin' = NoInput
  /\ pc' = "main"
  /\ UNCHANGED <<answer, use_RSA, weak, key_data, cipher>>

(* No suspend-keygen, or none that gets as far as the passphrase. *)
NoKeygen ==
  /\ pc = "install"
  /\ pc' = "main"
  /\ UNCHANGED keyVars

KeygenNext == KeygenStart \/ KeygenPass \/ KeygenConfirm \/ KeygenWrite \/ NoKeygen

-----------------------------------------------------------------------------
(* s2disk *)

(* generate_key(): use_RSA is set only when the last step has succeeded.   *)
generate_key(next) ==
  /\ keyfile # NoString
  /\ use_RSA' = TRUE
  /\ key_data' = session
  /\ weak' \in IF "weak" \in Faults THEN BOOLEAN ELSE {FALSE}
  /\ pc' = next
  /\ UNCHANGED <<stdin, password, answer, keyfile, cipher>>

(* Without a key file, or with any step failing, the passphrase is asked.  *)
generate_key_fails ==
  /\ keyfile = NoString \/ "keyfile" \in Faults
  /\ pc' = "password"
  /\ UNCHANGED keyVars

ReadPassword(t) == ReadPass(t, "password", PASS_SIZE, "confirm")

ConfirmPassword(t, next) == Confirm(t, "confirm", PASS_SIZE, "password", next)

(* write_image(): gcry_cipher_setkey() accepts the session key.            *)
Usable == use_RSA /\ ~(weak /\ key_data.key = session.key)

set_key_RSA ==
  /\ Usable
  /\ cipher' = setkey(key_data)
  /\ UNCHANGED <<stdin, password, answer, keyfile, use_RSA, weak, key_data>>

(* No_RSA: the key is made of the password, be it empty, and the salt read *)
(* from /dev/urandom or, when no descriptor is left, zero.                 *)
set_key_password(salt) ==
  /\ ~Usable
  /\ key_data' = [key |-> md5(password), ivec |-> vector(password, salt)]
  /\ cipher' = setkey(key_data')
  /\ UNCHANGED <<stdin, password, answer, keyfile, use_RSA, weak>>

-----------------------------------------------------------------------------
(* resume *)

\* Mutant: one character too few.
PassRoom_Less == PASS_SIZE - 1

(* resume: read_password() reads that much of a line. *)
PassRoom == PASS_SIZE

(* decrypt_key(): a passphrase is read until it is the one of the key.     *)
decrypt_key(t, rsa, data, next) ==
  /\ pc = "decrypt_key"
  /\ stdin' = rest(t, PassRoom)
  /\ answer' = fgets(t, PassRoom)
  /\ IF answer' = rsa
     THEN pc' = next /\ cipher' = setkey(data)
     ELSE pc' = "decrypt_key" /\ UNCHANGED cipher
  /\ UNCHANGED <<password, keyfile, use_RSA, weak, key_data>>

(* restore_key() without IMAGE_USE_RSA: any passphrase will do; whether it *)
(* is the right one shows when the image is read.                          *)
restore_key(t, salt, next) ==
  /\ pc = "restore_key"
  /\ stdin' = rest(t, PassRoom)
  /\ answer' = fgets(t, PassRoom)
  /\ IF Empty(answer')
     THEN pc' = "restore_key" /\ UNCHANGED cipher
     ELSE /\ pc' = next
          /\ cipher' = setkey([key |-> md5(answer'), ivec |-> vector(answer', salt)])
  /\ UNCHANGED <<password, keyfile, use_RSA, weak, key_data>>

KeysTypeOK ==
  /\ stdin \in String
  /\ password \in String /\ answer \in String /\ keyfile \in String
  /\ use_RSA \in BOOLEAN /\ weak \in BOOLEAN
  /\ key_data \in [key : Key, ivec : Ivec]
  /\ cipher \in [key : Key, ivec : Ivec, n : Nat]

KeysInit ==
  /\ pc = "install"
  /\ stdin = NoInput
  /\ password = NoString /\ answer = NoString /\ keyfile = NoString
  /\ use_RSA = FALSE /\ weak = FALSE
  /\ key_data = blank
  /\ cipher = setkey(blank)
=============================================================================
