---------------------------- MODULE Image_proofs ----------------------------
(***************************************************************************)
(* The properties of Image, for images, buffers, pages and passphrases of  *)
(* any size: an image that is restored is the one that was saved, and one  *)
(* that is refused is refused for a cause.                                 *)
(*                                                                         *)
(* The inductive invariant follows the pages: from the snapshot into the   *)
(* buffer (SaveInv), from there into blocks on the swap (SwapInv), and     *)
(* from these to the kernel (ReadInv), with the key that opens the blocks  *)
(* (KeyInv).                                                               *)
(***************************************************************************)
EXTENDS Image, TLAPS, SequenceTheorems

Reading == {"load", "verify_load"}
Booted == {"boot", "decrypt_key", "restore_key", "load", "question",
           "given_up", "restore"}
Complete == {"verify", "verify_load", "verify_failed", "mark", "tested",
             "crashed"} \union Booted
Saving == {"set_key", "save"}
Early == {"install", "keygen_pass", "keygen_confirm", "keygen_write",
          "main", "password", "confirm", "prepare", "write_image"}

(* The pages of the snapshot that are on the swap. *)
Flushed == taken - Len(buffer)

(* What can be on the swap. *)
Data == Seq(Nat) \ {<<>>}
Cipher == [key : Key, ivec : Ivec, n : Nat]
Entry == [data : Data, size : Nat, part : Nat, lock : Cipher]

TypeInv ==
  /\ TypeOK
  /\ damaged \in BOOLEAN
  /\ buffer \in Seq(Nat) /\ ctx \in Seq(Nat) /\ swap \in Seq(Entry)
  /\ pos \in Nat /\ loaded \in Nat
  /\ sum \in Seq(Nat) /\ kernel \in Seq(Nat)

-----------------------------------------------------------------------------
(* The pages that have not been flushed are in the buffer, in their order, *)
(* and the checksum is over the ones that have.  The header says what the  *)
(* configuration says, and nothing has been read back.                     *)
SaveInv ==
  /\ pc \in Early \union Saving => pos = 0 /\ loaded = 0 /\ ~damaged
  /\ pc \in Saving \union Complete =>
       /\ size \in Sizes
       /\ header.pages = IF SizeKnown THEN size ELSE size - 1
       /\ "CHECKSUM" \in header.flags <=> "checksum" \in options
       /\ "COMPRESSED" \in header.flags <=> "compress" \in options
       /\ Len(buffer) <= taken
       /\ \A j \in 1..Len(buffer) : buffer[j] = Flushed + j
       /\ options \cap {"checksum", "verify"} # {} =>
            Len(ctx) = Flushed /\ \A j \in 1..Flushed : ctx[j] = j
  /\ pc \in {"save"} \union Complete =>
       ("ENCRYPTED" \in header.flags <=> "encrypt" \in options)
  /\ pc = "set_key" => swap = <<>> /\ "encrypt" \in options
  /\ pc \in Complete =>
       /\ taken = size /\ buffer = <<>>
       /\ header.size = Len(swap) /\ header.sum = ctx

(* Without compression page i of the swap is page i of the image.          *)
PlainSwap ==
  /\ Len(swap) = Flushed
  /\ \A i \in 1..Len(swap) : swap[i].data = <<i>>

(* With compression, the block after the first n pages, if there is one,   *)
(* starts at page i of the swap.                                           *)
NextBlock(i, n) ==
  \/ i = Len(swap) + 1 /\ n = Flushed
  \/ i \in 1..Len(swap) /\ swap[i].part = 1 /\ swap[i].data[1] = n + 1

(* The block that starts at page i of the swap holds consecutive pages of  *)
(* the image, all its parts are there, and the next block goes on with the *)
(* next page.  Only the last block is not full.                            *)
Block(i) ==
  LET e == swap[i]
      n == e.data[1] - 1
      k == BlockPages(e.size)
  IN /\ \A j \in 1..Len(e.data) : e.data[j] = n + j
     /\ n + Len(e.data) <= Flushed
     /\ \/ Len(e.data) = BufPages
        \/ pc \in Complete /\ n + Len(e.data) = Flushed
     /\ k > 0 /\ i + k <= Len(swap) + 1
     /\ \A j \in 1..k : swap[i + j - 1].part = j
                        /\ swap[i + j - 1].data = e.data
     /\ NextBlock(i + k, n + Len(e.data))

BlockSwap ==
  /\ NextBlock(1, 0)
  /\ \A i \in 1..Len(swap) : swap[i].part = 1 => Block(i)

(* Each page was encrypted with the key of s2disk, in its place in the     *)
(* chain.                                                                  *)
LockedSwap ==
  \A i \in 1..Len(swap) :
    /\ swap[i].lock.key = key_data.key
    /\ swap[i].lock.ivec = key_data.ivec
    /\ swap[i].lock.n = i - 1

SwapInv ==
  pc \in Saving \union Complete /\ ~damaged =>
    /\ "compress" \notin options => PlainSwap
    /\ "compress" \in options => BlockSwap
    /\ "encrypt" \in options => LockedSwap
-----------------------------------------------------------------------------
(* Which key s2disk has used, and what the header tells resume about it.   *)
KeyInv ==
  /\ pc \in {"save"} /\ "encrypt" \in options =>
       cipher = [key |-> key_data.key, ivec |-> key_data.ivec,
                 n |-> Len(swap)]
  /\ pc = "verify" /\ "encrypt" \in options => cipher.key = key_data.key
  /\ pc \in {"install", "main"} => password = NoString
  /\ use_RSA => /\ password = NoString
                /\ key_data = session \/ FellBack
                /\ pc \notin {"install", "keygen_pass", "keygen_confirm",
                             "keygen_write", "main", "password", "confirm"}
  /\ pc \in Saving \union Complete /\ "USE_RSA" \in header.flags =>
       use_RSA /\ header.key = session
  /\ pc \in Saving \union Complete /\ "USE_RSA" \notin header.flags
       /\ "ENCRYPTED" \in header.flags =>
       /\ key_data.key = md5(password)
       /\ key_data.ivec = vector(password, header.salt)
  /\ pc = "set_key" => header.flags \cap {"ENCRYPTED", "USE_RSA"} = {}
  /\ pc = "decrypt_key" => "USE_RSA" \in header.flags
  /\ pc = "restore_key" => "USE_RSA" \notin header.flags

(* The reader has the key of s2disk and, before the first page, its        *)
(* initialization vector.                                                  *)
KeyRight ==
  "ENCRYPTED" \in header.flags =>
    /\ cipher.key = key_data.key
    /\ pos = 0 => cipher.ivec = key_data.ivec

(* What the reader has got is what comes first in the image, and it is at  *)
(* the beginning of a block.                                               *)
GoodRead ==
  /\ loaded % BufPages = 0
  /\ "compress" \notin options => pos = loaded
  /\ "compress" \in options => NextBlock(pos + 1, loaded)
  /\ verify_checksum => \A j \in 1..loaded : sum[j] = j
  /\ pc = "load" => \A j \in 1..loaded : kernel[j] = j

ReadInv ==
  /\ pc \in Reading =>
       /\ "ENCRYPTED" \in header.flags => cipher.n = pos
       /\ loaded < header.pages \/ (loaded = 0 /\ header.pages = 0)
       /\ loaded = 0 => pos = 0
       /\ verify_checksum => Len(sum) = loaded
       /\ ~damaged /\ KeyRight => GoodRead
  /\ pc \in {"verify", "verify_load", "mark"} => ~damaged
  /\ pc = "verify_load" => KeyRight
  /\ pc \in {"decrypt_key", "restore_key"} =>
       pos = 0 /\ loaded = 0 /\ sum = <<>> /\ kernel = <<>>
  /\ pc = "load" =>
       /\ Len(kernel) = loaded
       /\ "CHECKSUM" \in header.flags => kernel = sum
       /\ ~damaged /\ loaded > 0 => KeyRight
       /\ ~damaged /\ ~FellBack
            /\ ("USE_RSA" \notin header.flags => answer = password)
            => KeyRight

IInv ==
  /\ TypeInv /\ SaveInv /\ SwapInv /\ KeyInv /\ ReadInv
  /\ KernelGetsImage /\ FailsOnlyForCause

(* The header says how the machine was, or will be, switched off.          *)
PlatformInv ==
  /\ pc \in Saving => "PLATFORM_SUSPEND" \notin header.flags
  /\ pc \in {"verify", "verify_load", "mark"} =>
       ("PLATFORM_SUSPEND" \in header.flags <=> shutdown_method = "platform")
  /\ pc \in Booted =>
       ("PLATFORM_SUSPEND" \in header.flags
          <=> off \in {"platform", "power_off"})

(* Whatever read_password() leaves of a line is the end of a long one. *)
InputInv ==
  pc \in Booted \ {"boot", "given_up"} /\ stdin # NoInput =>
    stdin.to > PASS_SIZE - 2
-----------------------------------------------------------------------------
(* A block of compressed data takes at least one page. *)
LEMMA PagesForPositive ==
  ASSUME NEW b \in Nat
  PROVE  PagesFor(b) \in Nat /\ (b > 0 => PagesFor(b) > 0)
<1>1. PageSize \in Nat /\ PageSize > 0
  BY ImageAssumption
<1>2. b + PageSize - 1 \in Nat
  BY <1>1
<1>3. PagesFor(b) \in Int
  BY <1>1, <1>2 DEF PagesFor
<1>4. /\ PageSize * PagesFor(b) <= b + PageSize - 1
      /\ b + PageSize - 1 < PageSize * (PagesFor(b) + 1)
  BY <1>1, <1>2, SMT DEF PagesFor
<1>5. PagesFor(b) >= 0
  BY <1>1, <1>2, <1>3, <1>4, SMT
<1>6. b > 0 => PagesFor(b) # 0
  BY <1>1, <1>2, <1>3, <1>4, SMT
<1> QED
  BY <1>3, <1>5, <1>6

(* Full buffers end at multiples of their size. *)
LEMMA Multiple ==
  ASSUME NEW n \in Nat, n % BufPages = 0
  PROVE  (n + BufPages) % BufPages = 0
<1> DEFINE q == n \div BufPages
           d == (n + BufPages) \div BufPages
           r == (n + BufPages) % BufPages
<1>1. BufPages \in Nat /\ BufPages > 0
  BY ImageAssumption
<1>2. q \in Int /\ n = BufPages * q
  BY <1>1, SMT
<1>3. d \in Int /\ n + BufPages = BufPages * d + r
  BY <1>1, SMT
<1>4. r \in Int /\ 0 <= r /\ r < BufPages
  BY <1>1, SMT
<1> HIDE DEF q, d, r
<1>5. PICK e \in Int : e = q + 1 - d
  BY <1>2, <1>3
<1>6. BufPages * e = r
  BY <1>1, <1>2, <1>3, <1>4, <1>5, SMT
<1>7. e >= 1 => BufPages * e >= BufPages
  BY <1>1, SMT
<1>8. e <= -1 => BufPages * e < 0
  BY <1>1, SMT
<1>9. e = 0 => r = 0
  BY <1>1, <1>6, SMT
<1>10. r = 0
  BY <1>1, <1>4, <1>5, <1>6, <1>7, <1>8, <1>9
<1> QED
  BY <1>10 DEF r

-----------------------------------------------------------------------------
(* What fgets() and getchar() return and leave is a piece of the line. *)
LEMMA Strings ==
  /\ NoString \in String /\ NoInput \in String
  /\ \A t \in Lines : t \in String
  /\ \A t \in String : getchar(t) \in String
  /\ \A t \in String, n \in Nat \ {0} :
       /\ fgets(t, n) \in String
       /\ rest(t, n) \in String
       /\ rest(t, n) # NoInput => t.to - t.from > n - 2 /\ rest(t, n).to = t.to
<1>1. NoString \in String /\ NoInput \in String
  BY DEF String, NoString, NoInput
<1>2. ASSUME NEW t \in Lines PROVE t \in String
  <2>1. /\ t = [of |-> t.of, from |-> t.from, to |-> t.to]
        /\ t.of \in Names /\ t.from = 0 /\ t.to \in Lengths
    BY DEF Lines
  <2>2. t.of \in Names \union {"none"} /\ t.from \in Nat /\ t.to \in Nat
    BY <2>1, KeysAssumption
  <2> QED
    BY <2>1, <2>2 DEF String
<1>3. \A t \in String : getchar(t) \in String
  BY <1>1 DEF String, getchar
<1>4. ASSUME NEW t \in String, NEW n \in Nat \ {0}
      PROVE  /\ fgets(t, n) \in String
             /\ rest(t, n) \in String
             /\ rest(t, n) # NoInput =>
                  t.to - t.from > n - 2 /\ rest(t, n).to = t.to
  BY <1>1 DEF String, fgets, rest, Whole
<1> QED
  BY <1>1, <1>2, <1>3, <1>4

(* Keys are made of strings. *)
LEMMA KeyTypes ==
  /\ blank \in [key : Key, ivec : Ivec]
  /\ session \in [key : Key, ivec : Ivec]
  /\ \A s \in String, salt \in Salts :
       [key |-> md5(s), ivec |-> vector(s, salt)] \in [key : Key, ivec : Ivec]
  /\ \A d \in [key : Key, ivec : Ivec] : setkey(d) \in Cipher
BY Strings DEF blank, session, md5, vector, Key, Ivec, Salts, setkey, Cipher

(* What is typed, or left of it, is a string. *)
LEMMA TypedString == stdin \in String => \A t \in Typed : t \in String
BY Strings DEF Typed

(* The data load_buffer() has decrypted are of the kind that was stored. *)
LEMMA GarbageType == Garbage \in Entry
<1>1. <<0>> \in Data
  BY DEF Data
<1> QED
  BY <1>1, KeyTypes DEF Garbage, Entry

-----------------------------------------------------------------------------
(* The pages flush_buffer() puts on the swap. *)
Blocks(b, blocks) ==
  /\ blocks \in Seq(Entry)
  /\ "compress" \notin options =>
       /\ Len(blocks) = Len(b)
       /\ \A k \in 1..Len(b) : blocks[k] = Stored(<<b[k]>>, 0, 1, k)
  /\ "compress" \in options =>
       \E cnt \in CompressedSizes :
         /\ Len(blocks) = BlockPages(cnt)
         /\ \A k \in 1..Len(blocks) : blocks[k] = Stored(b, cnt, k, k)

(* flush_buffer() adds these pages to the swap, and b to the checksum. *)
LEMMA FlushResult ==
  ASSUME TypeInv, NEW b \in Data, flush_buffer(b)
  PROVE  \E blocks :
           /\ Blocks(b, blocks)
           /\ swap' = swap \o blocks
           /\ ctx' = IF options \cap {"checksum", "verify"} # {}
                     THEN ctx \o b ELSE ctx
           /\ cipher' = IF "encrypt" \in options
                        THEN [cipher EXCEPT !.n = @ + Len(blocks)]
                        ELSE cipher
<1>1. b \in Seq(Nat) /\ Len(b) \in Nat /\ cipher \in Cipher
  BY DEF Data, TypeInv, TypeOK, KeysTypeOK, Cipher
<1>2. ASSUME NEW d \in Data, NEW cnt \in Nat, NEW part \in Nat,
             NEW k \in Nat \ {0}
      PROVE  Stored(d, cnt, part, k) \in Entry
  <2>1. [cipher EXCEPT !.n = @ + k - 1] \in Cipher
    <3>1. cipher.n \in Nat /\ cipher.n + k - 1 \in Nat
      BY <1>1 DEF Cipher
    <3> QED
      BY <1>1, <3>1 DEF Cipher
  <2> QED
    BY <2>1, Zenon DEF Stored, Entry
<1>3. CASE "compress" \in options
  <2>1. PICK cnt \in CompressedSizes :
          LET blocks == [k \in 1..PagesFor(cnt + WordSize)
                           |-> Stored(b, cnt, k, k)]
          IN /\ swap' = swap \o blocks
             /\ ctx' = IF options \cap {"checksum", "verify"} # {}
                       THEN ctx \o b ELSE ctx
             /\ cipher' = IF "encrypt" \in options
                          THEN [cipher EXCEPT !.n = @ + Len(blocks)]
                          ELSE cipher
    BY <1>3 DEF flush_buffer
  <2> DEFINE n == PagesFor(cnt + WordSize)
             blocks == [k \in 1..n |-> Stored(b, cnt, k, k)]
  <2>2. cnt \in Nat /\ n \in Nat
    BY PagesForPositive, ImageAssumption
  <2>3. \A k \in 1..n : Stored(b, cnt, k, k) \in Entry
    BY <1>2, <2>2
  <2> HIDE DEF n
  <2>4. blocks \in Seq(Entry) /\ Len(blocks) = n
    BY <2>2, <2>3, IsASeq
  <2>5. \A k \in 1..Len(blocks) : blocks[k] = Stored(b, cnt, k, k)
    BY <2>2, <2>4
  <2>6. Blocks(b, blocks)
    BY <1>3, <2>4, <2>5 DEF Blocks, BlockPages, n
  <2> QED
    BY <2>1, <2>6 DEF n
<1>4. CASE "compress" \notin options
  <2> DEFINE blocks == [k \in 1..Len(b) |-> Stored(<<b[k]>>, 0, 1, k)]
  <2>1. /\ swap' = swap \o blocks
        /\ ctx' = IF options \cap {"checksum", "verify"} # {}
                  THEN ctx \o b ELSE ctx
        /\ cipher' = IF "encrypt" \in options
                     THEN [cipher EXCEPT !.n = @ + Len(blocks)]
                     ELSE cipher
    BY <1>4 DEF flush_buffer
  <2>2. \A k \in 1..Len(b) : <<b[k]>> \in Data
    BY <1>1 DEF Data
  <2>3. ASSUME NEW k \in 1..Len(b)
        PROVE  Stored(<<b[k]>>, 0, 1, k) \in Entry
    <3>1. <<b[k]>> \in Data /\ k \in Nat \ {0}
      BY <1>1, <2>2
    <3> HIDE DEF blocks
    <3> QED
      BY <1>2, <3>1, Zenon
  <2>4. blocks \in Seq(Entry) /\ Len(blocks) = Len(b)
    BY <1>1, <2>3, IsASeq
  <2>5. Blocks(b, blocks)
    BY <1>4, <2>4 DEF Blocks
  <2> QED
    BY <2>1, <2>5
<1> QED
  BY <1>3, <1>4

-----------------------------------------------------------------------------
(* The number of pages load_image() still wants. *)
Todo == IF header.pages = 0 THEN 1 ELSE header.pages - loaded

(* The four ways a turn of load_image() may end: the kernel refuses the    *)
(* first page, there are more pages to come, the checksum is wrong, or the *)
(* image is complete.                                                      *)
Refused(b) ==
  /\ pc = "load" /\ kernel = <<>> /\ b[1] # 1
  /\ pc' = "question" /\ error' = "kernel" /\ kernel' = kernel

GoesOn(b) ==
  /\ Len(b) < Todo
  /\ loaded' = loaded + Len(b)
  /\ pc' = pc /\ error' = error
  /\ kernel' = IF pc = "load" THEN kernel \o b ELSE kernel

Mismatch(b) ==
  /\ Len(b) >= Todo
  /\ verify_checksum /\ sum' # header.sum
  /\ error' = "checksum"
  /\ pc' = IF pc = "verify_load" THEN "verify_failed" ELSE "question"

Done(b) ==
  /\ Len(b) >= Todo
  /\ loaded' = loaded + Todo
  /\ verify_checksum => sum' = header.sum
  /\ error' = error
  /\ pc' = IF pc = "verify_load" THEN "mark" ELSE "restore"
  /\ kernel' = IF pc = "load" THEN kernel \o SubSeq(b, 1, Todo) ELSE kernel

Turn(b, k) ==
  /\ pos' = pos + k
  /\ cipher' = IF "ENCRYPTED" \in header.flags
               THEN [cipher EXCEPT !.n = @ + k] ELSE cipher
  /\ sum' = IF verify_checksum THEN sum \o b ELSE sum
  /\ loaded' \in 0..size
  /\ kernel' \in Seq(Nat)
  /\ UNCHANGED <<stdin, password, answer, keyfile, use_RSA, weak, key_data,
                 writeVars>>
  /\ \/ Refused(b)
     \/ /\ pc = "load" /\ kernel = <<>> => b[1] = 1
        /\ GoesOn(b) \/ Mismatch(b) \/ Done(b)

(* load_image() does one of these. *)
LEMMA LoadResult ==
  ASSUME IInv, pc \in Reading, NEW b \in Data, NEW k \in Nat,
         load_image(b, k)
  PROVE  Turn(b, k)
<1> DEFINE out == SubSeq(b, 1, Least(Len(b), Todo))
<1>1. b \in Seq(Nat) /\ Len(b) \in Nat /\ Len(b) > 0
  BY DEF Data
<1>2. /\ Todo \in Nat /\ Todo > 0 /\ loaded + Todo <= size
      /\ loaded \in Nat /\ size \in Nat
  <2>1. /\ header.pages \in Nat /\ loaded \in Nat /\ size \in Nat /\ size > 0
        /\ header.pages <= size
    BY ImageAssumption DEF IInv, TypeInv, TypeOK, SaveInv, Reading, Complete,
      Booted, Header
  <2>2. loaded < header.pages \/ (loaded = 0 /\ header.pages = 0)
    BY DEF IInv, ReadInv
  <2> QED
    BY <2>1, <2>2 DEF Todo
<1>3. Least(Len(b), Todo) \in 1..Len(b) /\ Least(Len(b), Todo) <= Todo
  BY <1>1, <1>2 DEF Least
<1>4. /\ out \in Seq(Nat) /\ Len(out) = Least(Len(b), Todo)
      /\ out[1] = b[1]
  BY <1>1, <1>3, SubSeqProperties
<1>5. Len(b) < Todo => out = b
  BY <1>1, <1>2, <1>4 DEF Least
<1>6. Len(b) >= Todo => Len(out) = Todo /\ out = SubSeq(b, 1, Todo)
  BY <1>1, <1>2, <1>4 DEF Least
<1>7. kernel \in Seq(Nat)
  BY DEF IInv, TypeInv
<1>8. kernel \o out \in Seq(Nat)
  BY <1>4, <1>7
<1>9. /\ pos' = pos + k
      /\ cipher' = IF "ENCRYPTED" \in header.flags
                   THEN [cipher EXCEPT !.n = @ + k] ELSE cipher
      /\ sum' = IF verify_checksum THEN sum \o b ELSE sum
      /\ loaded' = loaded + Len(out)
      /\ UNCHANGED <<stdin, password, answer, keyfile, use_RSA, weak,
                     key_data, writeVars>>
  BY DEF load_image, Todo
<1>10. \/ /\ pc = "load" /\ kernel = <<>> /\ out[1] # 1
          /\ Refuse("kernel") /\ kernel' = kernel
       \/ /\ ~(pc = "load" /\ kernel = <<>> /\ out[1] # 1)
          /\ kernel' = IF pc = "load" THEN kernel \o out ELSE kernel
          /\ \/ Len(out) < Todo /\ pc' = pc /\ error' = error
             \/ /\ ~(Len(out) < Todo)
                /\ verify_checksum /\ sum' # header.sum
                /\ Refuse("checksum")
             \/ /\ ~(Len(out) < Todo)
                /\ ~(verify_checksum /\ sum' # header.sum)
                /\ pc' = IF pc = "verify_load" THEN "mark" ELSE "restore"
                /\ error' = error
  BY DEF load_image, Todo
<1> HIDE DEF out
<1>11. loaded' \in 0..size /\ kernel' \in Seq(Nat)
  <2>1. Len(out) \in Nat /\ Len(out) <= Todo
    BY <1>1, <1>3, <1>4
  <2>2. loaded' \in 0..size
    BY <1>2, <1>9, <2>1
  <2>3. kernel' = kernel \/ kernel' = kernel \o out
    BY <1>10
  <2> QED
    BY <1>7, <1>8, <2>2, <2>3
<1>12. CASE /\ pc = "load" /\ kernel = <<>> /\ out[1] # 1
            /\ Refuse("kernel") /\ kernel' = kernel
  BY <1>4, <1>9, <1>11, <1>12 DEF Turn, Refused, Refuse
<1>13. CASE /\ ~(pc = "load" /\ kernel = <<>> /\ out[1] # 1)
            /\ kernel' = IF pc = "load" THEN kernel \o out ELSE kernel
            /\ Len(out) < Todo /\ pc' = pc /\ error' = error
  <2>1. Len(b) < Todo /\ out = b
    BY <1>1, <1>2, <1>5, <1>6, <1>13
  <2>2. GoesOn(b)
    BY <1>9, <1>13, <2>1 DEF GoesOn
  <2> QED
    BY <1>4, <1>9, <1>11, <1>13, <2>2 DEF Turn
<1>14. CASE /\ ~(pc = "load" /\ kernel = <<>> /\ out[1] # 1)
            /\ ~(Len(out) < Todo)
            /\ verify_checksum /\ sum' # header.sum
            /\ Refuse("checksum")
  <2>1. Len(b) >= Todo
    BY <1>1, <1>2, <1>5, <1>14
  <2>2. Mismatch(b)
    BY <1>14, <2>1 DEF Mismatch, Refuse
  <2> QED
    BY <1>4, <1>9, <1>11, <1>14, <2>2 DEF Turn
<1>15. CASE /\ ~(pc = "load" /\ kernel = <<>> /\ out[1] # 1)
            /\ kernel' = IF pc = "load" THEN kernel \o out ELSE kernel
            /\ ~(Len(out) < Todo)
            /\ ~(verify_checksum /\ sum' # header.sum)
            /\ pc' = IF pc = "verify_load" THEN "mark" ELSE "restore"
            /\ error' = error
  <2>1. Len(b) >= Todo /\ Len(out) = Todo /\ out = SubSeq(b, 1, Todo)
    BY <1>1, <1>2, <1>5, <1>6, <1>15
  <2>2. Done(b)
    BY <1>9, <1>15, <2>1 DEF Done
  <2> QED
    BY <1>4, <1>9, <1>11, <1>15, <2>2 DEF Turn
<1> QED
  BY <1>10, <1>12, <1>13, <1>14, <1>15

-----------------------------------------------------------------------------
(* The facts about the image a reader relies on. *)
LEMMA ReadFacts ==
  ASSUME IInv, pc \in Reading
  PROVE  /\ swap \in Seq(Entry) /\ Len(swap) \in Nat
         /\ pos \in Nat /\ loaded \in Nat /\ pos <= Len(swap)
         /\ size \in Nat /\ size > 0
         /\ header.pages \in Nat /\ header.pages <= size
         /\ header.pages >= size - 1
         /\ header.size = Len(swap)
         /\ Flushed = size
         /\ loaded < header.pages \/ (loaded = 0 /\ header.pages = 0)
         /\ cipher \in Cipher
<1>1. pc \in Complete
  BY DEF Reading, Complete, Booted
<1>2. /\ size \in Nat /\ size > 0 /\ header.size = Len(swap)
      /\ taken = size /\ buffer = <<>>
      /\ header.pages = IF SizeKnown THEN size ELSE size - 1
  <2>1. /\ size \in Sizes /\ header.size = Len(swap)
        /\ taken = size /\ buffer = <<>>
        /\ header.pages = IF SizeKnown THEN size ELSE size - 1
    BY <1>1, Zenon DEF IInv, SaveInv
  <2> QED
    BY <2>1, ImageAssumption
<1>3. Flushed = size
  BY <1>2 DEF Flushed
<1>4. /\ swap \in Seq(Entry) /\ pos \in Nat /\ loaded \in Nat
      /\ pos <= Len(swap) /\ cipher \in Cipher
      /\ header.pages \in Nat /\ header.pages <= size
  BY DEF IInv, TypeInv, TypeOK, Header, KeysTypeOK, Cipher
<1>5. loaded < header.pages \/ (loaded = 0 /\ header.pages = 0)
  BY DEF IInv, ReadInv
<1> QED
  BY <1>2, <1>3, <1>4, <1>5

(* Whatever the key is, a page of the swap decrypts to something. *)
LEMMA DecryptedType ==
  ASSUME swap \in Seq(Entry), NEW i \in 1..Len(swap), NEW k
  PROVE  Decrypted(i, k) \in Entry
BY GarbageType DEF Decrypted

(* A turn of load_image() or the end of reading. *)
LEMMA LoadCases ==
  ASSUME IInv, LoadPlain \/ LoadBlock
  PROVE  /\ pc \in Reading
         /\ \/ \E e \in {"short", "lzo"} : LoadStops(e)
            \/ /\ pc' = "crashed"
               /\ UNCHANGED <<keyVars, writeVars, readVars>>
            \/ \E b \in Data, k \in Nat :
                 pos + k <= Len(swap) /\ Turn(b, k)
<1>1. pc \in Reading
  BY DEF LoadPlain, LoadBlock, Reading
<1>2. /\ swap \in Seq(Entry) /\ Len(swap) \in Nat
      /\ pos \in Nat /\ pos <= Len(swap) /\ header.size = Len(swap)
  BY <1>1, ReadFacts
<1>3. CASE LoadPlain
  <2> DEFINE k == Least(BufPages, header.size - pos)
             b == [i \in 1..k |-> Decrypted(pos + i, i - 1).data[1]]
  <2>1. k \in Nat /\ pos + k <= Len(swap)
    BY <1>2, ImageAssumption DEF Least
  <2>2. \/ k = 0 /\ LoadStops("short")
        \/ k # 0 /\ load_image(b, k)
    BY <1>3 DEF LoadPlain
  <2> HIDE DEF k
  <2>3. ASSUME NEW i \in 1..k PROVE Decrypted(pos + i, i - 1).data[1] \in Nat
    <3>1. pos + i \in 1..Len(swap)
      BY <1>2, <2>1
    <3>2. Decrypted(pos + i, i - 1) \in Entry
      BY <1>2, <3>1, DecryptedType
    <3> QED
      BY <3>2 DEF Entry, Data
  <2>4. b \in Seq(Nat) /\ Len(b) = k
    BY <2>1, <2>3, IsASeq
  <2> HIDE DEF b
  <2>5. CASE k # 0
    <3>1. b \in Data
      BY <2>1, <2>4, <2>5 DEF Data
    <3>2. Turn(b, k)
      BY <1>1, <2>1, <2>2, <2>5, <3>1, LoadResult
    <3> QED
      BY <1>1, <2>1, <3>1, <3>2
  <2> QED
    BY <1>1, <2>2, <2>5
<1>4. CASE LoadBlock
  <2> DEFINE first == Decrypted(pos + 1, 0)
             k == BlockPages(first.size)
  <2>1. \/ LoadStops("short") \/ LoadStops("lzo")
        \/ pc' = "crashed" /\ UNCHANGED <<keyVars, writeVars, readVars>>
        \/ /\ ~(pos >= Len(swap)) /\ ~(pos + k > Len(swap))
           /\ \/ load_image(first.data, k)
              \/ load_image([i \in 1..Len(first.data) |-> 0], k)
    BY <1>4 DEF LoadBlock, Garbled
  <2>2. CASE /\ ~(pos >= Len(swap)) /\ ~(pos + k > Len(swap))
             /\ \/ load_image(first.data, k)
                \/ load_image([i \in 1..Len(first.data) |-> 0], k)
    <3>1. pos + 1 \in 1..Len(swap)
      BY <1>2, <2>2
    <3>2. first \in Entry
      BY <1>2, <3>1, DecryptedType
    <3>3. first.size \in Nat /\ first.data \in Data
      BY <3>2 DEF Entry
    <3>4. k \in Nat
      BY <3>3, PagesForPositive, ImageAssumption DEF BlockPages
    <3> HIDE DEF k, first
    <3>5. Len(first.data) \in Nat /\ Len(first.data) > 0
      BY <3>3 DEF Data
    <3>6. [i \in 1..Len(first.data) |-> 0] \in Data
      BY <3>5 DEF Data
    <3>7. pos + k <= Len(swap)
      BY <1>2, <2>2, <3>4
    <3> QED
      BY <1>1, <2>2, <3>3, <3>4, <3>6, <3>7, LoadResult
  <2> QED
    BY <1>1, <2>1, <2>2
<1> QED
  BY <1>3, <1>4

-----------------------------------------------------------------------------
(* With the right key, what is read is what was written. *)
LEMMA RightKeyReads ==
  ASSUME IInv, pc \in Reading, ~damaged, KeyRight,
         NEW i \in Nat, i > 0, pos + i <= Len(swap)
  PROVE  Decrypted(pos + i, i - 1) = swap[pos + i]
<1>1. pos \in Nat /\ Len(swap) \in Nat
  BY ReadFacts
<1>2. CASE "ENCRYPTED" \in header.flags
  <2>1. LockedSwap /\ cipher.n = pos
    BY <1>2 DEF IInv, SwapInv, SaveInv, ReadInv, Reading, Complete, Booted
  <2>2. /\ swap[pos + i].lock.key = key_data.key
        /\ swap[pos + i].lock.ivec = key_data.ivec
        /\ swap[pos + i].lock.n = pos + i - 1
    BY <1>1, <2>1 DEF LockedSwap
  <2>3. cipher.n + (i - 1) = pos + i - 1
    BY <1>1, <2>1
  <2>4. cipher.key = key_data.key /\ (pos = 0 => cipher.ivec = key_data.ivec)
    BY <1>2 DEF KeyRight
  <2>5. cipher.n + (i - 1) = 0 => pos = 0
    BY <1>1, <2>1
  <2> QED
    BY <2>2, <2>3, <2>4, <2>5 DEF Decrypted
<1>3. CASE "ENCRYPTED" \notin header.flags
  BY <1>3 DEF Decrypted
<1> QED
  BY <1>2, <1>3

(* With a wrong one, nothing is read at all: the first page is garbage, so *)
(* it is refused as the beginning of an image or of a block.               *)
LEMMA WrongKeyStops ==
  ASSUME IInv, pc = "load", ~damaged, ~KeyRight, LoadPlain \/ LoadBlock
  PROVE  pc' \in {"question", "crashed"}
<1>1. pc \in Reading
  BY DEF Reading
<1>2. /\ Len(swap) \in Nat /\ pos \in Nat /\ loaded \in Nat
      /\ header.size = Len(swap) /\ cipher \in Cipher
  BY <1>1, ReadFacts
<1>3. /\ loaded = 0 /\ pos = 0
      /\ cipher.n = 0
      /\ "ENCRYPTED" \in header.flags
      /\ Len(kernel) = 0 /\ kernel \in Seq(Nat)
  BY <1>1, <1>2 DEF IInv, TypeInv, ReadInv, KeyRight
<1>4. kernel = <<>>
  BY <1>3
<1>5. LockedSwap
  BY <1>1, <1>3 DEF IInv, SwapInv, SaveInv, Reading, Complete, Booted
<1>6. Len(swap) > 0 => Decrypted(1, 0) = Garbage
  <2> SUFFICES ASSUME Len(swap) > 0 PROVE Decrypted(1, 0) = Garbage
    OBVIOUS
  <2>1. /\ swap[1].lock.key = key_data.key
        /\ swap[1].lock.ivec = key_data.ivec
    BY <1>2, <1>5 DEF LockedSwap
  <2>2. cipher.key # key_data.key \/ cipher.ivec # key_data.ivec
    BY <1>3 DEF KeyRight
  <2> QED
    BY <1>3, <2>1, <2>2 DEF Decrypted
<1>7. CASE LoadPlain
  <2> DEFINE k == Least(BufPages, header.size - pos)
             b == [i \in 1..k |-> Decrypted(pos + i, i - 1).data[1]]
  <2>1. k \in Nat /\ (k # 0 => Len(swap) > 0)
    BY <1>2, <1>3, ImageAssumption DEF Least
  <2>2. \/ k = 0 /\ LoadStops("short")
        \/ k # 0 /\ load_image(b, k)
    BY <1>7 DEF LoadPlain
  <2>3. CASE k # 0 /\ load_image(b, k)
    <3>1. b[1] = 0
      BY <1>3, <1>6, <2>1, <2>3 DEF Garbage
    <3>2. /\ Todo \in Nat /\ Todo > 0
      BY <1>1, ReadFacts DEF Todo
    <3>3. Len(b) = k
      BY <2>1
    <3> HIDE DEF b, k
    <3>4. Least(Len(b), Todo) \in Nat /\ 1 <= Least(Len(b), Todo)
      BY <2>1, <2>3, <3>2, <3>3 DEF Least
    <3>5. SubSeq(b, 1, Least(Len(b), Todo))[1] = b[1]
      BY <3>4
    <3>6. SubSeq(b, 1, Least(Len(b), Todo))[1] # 1 => Refuse("kernel")
      BY <1>4, <2>3 DEF load_image, Todo
    <3>7. b[1] # 1
      BY <3>1
    <3>8. Refuse("kernel")
      BY <3>5, <3>6, <3>7, Zenon
    <3> QED
      BY <3>8 DEF Refuse
  <2>4. CASE LoadStops("short")
    BY <2>4 DEF LoadStops, Refuse
  <2> QED
    BY <2>2, <2>3, <2>4
<1>8. CASE LoadBlock
  <2>1. CASE pos >= Len(swap)
    BY <1>8, <2>1 DEF LoadBlock, LoadStops, Refuse
  <2>2. CASE pos < Len(swap)
    <3>1. Decrypted(pos + 1, 0).part # 1
      BY <1>2, <1>3, <1>6, <2>2 DEF Garbage
    <3> QED
      BY <1>2, <1>8, <2>2, <3>1 DEF LoadBlock, Garbled, LoadStops, Refuse
  <2> QED
    BY <1>2, <2>1, <2>2
<1> QED
  BY <1>7, <1>8

(* A turn that reads the next pages of the image: a full buffer or the     *)
(* last ones.                                                              *)
GoodTurn(b, k) ==
  /\ pos + k <= Len(swap)
  /\ Turn(b, k)
  /\ \A j \in 1..Len(b) : b[j] = loaded + j
  /\ loaded + Len(b) <= size
  /\ Len(b) = BufPages \/ loaded + Len(b) = size
  /\ "compress" \notin options => k = Len(b)
  /\ "compress" \in options => NextBlock(pos + k + 1, loaded + Len(b))

(* With the right key and an undamaged swap every turn is one. *)
LEMMA RightKeyTurns ==
  ASSUME IInv, ~damaged, KeyRight, LoadPlain \/ LoadBlock
  PROVE  \E b \in Data, k \in Nat : GoodTurn(b, k)
<1>1. pc \in Reading
  BY DEF LoadPlain, LoadBlock, Reading
<1>2. /\ swap \in Seq(Entry) /\ Len(swap) \in Nat
      /\ pos \in Nat /\ loaded \in Nat /\ pos <= Len(swap)
      /\ size \in Nat /\ size > 0 /\ loaded < size
      /\ header.size = Len(swap) /\ Flushed = size
  BY <1>1, ReadFacts
<1>3. GoodRead
  BY <1>1 DEF IInv, ReadInv
<1>4. "COMPRESSED" \in header.flags <=> "compress" \in options
  BY <1>1 DEF IInv, SaveInv, Reading, Complete, Booted
<1>5. BufPages \in Nat /\ BufPages > 0
  BY ImageAssumption
<1>6. CASE LoadPlain
  <2> DEFINE k == Least(BufPages, header.size - pos)
             b == [i \in 1..k |-> Decrypted(pos + i, i - 1).data[1]]
  <2>1. "compress" \notin options
    BY <1>4, <1>6 DEF LoadPlain
  <2>2. PlainSwap
    BY <1>1, <2>1 DEF IInv, SwapInv, Reading, Complete, Booted
  <2>3. pos = loaded /\ Len(swap) = size
    BY <1>2, <1>3, <2>1, <2>2 DEF GoodRead, PlainSwap
  <2>4. /\ k \in Nat /\ k > 0 /\ pos + k <= Len(swap)
        /\ k = BufPages \/ loaded + k = size
    BY <1>2, <1>5, <2>3 DEF Least
  <2>5. load_image(b, k)
    BY <1>6, <2>4 DEF LoadPlain
  <2> HIDE DEF k
  <2>6. ASSUME NEW i \in 1..k
        PROVE  Decrypted(pos + i, i - 1).data[1] = loaded + i
    <3>1. i \in Nat /\ i > 0 /\ pos + i <= Len(swap)
      BY <1>2, <2>4
    <3>2. Decrypted(pos + i, i - 1) = swap[pos + i]
      BY <1>1, <3>1, RightKeyReads
    <3>3. swap[pos + i].data = <<pos + i>>
      BY <1>2, <2>2, <3>1 DEF PlainSwap
    <3> QED
      BY <2>3, <3>2, <3>3
  <2>7. b \in Seq(Nat) /\ Len(b) = k /\ \A i \in 1..k : b[i] = loaded + i
    <3>1. \A i \in 1..k : Decrypted(pos + i, i - 1).data[1] \in Nat
      BY <1>2, <2>4, <2>6
    <3> QED
      BY <2>4, <2>6, <3>1, IsASeq
  <2> HIDE DEF b
  <2>8. b \in Data
    BY <2>4, <2>7 DEF Data
  <2>9. Turn(b, k)
    BY <1>1, <2>4, <2>5, <2>8, LoadResult
  <2>10. GoodTurn(b, k)
    BY <1>2, <2>1, <2>3, <2>4, <2>7, <2>9 DEF GoodTurn
  <2> QED
    BY <2>4, <2>8, <2>10
<1>7. CASE LoadBlock
  <2> DEFINE first == swap[pos + 1]
             k == BlockPages(first.size)
  <2>1. "compress" \in options
    BY <1>4, <1>7 DEF LoadBlock
  <2>2. BlockSwap
    BY <1>1, <2>1 DEF IInv, SwapInv, Reading, Complete, Booted
  <2>3. NextBlock(pos + 1, loaded)
    BY <1>3, <2>1 DEF GoodRead
  <2>4. /\ pos + 1 \in 1..Len(swap) /\ first.part = 1
        /\ first.data[1] = loaded + 1
    BY <1>2, <2>3 DEF NextBlock
  <2>5. Block(pos + 1)
    BY <2>2, <2>4 DEF BlockSwap
  <2>6. first.data \in Data /\ first.size \in Nat
    <3>1. swap[pos + 1] \in Entry
      BY <1>2, <2>4, ElementOfSeq
    <3> QED
      BY <3>1 DEF Entry
  <2>7. first.data[1] - 1 = loaded
    BY <1>2, <2>4
  <2>8. /\ \A j \in 1..Len(first.data) : first.data[j] = loaded + j
        /\ loaded + Len(first.data) <= size
        /\ Len(first.data) = BufPages \/ loaded + Len(first.data) = size
        /\ k > 0 /\ (pos + 1) + k <= Len(swap) + 1
        /\ \A j \in 1..k : /\ swap[(pos + 1) + j - 1].part = j
                           /\ swap[(pos + 1) + j - 1].data = first.data
        /\ NextBlock((pos + 1) + k, loaded + Len(first.data))
    BY <1>2, <2>5, <2>7 DEF Block
  <2>9. k \in Nat
    BY <2>6, PagesForPositive, ImageAssumption DEF BlockPages
  <2>10. Decrypted(pos + 1, 0) = first
    BY <1>1, <1>2, <2>4, RightKeyReads, 1 - 1 = 0
  <2> HIDE DEF first, k
  <2>11. ASSUME NEW i \in 1..k
         PROVE  /\ Decrypted(pos + i, i - 1).part = i
                /\ Decrypted(pos + i, i - 1).data = first.data
    <3>1. i \in Nat /\ i > 0 /\ pos + i <= Len(swap)
      BY <1>2, <2>8, <2>9
    <3>2. Decrypted(pos + i, i - 1) = swap[pos + i]
      BY <1>1, <3>1, RightKeyReads
    <3>3. (pos + 1) + i - 1 = pos + i
      BY <1>2, <3>1
    <3> QED
      BY <2>8, <3>2, <3>3
  <2>12. load_image(first.data, k)
    <3>1. ~(pos >= Len(swap)) /\ ~(pos + k > Len(swap))
      BY <1>2, <2>4, <2>8, <2>9
    <3>2. k = PagesFor(first.size + WordSize)
      BY DEF k, BlockPages
    <3>3. k = BlockPages(first.size)
      BY DEF k
    <3>4. first.part = 1
      BY <2>4 DEF first
    <3> QED
      BY <1>7, <2>10, <2>11, <3>1, <3>2, <3>3, <3>4, Zenon DEF LoadBlock
  <2>13. Turn(first.data, k)
    BY <1>1, <2>6, <2>9, <2>12, LoadResult DEF first
  <2>14. (pos + 1) + k = pos + k + 1 /\ pos + k <= Len(swap)
    BY <1>2, <2>8, <2>9
  <2>15. GoodTurn(first.data, k)
    BY <2>1, <2>8, <2>13, <2>14 DEF GoodTurn
  <2> QED
    BY <2>6, <2>9, <2>15 DEF first
<1> QED
  BY <1>6, <1>7

-----------------------------------------------------------------------------
(* The pages b leave the buffer for the swap. *)
Flush(b, blocks) ==
  /\ Blocks(b, blocks)
  /\ swap' = swap \o blocks
  /\ ctx' = IF options \cap {"checksum", "verify"} # {} THEN ctx \o b ELSE ctx
  /\ cipher' = IF "encrypt" \in options
               THEN [cipher EXCEPT !.n = @ + Len(blocks)] ELSE cipher
  /\ \A j \in 1..Len(b) : b[j] = Flushed + j
  /\ buffer' = <<>> /\ taken' = Flushed + Len(b)
  /\ Len(b) = BufPages \/ SaveEnd

(* What saving leaves alone. *)
saved == <<stdin, password, answer, keyfile, use_RSA, weak, key_data, options,
           size_ioctl, off, attempts, size, damaged, readVars>>

(* The facts about a buffer that is being filled. *)
LEMMA SaveFacts ==
  ASSUME IInv, pc \in Saving \union Complete
  PROVE  /\ buffer \in Seq(Nat) /\ Len(buffer) \in Nat
         /\ Len(buffer) < BufPages /\ Len(buffer) <= taken
         /\ taken \in Nat /\ size \in Nat /\ taken <= size /\ size > 0
         /\ \A j \in 1..Len(buffer) : buffer[j] = Flushed + j
         /\ Flushed \in Nat /\ taken = Flushed + Len(buffer)
<1>1. /\ buffer \in Seq(Nat) /\ Len(buffer) < BufPages
      /\ size \in Sizes \union {0} /\ taken \in 0..size
  BY DEF IInv, TypeInv, TypeOK
<1>2. /\ size \in Sizes /\ Len(buffer) <= taken
      /\ \A j \in 1..Len(buffer) : buffer[j] = Flushed + j
  BY DEF IInv, SaveInv
<1>3. size \in Nat /\ size > 0
  BY <1>2, ImageAssumption
<1>4. Len(buffer) \in Nat /\ taken \in Nat /\ taken <= size
  BY <1>1, <1>3
<1> QED
  BY <1>1, <1>2, <1>3, <1>4 DEF Flushed

(* save_image() keeps a page, flushes a full buffer or, at the end, what   *)
(* there is left.                                                          *)
LEMMA SaveCases ==
  ASSUME IInv, SavePage \/ SaveEnd
  PROVE  /\ pc = "save" /\ UNCHANGED saved
         /\ \/ /\ SavePage
               /\ pc' = pc /\ header' = header
               /\ taken < size /\ taken' = taken + 1
            \/ /\ SaveEnd
               /\ pc' \in {"verify", "mark"}
               /\ taken = size /\ taken' = taken
               /\ header' = [header EXCEPT !.size = Len(swap'), !.sum = ctx',
                               !.flags = @ \union
                                   (IF shutdown_method = "platform"
                                    THEN {"PLATFORM_SUSPEND"} ELSE {})]
         /\ \/ /\ SavePage
               /\ buffer' = Append(buffer, taken + 1)
               /\ Len(buffer') < BufPages
               /\ UNCHANGED <<swap, ctx, cipher>>
            \/ /\ SaveEnd
               /\ buffer = <<>> /\ buffer' = <<>>
               /\ UNCHANGED <<swap, ctx, cipher>>
            \/ \E b \in Data : \E blocks : Flush(b, blocks)
<1>1. pc = "save" /\ UNCHANGED saved
  BY DEF SavePage, SaveEnd, saved
<1>2. /\ buffer \in Seq(Nat) /\ Len(buffer) \in Nat
      /\ Len(buffer) < BufPages /\ taken \in Nat
      /\ \A j \in 1..Len(buffer) : buffer[j] = Flushed + j
      /\ Flushed \in Nat /\ taken = Flushed + Len(buffer)
  BY <1>1, SaveFacts DEF Saving
<1>3. TypeInv
  BY DEF IInv
<1>4. \/ /\ SavePage
         /\ pc' = pc /\ header' = header
         /\ taken < size /\ taken' = taken + 1
      \/ /\ SaveEnd
         /\ pc' \in {"verify", "mark"}
         /\ taken = size /\ taken' = taken
         /\ header' = [header EXCEPT !.size = Len(swap'), !.sum = ctx',
                         !.flags = @ \union
                             (IF shutdown_method = "platform"
                              THEN {"PLATFORM_SUSPEND"} ELSE {})]
  BY DEF SavePage, SaveEnd
<1>5. CASE SavePage
  <2> DEFINE b == Append(buffer, taken + 1)
  <2>1. /\ b \in Seq(Nat) /\ Len(b) = Len(buffer) + 1
        /\ \A j \in 1..Len(buffer) : b[j] = buffer[j]
        /\ b[Len(buffer) + 1] = taken + 1
    BY <1>2, AppendProperties
  <2>2. \/ /\ Len(b) < BufPages /\ buffer' = b
           /\ UNCHANGED <<swap, ctx, cipher>>
        \/ /\ Len(b) >= BufPages
           /\ flush_buffer(b) /\ buffer' = <<>>
    BY <1>5, <2>1, ImageAssumption DEF SavePage
  <2> HIDE DEF b
  <2>3. CASE /\ Len(b) < BufPages /\ buffer' = b
             /\ UNCHANGED <<swap, ctx, cipher>>
    BY <1>1, <1>4, <1>5, <2>3 DEF b
  <2>4. CASE Len(b) >= BufPages /\ flush_buffer(b) /\ buffer' = <<>>
    <3>1. b \in Data
      BY <1>2, <2>1 DEF Data
    <3>2. PICK blocks :
            /\ Blocks(b, blocks)
            /\ swap' = swap \o blocks
            /\ ctx' = IF options \cap {"checksum", "verify"} # {}
                      THEN ctx \o b ELSE ctx
            /\ cipher' = IF "encrypt" \in options
                         THEN [cipher EXCEPT !.n = @ + Len(blocks)]
                         ELSE cipher
      BY <1>3, <2>4, <3>1, FlushResult
    <3>3. Len(b) = BufPages
      BY <1>2, <2>1, <2>4, ImageAssumption
    <3>4. ASSUME NEW j \in 1..Len(b) PROVE b[j] = Flushed + j
      <4>1. j \in 1..Len(buffer) \/ j = Len(buffer) + 1
        BY <1>2, <2>1
      <4>2. Flushed + (Len(buffer) + 1) = taken + 1
        BY <1>2
      <4> QED
        BY <1>2, <2>1, <4>1, <4>2
    <3>5. taken' = Flushed + Len(b)
      BY <1>2, <1>5, <2>1 DEF SavePage
    <3>6. Flush(b, blocks)
      BY <2>4, <3>2, <3>3, <3>4, <3>5 DEF Flush
    <3> QED
      BY <1>1, <1>4, <3>1, <3>6
  <2> QED
    BY <2>2, <2>3, <2>4
<1>6. CASE SaveEnd
  <2>1. buffer' = <<>> /\ taken' = taken
    BY <1>6 DEF SaveEnd
  <2>2. CASE buffer = <<>>
    BY <1>1, <1>4, <1>6, <2>1, <2>2 DEF SaveEnd
  <2>3. CASE buffer # <<>>
    <3>1. buffer \in Data
      BY <1>2, <2>3 DEF Data
    <3>2. PICK blocks :
            /\ Blocks(buffer, blocks)
            /\ swap' = swap \o blocks
            /\ ctx' = IF options \cap {"checksum", "verify"} # {}
                      THEN ctx \o buffer ELSE ctx
            /\ cipher' = IF "encrypt" \in options
                         THEN [cipher EXCEPT !.n = @ + Len(blocks)]
                         ELSE cipher
      BY <1>3, <1>6, <2>3, <3>1, FlushResult DEF SaveEnd
    <3>3. Flush(buffer, blocks)
      BY <1>2, <1>6, <2>1, <3>2 DEF Flush
    <3> QED
      BY <1>1, <1>4, <3>1, <3>3
  <2> QED
    BY <2>2, <2>3
<1> QED
  BY <1>5, <1>6

-----------------------------------------------------------------------------
(* The keys and what the user types keep their types. *)
LEMMA KeysTypeStep ==
  ASSUME IInv, Next
  PROVE  KeysTypeOK'
<1>1. KeysTypeOK /\ cipher \in Cipher /\ TypeInv
  BY DEF IInv, TypeInv, TypeOK, KeysTypeOK, Cipher
<1>2. stdin \in String /\ \A t \in Typed : t \in String
  BY <1>1, TypedString DEF KeysTypeOK
<1>3. PASS_SIZE \in Nat \ {0} /\ MAX_STR_LEN \in Nat \ {0}
  BY KeysAssumption
<1>4. PassRoom \in Nat \ {0}
  BY <1>3 DEF PassRoom
<1>5. CASE Keygen
  <2>1. CASE KeygenStart \/ NoKeygen
    BY <1>1, <2>1 DEF KeygenStart, NoKeygen, KeysTypeOK, keyVars
  <2>2. CASE KeygenPass
    BY <1>1, <1>2, <1>3, <2>2, Strings DEF KeygenPass, ReadPass, KeysTypeOK
  <2>3. CASE KeygenConfirm
    BY <1>1, <1>2, <1>3, <2>3, Strings DEF KeygenConfirm, Confirm, KeysTypeOK
  <2>4. CASE KeygenWrite
    BY <1>1, <2>4, Strings DEF KeygenWrite, KeysTypeOK
  <2> QED
    BY <1>5, <2>1, <2>2, <2>3, <2>4 DEF Keygen, KeygenNext
<1>6. CASE Main
  <2>1. UNCHANGED keyVars \/ generate_key("prepare")
    BY <1>6 DEF Main, generate_key_fails
  <2>2. CASE generate_key("prepare")
    BY <1>1, <2>2, KeyTypes DEF generate_key, KeysTypeOK
  <2> QED
    BY <1>1, <2>1, <2>2 DEF KeysTypeOK, keyVars
<1>7. CASE Password
  BY <1>1, <1>2, <1>3, <1>7, Strings
     DEF Password, ReadPassword, ConfirmPassword, ReadPass, Confirm, KeysTypeOK
<1>8. CASE SetKeyRSA
  BY <1>1, <1>8, KeyTypes DEF SetKeyRSA, set_key_RSA, KeysTypeOK, Cipher
<1>9. CASE SetKeyPassword \/ SetKeyFails
  <2>1. PICK salt \in Salts : set_key_password(salt)
    BY <1>9 DEF SetKeyPassword, SetKeyFails
  <2>2. key_data' \in [key : Key, ivec : Ivec]
    BY <1>1, <2>1, KeyTypes DEF set_key_password, KeysTypeOK
  <2>3. cipher' \in Cipher
    BY <2>1, <2>2, KeyTypes DEF set_key_password
  <2> QED
    BY <1>1, <2>1, <2>2, <2>3 DEF set_key_password, KeysTypeOK, Cipher
<1>10. CASE SavePage \/ SaveEnd
  <2>1. cipher' \in Cipher
    <3>1. CASE UNCHANGED cipher
      BY <1>1, <3>1
    <3>2. ASSUME NEW b \in Data, NEW blocks, Flush(b, blocks)
          PROVE  cipher' \in Cipher
      <4>1. Len(blocks) \in Nat
        BY <3>2 DEF Flush, Blocks
      <4>2. cipher' = cipher \/ cipher' = [cipher EXCEPT !.n = @ + Len(blocks)]
        BY <3>2 DEF Flush
      <4> QED
        BY <1>1, <4>1, <4>2 DEF Cipher
    <3> QED
      BY <1>10, <3>1, <3>2, SaveCases
  <2>2. UNCHANGED saved
    BY <1>10, SaveCases
  <2> QED
    BY <1>1, <2>1, <2>2 DEF KeysTypeOK, saved, Cipher
<1>11. CASE Verify
  <2>1. cipher' \in Cipher
    BY <1>1, <1>11 DEF Verify, Rewound, Cipher, KeysTypeOK
  <2> QED
    BY <1>1, <1>11, <2>1 DEF Verify, KeysTypeOK, Cipher
<1>12. CASE Resume
  BY <1>1, <1>12, KeyTypes, Strings DEF Resume, KeysTypeOK, Cipher
<1>13. CASE RestoreKey
  <2>1. header.key \in [key : Key, ivec : Ivec] /\ header.salt \in Salts
    BY DEF IInv, TypeInv, TypeOK, Header
  <2>2. PICK t \in Typed :
          decrypt_key(t, header.rsa, header.key, "load")
          \/ restore_key(t, header.salt, "load")
    BY <1>13 DEF RestoreKey
  <2>3. /\ stdin' \in String /\ answer' \in String
        /\ UNCHANGED <<password, keyfile, use_RSA, weak, key_data>>
    BY <1>2, <1>4, <2>2, Strings DEF decrypt_key, restore_key
  <2>4. \/ cipher' = cipher \/ cipher' = setkey(header.key)
        \/ cipher' = setkey([key |-> md5(answer'),
                             ivec |-> vector(answer', header.salt)])
    BY <2>2 DEF decrypt_key, restore_key
  <2>5. cipher' \in Cipher
    BY <1>1, <2>1, <2>3, <2>4, KeyTypes
  <2> QED
    BY <1>1, <2>3, <2>5 DEF KeysTypeOK, Cipher
<1>14. CASE LoadPlain \/ LoadBlock
  <2>1. CASE \E e \in {"short", "lzo"} : LoadStops(e)
    BY <1>1, <2>1 DEF LoadStops, KeysTypeOK, keyVars
  <2>2. CASE UNCHANGED keyVars
    BY <1>1, <2>2 DEF KeysTypeOK, keyVars
  <2>3. ASSUME NEW b \in Data, NEW k \in Nat, Turn(b, k)
        PROVE  KeysTypeOK'
    <3>1. cipher' \in Cipher
      <4>1. cipher' = cipher \/ cipher' = [cipher EXCEPT !.n = @ + k]
        BY <2>3 DEF Turn
      <4>2. cipher.n + k \in Nat
        BY <1>1 DEF Cipher
      <4> QED
        BY <1>1, <4>1, <4>2 DEF Cipher
    <3> QED
      BY <1>1, <2>3, <3>1 DEF Turn, KeysTypeOK, Cipher
  <2> QED
    BY <1>14, <2>1, <2>2, <2>3, LoadCases
<1>15. CASE LoadFails
  BY <1>1, <1>15 DEF LoadFails, LoadStops, KeysTypeOK, keyVars
<1>16. CASE RebootQuestion
  BY <1>1, <1>2, <1>16, Strings DEF RebootQuestion, KeysTypeOK
<1>17. CASE Prepare \/ WriteImage \/ NoSwap \/ SaveFails \/ Shutdown \/ Damage
  <2>1. UNCHANGED keyVars
    BY <1>17 DEF Prepare, WriteImage, NoSwap, SaveFails, Shutdown, Damage
  <2> QED
    BY <1>1, <2>1 DEF KeysTypeOK, keyVars
<1> QED
  BY <1>5, <1>6, <1>7, <1>8, <1>9, <1>10, <1>11, <1>12, <1>13, <1>14, <1>15,
     <1>16, <1>17 DEF Next, Suspend, Load

(* The programs go from step to step. *)
LEMMA LabelStep ==
  ASSUME IInv, Next
  PROVE  pc' \in Labels
<1>1. pc \in Labels
  BY DEF IInv, TypeInv, TypeOK
<1>2. CASE Keygen
  BY <1>2 DEF Keygen, KeygenNext, KeygenStart, NoKeygen, KeygenPass,
     KeygenConfirm, KeygenWrite, ReadPass, Confirm, Labels
<1>3. CASE Main \/ Password
  BY <1>3 DEF Main, Password, generate_key, generate_key_fails, ReadPassword,
     ConfirmPassword, ReadPass, Confirm, Labels
<1>4. CASE Prepare \/ WriteImage \/ NoSwap \/ SetKeyRSA \/ SetKeyPassword
           \/ SetKeyFails \/ SaveFails \/ Verify \/ Shutdown
  BY <1>4 DEF Prepare, WriteImage, NoSwap, SetKeyRSA, SetKeyPassword,
     SetKeyFails, SaveFails, WriteFails, Verify, Shutdown, Labels
<1>5. CASE SavePage \/ SaveEnd
  BY <1>1, <1>5 DEF SavePage, SaveEnd, Labels
<1>6. CASE Resume \/ RestoreKey \/ RebootQuestion \/ Damage
  BY <1>1, <1>6 DEF Resume, RestoreKey, decrypt_key, restore_key,
     RebootQuestion, Damage, Labels
<1>7. CASE LoadFails
  BY <1>7 DEF LoadFails, LoadStops, Refuse, Labels
<1>8. CASE LoadPlain \/ LoadBlock
  <2>1. ASSUME NEW b \in Data, NEW k \in Nat, Turn(b, k)
        PROVE  pc' \in Labels
    BY <1>1, <2>1 DEF Turn, Refused, GoesOn, Mismatch, Done, Labels
  <2>2. CASE \E e \in {"short", "lzo"} : LoadStops(e)
    BY <2>2 DEF LoadStops, Refuse, Labels
  <2>3. CASE pc' = "crashed"
    BY <2>3 DEF Labels
  <2> QED
    BY <1>8, <2>1, <2>2, <2>3, LoadCases
<1> QED
  BY <1>2, <1>3, <1>4, <1>5, <1>6, <1>7, <1>8 DEF Next, Suspend, Load

(* The types of the variables of Image itself. *)
WriteType ==
  /\ options \in Configs /\ size_ioctl \in BOOLEAN
  /\ shutdown_method \in {"platform", "shutdown", "reboot"}
  /\ attempts \in 1..2 /\ size \in Sizes \union {0} /\ taken \in 0..size
  /\ Len(buffer) < BufPages
  /\ header \in Header /\ header.pages <= size
  /\ damaged \in BOOLEAN
  /\ buffer \in Seq(Nat) /\ ctx \in Seq(Nat) /\ swap \in Seq(Entry)

ReadType ==
  /\ pos \in Nat /\ loaded \in Nat
  /\ pos <= Len(swap) /\ loaded <= size
  /\ sum \in Seq(Nat) /\ kernel \in Seq(Nat)

(* TypeInv, in parts. *)
LEMMA TypeParts ==
  TypeInv <=> pc \in Labels /\ KeysTypeOK /\ WriteType /\ ReadType
BY DEF TypeInv, TypeOK, WriteType, ReadType

(* The variables of writing. *)
LEMMA WriteTypeStep ==
  ASSUME IInv, Next
  PROVE  WriteType'
<1>1. WriteType /\ KeysTypeOK
  BY TypeParts DEF IInv
<1>2. CASE UNCHANGED writeVars
  BY <1>1, <1>2, Zenon DEF WriteType, writeVars, Entry, Data, Cipher, Header,
     Flags
<1>3. CASE Prepare
  BY <1>1, <1>3, Zenon DEF WriteType, Prepare, Entry, Data, Cipher, Header,
     Flags
<1>4. CASE WriteImage
  <2>1. PICK s \in Sizes :
          /\ size' = s
          /\ taken' = IF SizeKnown THEN 0 ELSE 1
          /\ header' = [NoHeader EXCEPT !.pages = s - taken',
                                        !.flags = EarlyFlags]
    BY <1>4 DEF WriteImage
  <2>2. s \in Nat /\ s > 0
    BY ImageAssumption
  <2>3. taken' \in 0..size' /\ s - taken' \in Nat /\ s - taken' <= s
    BY <2>1, <2>2
  <2>4. EarlyFlags \subseteq Flags
    BY DEF EarlyFlags, Flag, Flags
  <2>5. header' \in Header /\ header'.pages <= size'
    <3>1. /\ <<>> \in Seq(Nat) /\ "zero" \in Salts /\ NoString \in String
          /\ blank \in [key : Key, ivec : Ivec]
      BY Strings, KeyTypes DEF Salts
    <3> DEFINE p == s - taken'
    <3>2. header' = [pages |-> p, flags |-> EarlyFlags, size |-> 0,
                     sum |-> <<>>, salt |-> "zero", rsa |-> NoString,
                     key |-> blank]
      BY <2>1 DEF NoHeader
    <3>3. p \in Nat /\ p <= size' /\ 0 \in Nat
      BY <2>1, <2>3
    <3> HIDE DEF p
    <3>4. EarlyFlags \in SUBSET Flags
      BY <2>4
    <3> QED
      BY <3>1, <3>2, <3>3, <3>4 DEF Header
  <2>6. /\ buffer' \in Seq(Nat) /\ Len(buffer') < BufPages
        /\ swap' = <<>> /\ ctx' = <<>>
    BY <1>4, ImageAssumption DEF WriteImage, FirstPages
  <2>7. swap' \in Seq(Entry) /\ ctx' \in Seq(Nat)
    BY <2>6
  <2>8. UNCHANGED <<options, size_ioctl, shutdown_method, attempts, damaged>>
    BY <1>4 DEF WriteImage
  <2> QED
    BY <1>1, <2>1, <2>3, <2>5, <2>6, <2>7, <2>8 DEF WriteType
<1>5. CASE NoSwap \/ SetKeyFails \/ SaveFails
  <2>1. /\ UNCHANGED <<options, size_ioctl, size, taken, buffer, ctx, swap,
                       header, damaged, shutdown_method>>
        /\ attempts' = attempts \/ (attempts > 1 /\ attempts' = attempts - 1)
    BY <1>5 DEF NoSwap, SetKeyFails, SaveFails, WriteFails, TryAgain
  <2>2. attempts' \in 1..2
    BY <1>1, <2>1 DEF WriteType
  <2> QED
    BY <1>1, <2>1, <2>2 DEF WriteType
<1>6. CASE SetKeyRSA \/ SetKeyPassword
  <2>1. UNCHANGED <<options, size_ioctl, size, taken, buffer, ctx, swap,
                    damaged, shutdown_method, attempts>>
    BY <1>6 DEF SetKeyRSA, SetKeyPassword
  <2>2. header' \in Header /\ header'.pages = header.pages
    <3>1. keyfile \in String /\ session \in [key : Key, ivec : Ivec]
      BY <1>1, KeyTypes DEF KeysTypeOK
    <3>2. header \in Header
      BY <1>1 DEF WriteType
    <3>3. CASE SetKeyRSA
      <4>1. header' = [header EXCEPT
                         !.flags = @ \union {"ENCRYPTED", "USE_RSA"},
                         !.rsa = keyfile, !.key = session]
        BY <3>3 DEF SetKeyRSA
      <4>2. header.flags \union {"ENCRYPTED", "USE_RSA"} \in SUBSET Flags
        BY <3>2 DEF Header, Flags
      <4> QED
        BY <3>1, <3>2, <4>1, <4>2 DEF Header
    <3>4. CASE SetKeyPassword
      <4>1. PICK salt \in Salts :
              header' = [header EXCEPT !.flags = @ \union {"ENCRYPTED"},
                                       !.salt = salt]
        BY <3>4 DEF SetKeyPassword
      <4>2. header.flags \union {"ENCRYPTED"} \in SUBSET Flags
        BY <3>2 DEF Header, Flags
      <4> QED
        BY <3>2, <4>1, <4>2 DEF Header
    <3> QED
      BY <1>6, <3>3, <3>4
  <2> QED
    BY <1>1, <2>1, <2>2 DEF WriteType
<1>7. CASE SavePage \/ SaveEnd
  <2>1. /\ pc = "save" /\ UNCHANGED saved
    BY <1>7, SaveCases
  <2>2. /\ buffer \in Seq(Nat) /\ Len(buffer) \in Nat
        /\ Len(buffer) < BufPages /\ taken \in Nat /\ size \in Nat
        /\ taken <= size /\ Flushed \in Nat /\ taken = Flushed + Len(buffer)
    BY <2>1, SaveFacts DEF Saving
  <2>3. /\ buffer' \in Seq(Nat) /\ Len(buffer') < BufPages
        /\ ctx' \in Seq(Nat) /\ swap' \in Seq(Entry)
    <3>1. ctx \in Seq(Nat) /\ swap \in Seq(Entry)
      BY <1>1 DEF WriteType
    <3>2. ASSUME NEW b \in Data, NEW blocks, Flush(b, blocks)
          PROVE  /\ buffer' \in Seq(Nat) /\ Len(buffer') < BufPages
                 /\ ctx' \in Seq(Nat) /\ swap' \in Seq(Entry)
      <4>1. b \in Seq(Nat) /\ blocks \in Seq(Entry)
        BY <3>2 DEF Data, Flush, Blocks
      <4>2. ctx' = ctx \/ ctx' = ctx \o b
        BY <3>2 DEF Flush
      <4>3. swap' = swap \o blocks /\ buffer' = <<>>
        BY <3>2 DEF Flush
      <4>4. ctx' \in Seq(Nat)
        BY <3>1, <4>1, <4>2, ConcatProperties
      <4>5. swap' \in Seq(Entry)
        BY <3>1, <4>1, <4>3, ConcatProperties
      <4>6. buffer' \in Seq(Nat) /\ Len(buffer') < BufPages
        BY <4>3, ImageAssumption
      <4> QED
        BY <4>4, <4>5, <4>6
    <3>3. CASE /\ buffer' = Append(buffer, taken + 1)
               /\ Len(buffer') < BufPages
               /\ UNCHANGED <<swap, ctx>>
      BY <2>2, <3>1, <3>3, AppendProperties
    <3>4. CASE buffer' = <<>> /\ UNCHANGED <<swap, ctx>>
      BY <3>1, <3>4, ImageAssumption
    <3> QED
      BY <1>7, <3>2, <3>3, <3>4, SaveCases
  <2>4. taken' \in 0..size
    BY <1>7, <2>2, SaveCases
  <2>5. header' \in Header /\ header'.pages = header.pages
    <3>1. header \in Header
      BY <1>1 DEF WriteType
    <3>2. Len(swap') \in Nat
      BY <2>3
    <3> DEFINE more == IF shutdown_method = "platform"
                       THEN {"PLATFORM_SUSPEND"} ELSE {}
    <3>3. \/ header' = header
          \/ header' = [header EXCEPT !.size = Len(swap'), !.sum = ctx',
                                      !.flags = @ \union more]
      BY <1>7, SaveCases
    <3>4. header.flags \union more \in SUBSET Flags
      BY <3>1 DEF Header, Flags
    <3>5. ctx' \in Seq(Nat)
      BY <2>3
    <3> HIDE DEF more
    <3> QED
      BY <3>1, <3>2, <3>3, <3>4, <3>5 DEF Header
  <2>6. shutdown_method' \in {shutdown_method, "reboot"}
    BY <1>7 DEF SavePage, SaveEnd
  <2> QED
    BY <1>1, <2>1, <2>3, <2>4, <2>5, <2>6 DEF WriteType, saved
<1>8. CASE Shutdown
  <2>1. UNCHANGED <<options, size_ioctl, size, taken, buffer, ctx, swap,
                    header, damaged, shutdown_method, attempts>>
    BY <1>8 DEF Shutdown
  <2> QED
    BY <1>1, <2>1 DEF WriteType
<1>9. CASE Damage
  <2>1. /\ UNCHANGED <<options, size_ioctl, size, taken, buffer, ctx,
                       header, shutdown_method, attempts>>
        /\ damaged' = TRUE
        /\ \E i \in 1..Len(swap) : swap' = [swap EXCEPT ![i] = Garbage]
    BY <1>9 DEF Damage
  <2>2. swap' \in Seq(Entry)
    BY <1>1, <2>1, GarbageType, ExceptSeq DEF WriteType
  <2> QED
    BY <1>1, <2>1, <2>2 DEF WriteType
<1>10. CASE LoadPlain \/ LoadBlock
  <2>1. UNCHANGED writeVars
    BY <1>10, LoadCases DEF LoadStops, Turn
  <2> QED
    BY <1>2, <2>1
<1>11. CASE Keygen \/ Main \/ Password \/ Verify \/ Resume \/ RestoreKey
            \/ LoadFails \/ RebootQuestion
  <2>1. UNCHANGED writeVars
    BY <1>11 DEF Keygen, Main, Password, Verify, Resume, RestoreKey,
       LoadFails, LoadStops, RebootQuestion
  <2> QED
    BY <1>2, <2>1
<1> QED
  BY <1>3, <1>4, <1>5, <1>6, <1>7, <1>8, <1>9, <1>10, <1>11
     DEF Next, Suspend, Load

(* The variables of reading. *)
LEMMA ReadTypeStep ==
  ASSUME IInv, Next
  PROVE  ReadType'
<1>1. ReadType /\ WriteType /\ size \in Nat
  <2>1. ReadType /\ WriteType
    BY TypeParts DEF IInv
  <2> QED
    BY <2>1, ImageAssumption DEF WriteType
<1>2. CASE UNCHANGED <<pos, loaded, sum, kernel, swap, size>>
  BY <1>1, <1>2 DEF ReadType
<1>3. CASE WriteImage
  <2>1. /\ pos = 0 /\ loaded = 0 /\ UNCHANGED <<pos, loaded, sum, kernel>>
        /\ swap' = <<>> /\ size' \in Sizes
    BY <1>3 DEF WriteImage, IInv, SaveInv, Early, readVars
  <2> QED
    BY <1>1, <2>1, ImageAssumption DEF ReadType
<1>4. CASE SavePage \/ SaveEnd
  <2>1. pos = 0 /\ pc = "save" /\ UNCHANGED saved
    BY <1>4, SaveCases DEF IInv, SaveInv, Saving
  <2>2. swap' \in Seq(Entry)
    BY WriteTypeStep DEF WriteType
  <2> QED
    BY <1>1, <2>1, <2>2 DEF ReadType, saved, readVars
<1>5. CASE Verify \/ Resume
  <2>1. StartReading /\ UNCHANGED writeVars
    BY <1>5 DEF Verify, Resume
  <2> QED
    BY <1>1, <2>1 DEF StartReading, writeVars, ReadType, WriteType
<1>6. CASE LoadPlain \/ LoadBlock
  <2>1. CASE UNCHANGED <<pos, loaded, sum, kernel, writeVars>>
    BY <1>2, <2>1 DEF writeVars
  <2>2. ASSUME NEW b \in Data, NEW k \in Nat, pos + k <= Len(swap), Turn(b, k)
        PROVE  ReadType'
    <3>1. /\ pos' = pos + k /\ loaded' \in 0..size /\ kernel' \in Seq(Nat)
          /\ swap' = swap /\ size' = size
          /\ sum' = sum \/ sum' = sum \o b
      BY <2>2 DEF Turn, writeVars
    <3>2. sum \in Seq(Nat) /\ b \in Seq(Nat)
      BY <1>1 DEF Data, ReadType
    <3>3. sum' \in Seq(Nat)
      BY <3>1, <3>2, ConcatProperties
    <3> QED
      BY <1>1, <2>2, <3>1, <3>3 DEF ReadType
  <2> QED
    BY <1>6, <2>1, <2>2, LoadCases DEF LoadStops, readVars
<1>7. CASE Damage
  <2>1. /\ UNCHANGED <<pos, loaded, sum, kernel, size>>
        /\ \E i \in 1..Len(swap) : swap' = [swap EXCEPT ![i] = Garbage]
    BY <1>7 DEF Damage, readVars
  <2>2. Len(swap') = Len(swap)
    BY <1>1, <2>1, GarbageType, ExceptSeq DEF WriteType
  <2> QED
    BY <1>1, <2>1, <2>2 DEF ReadType
<1>8. CASE Keygen \/ Main \/ Password \/ Prepare \/ NoSwap \/ SetKeyRSA
           \/ SetKeyPassword \/ SetKeyFails \/ SaveFails \/ Shutdown
           \/ RestoreKey \/ LoadFails \/ RebootQuestion
  <2>1. UNCHANGED <<pos, loaded, sum, kernel, swap, size>>
    BY <1>8 DEF Keygen, Main, Password, Prepare, NoSwap, SetKeyRSA,
       SetKeyPassword, SetKeyFails, SaveFails, WriteFails, Shutdown,
       RestoreKey, LoadFails, LoadStops, RebootQuestion, writeVars, readVars
  <2> QED
    BY <1>2, <2>1
<1> QED
  BY <1>3, <1>4, <1>5, <1>6, <1>7, <1>8 DEF Next, Suspend, Load

(* Every step keeps the types. *)
LEMMA TypeStep ==
  ASSUME IInv, Next
  PROVE  TypeInv'
BY KeysTypeStep, LabelStep, WriteTypeStep, ReadTypeStep, TypeParts
   DEF TypeInv, TypeOK, WriteType, ReadType

-----------------------------------------------------------------------------
(* Before the image is written, and when that has failed. *)
EarlyActions ==
  Keygen \/ Main \/ Password \/ Prepare \/ NoSwap \/ SetKeyFails \/ SaveFails

(* They leave the image and what is read of it alone. *)
LEMMA EarlyStep ==
  ASSUME IInv, EarlyActions
  PROVE  /\ pc \in Early \union Saving /\ pc' \in Early \union {"failed"}
         /\ UNCHANGED <<options, size_ioctl, off, size, taken, buffer, ctx,
                        swap, header, damaged, readVars>>
<1>1. CASE Keygen
  BY <1>1 DEF Keygen, KeygenNext, KeygenStart, NoKeygen, KeygenPass,
     KeygenConfirm, KeygenWrite, ReadPass, Confirm, Early, writeVars
<1>2. CASE Main \/ Password
  BY <1>2 DEF Main, Password, generate_key, generate_key_fails, ReadPassword,
     ConfirmPassword, ReadPass, Confirm, Early, writeVars
<1>3. CASE Prepare \/ NoSwap \/ SetKeyFails \/ SaveFails
  BY <1>3 DEF Prepare, NoSwap, SetKeyFails, SaveFails, WriteFails, Early,
     Saving
<1> QED
  BY <1>1, <1>2, <1>3 DEF EarlyActions

(* When it is written, it does not change, except by damage. *)
LateActions ==
  \/ Verify \/ Shutdown \/ Resume \/ RestoreKey \/ Load \/ RebootQuestion
  \/ Damage

(* They change neither the header nor the keys of s2disk. *)
LEMMA LateStep ==
  ASSUME IInv, LateActions
  PROVE  /\ pc \in Complete /\ pc' \in Complete
         /\ UNCHANGED <<options, size_ioctl, shutdown_method, size, taken,
                        buffer, ctx, header, password, use_RSA, key_data>>
         /\ Len(swap') = Len(swap)
         /\ swap' = swap \/ damaged'
         /\ damaged => damaged'
<1>1. CASE Verify \/ Shutdown \/ Resume \/ RestoreKey \/ RebootQuestion
  BY <1>1 DEF Verify, Shutdown, Resume, RestoreKey, decrypt_key, restore_key,
     RebootQuestion, Complete, Booted, writeVars, keyVars
<1>2. CASE LoadFails
  BY <1>2 DEF LoadFails, LoadStops, Refuse, Complete, Booted, writeVars,
     keyVars
<1>3. CASE LoadPlain \/ LoadBlock
  <2>1. pc \in Complete
    BY <1>3, LoadCases DEF Reading, Complete, Booted
  <2>2. CASE \E e \in {"short", "lzo"} : LoadStops(e)
    BY <2>1, <2>2 DEF LoadStops, Refuse, Complete, Booted, writeVars, keyVars
  <2>3. CASE pc' = "crashed" /\ UNCHANGED <<keyVars, writeVars, readVars>>
    BY <2>1, <2>3 DEF Complete, Booted, writeVars, keyVars
  <2>4. ASSUME NEW b \in Data, NEW k \in Nat, Turn(b, k)
        PROVE  /\ pc' \in Complete
               /\ UNCHANGED <<writeVars, password, use_RSA, key_data>>
    BY <2>1, <2>4 DEF Turn, Refused, GoesOn, Mismatch, Done, Complete, Booted
  <2> QED
    BY <1>3, <2>1, <2>2, <2>3, <2>4, LoadCases DEF writeVars
<1>4. CASE Damage
  <2>1. swap \in Seq(Entry)
    BY DEF IInv, TypeInv
  <2>2. Len(swap') = Len(swap)
    BY <1>4, <2>1, GarbageType, ExceptSeq DEF Damage
  <2> QED
    BY <1>4, <2>2 DEF Damage, Complete, Booted, keyVars
<1> QED
  BY <1>1, <1>2, <1>3, <1>4 DEF LateActions, Load

(* Next, by the phases of a suspend and a resume. *)
LEMMA Phases ==
  Next <=> \/ EarlyActions \/ WriteImage \/ SetKeyRSA \/ SetKeyPassword
           \/ SavePage \/ SaveEnd \/ LateActions
BY DEF Next, Suspend, EarlyActions, LateActions

(* There is no image yet, or no more. *)
LEMMA NotEarly ==
  ASSUME NEW l \in Early \union {"failed"}
  PROVE  l \notin Saving \union Complete
BY DEF Early, Saving, Complete, Booted

(* Every step keeps what save_image() relies on. *)
LEMMA SaveStep ==
  ASSUME IInv, Next
  PROVE  SaveInv'
<1>1. SaveInv
  BY DEF IInv
<1>2. CASE EarlyActions
  <2>1. /\ pc \in Early \union Saving /\ pc' \in Early \union {"failed"}
        /\ UNCHANGED <<pos, loaded, damaged>>
    BY <1>2, EarlyStep DEF readVars
  <2>2. pc' \notin Saving \union Complete
    BY <2>1, NotEarly
  <2>3. pc' # "set_key" /\ pc' # "save" /\ pc' \notin Complete
    BY <2>2 DEF Saving
  <2>4. pos = 0 /\ loaded = 0 /\ ~damaged
    BY <1>1, <2>1 DEF SaveInv
  <2> QED
    BY <2>1, <2>2, <2>3, <2>4 DEF SaveInv
<1>3. CASE WriteImage
  <2>1. PICK s \in Sizes :
          /\ size' = s
          /\ taken' = IF SizeKnown THEN 0 ELSE 1
          /\ header' = [NoHeader EXCEPT !.pages = s - taken',
                                        !.flags = EarlyFlags]
    BY <1>3 DEF WriteImage
  <2>2. /\ buffer' = FirstPages /\ swap' = <<>> /\ ctx' = <<>>
        /\ pc' = IF "encrypt" \in options THEN "set_key" ELSE "save"
        /\ UNCHANGED <<options, size_ioctl, damaged, pos, loaded>>
        /\ pc \in Early
    BY <1>3 DEF WriteImage, readVars, Early
  <2>3. /\ header'.pages = s - taken' /\ header'.flags = EarlyFlags
    BY <2>1 DEF NoHeader
  <2>4. s \in Nat /\ s > 0
    BY ImageAssumption
  <2>5. /\ "CHECKSUM" \in header'.flags <=> "checksum" \in options
        /\ "COMPRESSED" \in header'.flags <=> "compress" \in options
        /\ "ENCRYPTED" \notin header'.flags
    BY <2>3 DEF EarlyFlags, Flag
  <2>6. SizeKnown' = SizeKnown
    BY <2>2 DEF SizeKnown
  <2>7. header'.pages = IF SizeKnown THEN s ELSE s - 1
    BY <2>1, <2>3, <2>4
  <2>8. /\ Len(buffer') <= taken' /\ Flushed' = 0
        /\ \A j \in 1..Len(buffer') : buffer'[j] = Flushed' + j
    BY <2>1, <2>2 DEF FirstPages, Flushed
  <2>9. pos = 0 /\ loaded = 0 /\ ~damaged
    BY <1>1, <2>2 DEF SaveInv
  <2>10. pc' \notin Complete /\ pc' \in Saving
    BY <2>2 DEF Complete, Booted, Saving
  <2>11. Len(ctx') = Flushed' /\ \A j \in 1..Flushed' : ctx'[j] = j
    BY <2>2, <2>8
  <2> QED
    BY <2>1, <2>2, <2>5, <2>6, <2>7, <2>8, <2>9, <2>10, <2>11 DEF SaveInv
<1>4. CASE SetKeyRSA \/ SetKeyPassword
  <2>1. /\ pc = "set_key" /\ pc' = "save"
        /\ UNCHANGED <<options, size_ioctl, size, taken, buffer, ctx, swap,
                       damaged, pos, loaded>>
        /\ header'.pages = header.pages
        /\ "CHECKSUM" \in header'.flags <=> "CHECKSUM" \in header.flags
        /\ "COMPRESSED" \in header'.flags <=> "COMPRESSED" \in header.flags
        /\ "ENCRYPTED" \in header'.flags
    <3>1. header \in Header
      BY DEF IInv, TypeInv, TypeOK
    <3>2. /\ pc = "set_key" /\ pc' = "save"
          /\ UNCHANGED <<options, size_ioctl, size, taken, buffer, ctx, swap,
                         damaged, pos, loaded>>
      BY <1>4 DEF SetKeyRSA, SetKeyPassword, readVars
    <3>3. CASE SetKeyRSA
      BY <3>1, <3>2, <3>3 DEF SetKeyRSA, Header
    <3>4. CASE SetKeyPassword
      BY <3>1, <3>2, <3>4 DEF SetKeyPassword, Header
    <3> QED
      BY <1>4, <3>3, <3>4
  <2>2. pc' \notin Complete /\ pc \in Saving /\ pc' \in Saving
    BY <2>1 DEF Complete, Booted, Saving
  <2> QED
    BY <1>1, <2>1, <2>2 DEF SaveInv, Flushed, SizeKnown
<1>5. CASE SavePage \/ SaveEnd
  <2>1. /\ pc = "save" /\ UNCHANGED saved
        /\ pc' \in {"save", "verify", "mark"}
        /\ header'.pages = header.pages
        /\ "CHECKSUM" \in header'.flags <=> "CHECKSUM" \in header.flags
        /\ "COMPRESSED" \in header'.flags <=> "COMPRESSED" \in header.flags
        /\ "ENCRYPTED" \in header'.flags <=> "ENCRYPTED" \in header.flags
    <3>1. header \in Header
      BY DEF IInv, TypeInv, TypeOK
    <3>2. pc = "save" /\ UNCHANGED saved
      BY <1>5, SaveCases
    <3>3. CASE SavePage
      BY <3>2, <3>3 DEF SavePage
    <3>4. CASE SaveEnd
      BY <3>1, <3>2, <3>4 DEF SaveEnd, Header
    <3> QED
      BY <1>5, <3>3, <3>4
  <2>2. /\ pc \in Saving \union Complete /\ pc' \in Saving \union Complete
        /\ pc \in Early \union Saving /\ pc' # "set_key"
        /\ pc' \in {"save"} \union Complete
    BY <2>1 DEF Saving, Complete, Booted
  <2>3. /\ buffer \in Seq(Nat) /\ Len(buffer) \in Nat
        /\ Len(buffer) <= taken /\ taken \in Nat
        /\ \A j \in 1..Len(buffer) : buffer[j] = Flushed + j
        /\ Flushed \in Nat /\ taken = Flushed + Len(buffer)
    BY <2>2, SaveFacts
  <2>4. /\ ctx \in Seq(Nat) /\ ctx' \in Seq(Nat)
    BY TypeStep DEF IInv, TypeInv
  <2> DEFINE Summed == options \cap {"checksum", "verify"} # {} =>
                         Len(ctx) = Flushed /\ \A j \in 1..Flushed : ctx[j] = j
  <2>5. Summed
    BY <1>1, <2>2 DEF SaveInv
  <2>6. /\ Len(buffer') <= taken' /\ Summed'
        /\ \A j \in 1..Len(buffer') : buffer'[j] = Flushed' + j
    <3>1. CASE /\ SavePage
               /\ buffer' = Append(buffer, taken + 1) /\ taken' = taken + 1
               /\ UNCHANGED <<ctx, options>>
      <4>1. /\ Len(buffer') = Len(buffer) + 1
            /\ \A j \in 1..Len(buffer) : buffer'[j] = buffer[j]
            /\ buffer'[Len(buffer) + 1] = taken + 1
        BY <2>3, <3>1, AppendProperties
      <4>2. Flushed' = Flushed /\ Len(buffer') <= taken'
        BY <2>3, <3>1, <4>1 DEF Flushed
      <4>3. ASSUME NEW j \in 1..Len(buffer') PROVE buffer'[j] = Flushed' + j
        <5>1. j \in 1..Len(buffer) \/ j = Len(buffer) + 1
          BY <2>3, <4>1
        <5>2. Flushed + (Len(buffer) + 1) = taken + 1
          BY <2>3
        <5> QED
          BY <2>3, <4>1, <4>2, <5>1, <5>2
      <4>4. Summed'
        BY <2>5, <3>1, <4>2
      <4> QED
        BY <4>2, <4>3, <4>4
    <3>2. CASE /\ SaveEnd /\ buffer = <<>> /\ buffer' = <<>>
               /\ taken' = taken /\ UNCHANGED <<ctx, options>>
      BY <2>3, <2>5, <3>2 DEF Flushed
    <3>3. ASSUME NEW b \in Data, NEW blocks, Flush(b, blocks),
                 UNCHANGED options
          PROVE  /\ Len(buffer') <= taken' /\ Summed'
                 /\ \A j \in 1..Len(buffer') : buffer'[j] = Flushed' + j
      <4>1. /\ buffer' = <<>> /\ taken' = Flushed + Len(b)
            /\ \A j \in 1..Len(b) : b[j] = Flushed + j
        BY <3>3 DEF Flush
      <4>2. b \in Seq(Nat) /\ Len(b) \in Nat
        BY DEF Data
      <4>3. Flushed' = Flushed + Len(b)
        BY <2>3, <4>1, <4>2 DEF Flushed
      <4>4. ASSUME options \cap {"checksum", "verify"} # {}
            PROVE  /\ Len(ctx') = Flushed'
                   /\ \A j \in 1..Flushed' : ctx'[j] = j
        <5>1. ctx' = ctx \o b /\ Len(ctx) = Flushed
              /\ \A j \in 1..Flushed : ctx[j] = j
          BY <2>5, <3>3, <4>4 DEF Flush
        <5>2. /\ Len(ctx') = Len(ctx) + Len(b)
              /\ \A j \in 1..(Len(ctx) + Len(b)) :
                   ctx'[j] = IF j <= Len(ctx) THEN ctx[j] ELSE b[j - Len(ctx)]
          BY <2>4, <4>2, <5>1, ConcatProperties
        <5>3. ASSUME NEW j \in 1..Flushed' PROVE ctx'[j] = j
          <6>1. CASE j <= Flushed
            BY <2>3, <4>2, <4>3, <5>1, <5>2, <6>1
          <6>2. CASE j > Flushed
            <7>1. j - Flushed \in 1..Len(b) /\ ~(j <= Len(ctx))
              BY <2>3, <4>2, <4>3, <5>1, <6>2
            <7>2. ctx'[j] = b[j - Flushed]
              BY <4>3, <5>1, <5>2, <7>1
            <7>3. Flushed + (j - Flushed) = j
              BY <2>3, <4>3, <4>2
            <7> QED
              BY <4>1, <7>1, <7>2, <7>3
          <6> QED
            BY <2>3, <4>2, <4>3, <6>1, <6>2
        <5> QED
          BY <4>3, <5>1, <5>2, <5>3
      <4> QED
        BY <2>3, <3>3, <4>1, <4>2, <4>4
    <3>4. UNCHANGED options
      BY <2>1 DEF saved
    <3>5. (SavePage => taken' = taken + 1) /\ (SaveEnd => taken' = taken)
      BY DEF SavePage, SaveEnd
    <3> HIDE DEF Summed
    <3>6. \/ /\ SavePage /\ buffer' = Append(buffer, taken + 1)
             /\ UNCHANGED ctx
          \/ SaveEnd /\ buffer = <<>> /\ buffer' = <<>> /\ UNCHANGED ctx
          \/ \E b \in Data : \E blocks : Flush(b, blocks)
      BY <1>5, SaveCases
    <3> QED
      BY <3>1, <3>2, <3>3, <3>4, <3>5, <3>6
  <2>7. pc' \in Complete =>
          /\ taken' = size' /\ buffer' = <<>>
          /\ header'.size = Len(swap') /\ header'.sum = ctx'
    <3> SUFFICES ASSUME pc' \in Complete
                 PROVE  /\ taken' = size' /\ buffer' = <<>>
                        /\ header'.size = Len(swap') /\ header'.sum = ctx'
      OBVIOUS
    <3>1. pc' # pc
      BY <2>1 DEF Complete, Booted
    <3>2. SaveEnd
      BY <1>5, <3>1 DEF SavePage
    <3>3. header \in Header
      BY DEF IInv, TypeInv, TypeOK
    <3> QED
      BY <2>1, <3>2, <3>3 DEF SaveEnd, saved, Header
  <2>8. pc' \in Early \union Saving => pos' = 0 /\ loaded' = 0 /\ ~damaged'
    BY <1>1, <2>1, <2>2 DEF SaveInv, saved, readVars
  <2> QED
    BY <1>1, <2>1, <2>2, <2>6, <2>7, <2>8 DEF SaveInv, saved, SizeKnown
<1>6. CASE LateActions
  <2>1. /\ pc \in Complete /\ pc' \in Complete
        /\ UNCHANGED <<options, size_ioctl, size, taken, buffer, ctx, header>>
        /\ Len(swap') = Len(swap)
    BY <1>6, LateStep
  <2>2. pc' \notin Early \union Saving /\ pc' # "set_key"
    BY <2>1 DEF Early, Saving, Complete, Booted
  <2> QED
    BY <1>1, <2>1, <2>2 DEF SaveInv, SizeKnown, Flushed
<1> QED
  BY <1>2, <1>3, <1>4, <1>5, <1>6, Phases

-----------------------------------------------------------------------------
(* The pages on the swap when b has been flushed: the old ones and, behind *)
(* them, the new ones.                                                     *)
LEMMA SwapGrows ==
  ASSUME IInv, SavePage \/ SaveEnd, NEW b \in Data, NEW blocks,
         Flush(b, blocks)
  PROVE  /\ Len(swap) \in Nat /\ Len(blocks) \in Nat /\ Len(b) \in Nat
         /\ Len(b) > 0 /\ Flushed \in Nat
         /\ Len(swap') = Len(swap) + Len(blocks)
         /\ Flushed' = Flushed + Len(b)
         /\ \A i \in 1..Len(swap) : swap'[i] = swap[i]
         /\ \A k \in 1..Len(blocks) : swap'[Len(swap) + k] = blocks[k]
<1>1. swap \in Seq(Entry) /\ blocks \in Seq(Entry) /\ b \in Seq(Nat)
  BY DEF IInv, TypeInv, Flush, Blocks, Data
<1>2. Len(swap) \in Nat /\ Len(blocks) \in Nat /\ Len(b) \in Nat
  BY <1>1
<1>3. Len(b) > 0
  BY <1>1, <1>2 DEF Data
<1>4. pc \in Saving
  BY DEF SavePage, SaveEnd, Saving
<1>5. Flushed \in Nat
  BY <1>4, SaveFacts
<1>6. buffer' = <<>> /\ taken' = Flushed + Len(b) /\ swap' = swap \o blocks
  BY DEF Flush
<1>7. Flushed' = Flushed + Len(b)
  BY <1>2, <1>5, <1>6 DEF Flushed
<1>8. /\ Len(swap') = Len(swap) + Len(blocks)
      /\ \A i \in 1..(Len(swap) + Len(blocks)) :
           swap'[i] = IF i <= Len(swap) THEN swap[i] ELSE blocks[i - Len(swap)]
  BY <1>1, <1>6, ConcatProperties
<1>9. ASSUME NEW i \in 1..Len(swap) PROVE swap'[i] = swap[i]
  BY <1>2, <1>8
<1>10. ASSUME NEW k \in 1..Len(blocks)
       PROVE  swap'[Len(swap) + k] = blocks[k]
  <2>1. /\ Len(swap) + k \in 1..(Len(swap) + Len(blocks))
        /\ ~(Len(swap) + k <= Len(swap)) /\ (Len(swap) + k) - Len(swap) = k
    BY <1>2
  <2> QED
    BY <1>8, <2>1
<1> QED
  BY <1>2, <1>3, <1>5, <1>7, <1>8, <1>9, <1>10

(* Without compression. *)
LEMMA PlainGrows ==
  ASSUME IInv, SavePage \/ SaveEnd, NEW b \in Data, NEW blocks,
         Flush(b, blocks), "compress" \notin options, PlainSwap
  PROVE  PlainSwap'
<1>1. /\ Len(blocks) = Len(b)
      /\ \A k \in 1..Len(b) : blocks[k] = Stored(<<b[k]>>, 0, 1, k)
      /\ \A k \in 1..Len(b) : b[k] = Flushed + k
  BY DEF Flush, Blocks
<1>2. /\ Len(swap) \in Nat /\ Len(b) \in Nat /\ Flushed \in Nat
      /\ Len(swap') = Len(swap) + Len(blocks)
      /\ Flushed' = Flushed + Len(b)
      /\ \A i \in 1..Len(swap) : swap'[i] = swap[i]
      /\ \A k \in 1..Len(blocks) : swap'[Len(swap) + k] = blocks[k]
  BY SwapGrows
<1>3. /\ Len(swap) = Flushed
      /\ \A i \in 1..Len(swap) : swap[i].data = <<i>>
  BY DEF PlainSwap
<1>4. ASSUME NEW i \in 1..Len(swap') PROVE swap'[i].data = <<i>>
  <2>1. CASE i <= Len(swap)
    BY <1>2, <1>3, <2>1
  <2>2. CASE i > Len(swap)
    <3>1. PICK k \in 1..Len(b) : i = Len(swap) + k
      <4>1. i - Len(swap) \in 1..Len(b) /\ i = Len(swap) + (i - Len(swap))
        BY <1>1, <1>2, <2>2
      <4> QED
        BY <4>1
    <3>2. swap'[i] = Stored(<<b[k]>>, 0, 1, k) /\ b[k] = i
      BY <1>1, <1>2, <1>3, <3>1
    <3> QED
      BY <3>2 DEF Stored
  <2> QED
    BY <1>2, <2>1, <2>2
<1> QED
  BY <1>1, <1>2, <1>3, <1>4 DEF PlainSwap

(* With encryption. *)
LEMMA LockedGrows ==
  ASSUME IInv, SavePage \/ SaveEnd, NEW b \in Data, NEW blocks,
         Flush(b, blocks), "encrypt" \in options, LockedSwap
  PROVE  LockedSwap'
<1>1. pc = "save" /\ key_data' = key_data
  BY DEF SavePage, SaveEnd
<1>2. cipher = [key |-> key_data.key, ivec |-> key_data.ivec, n |-> Len(swap)]
  BY <1>1 DEF IInv, KeyInv
<1>3. /\ Len(swap) \in Nat /\ Len(blocks) \in Nat
      /\ Len(swap') = Len(swap) + Len(blocks)
      /\ \A i \in 1..Len(swap) : swap'[i] = swap[i]
      /\ \A k \in 1..Len(blocks) : swap'[Len(swap) + k] = blocks[k]
  BY SwapGrows
<1>4. ASSUME NEW k \in 1..Len(blocks)
      PROVE  blocks[k].lock = [cipher EXCEPT !.n = @ + k - 1]
  <2>1. Blocks(b, blocks)
    BY DEF Flush
  <2>2. \E d, cnt, part : blocks[k] = Stored(d, cnt, part, k)
    <3>1. CASE "compress" \in options
      BY <2>1, <3>1 DEF Blocks
    <3>2. CASE "compress" \notin options
      BY <2>1, <3>2 DEF Blocks
    <3> QED
      BY <3>1, <3>2
  <2> QED
    BY <2>2 DEF Stored
<1>5. ASSUME NEW i \in 1..Len(swap')
      PROVE  /\ swap'[i].lock.key = key_data.key
             /\ swap'[i].lock.ivec = key_data.ivec
             /\ swap'[i].lock.n = i - 1
  <2>1. CASE i <= Len(swap)
    BY <1>3, <2>1 DEF LockedSwap
  <2>2. CASE i > Len(swap)
    <3>1. PICK k \in 1..Len(blocks) : i = Len(swap) + k
      <4>1. i - Len(swap) \in 1..Len(blocks) /\ i = Len(swap) + (i - Len(swap))
        BY <1>3, <2>2
      <4> QED
        BY <4>1
    <3>2. swap'[i].lock = [cipher EXCEPT !.n = @ + k - 1]
      BY <1>3, <1>4, <3>1
    <3> QED
      BY <1>2, <1>3, <3>1, <3>2
  <2> QED
    BY <1>3, <2>1, <2>2
<1> QED
  BY <1>1, <1>5 DEF LockedSwap

(* With compression: the new block comes where the next one was expected. *)
LEMMA BlocksGrow ==
  ASSUME IInv, SavePage \/ SaveEnd, NEW b \in Data, NEW blocks,
         Flush(b, blocks), "compress" \in options, BlockSwap
  PROVE  BlockSwap'
<1>1. PICK cnt \in CompressedSizes :
        /\ Len(blocks) = BlockPages(cnt)
        /\ \A k \in 1..Len(blocks) : blocks[k] = Stored(b, cnt, k, k)
  BY DEF Flush, Blocks
<1>2. /\ Len(swap) \in Nat /\ Len(blocks) \in Nat /\ Len(b) \in Nat
      /\ Len(b) > 0 /\ Flushed \in Nat
      /\ Len(swap') = Len(swap) + Len(blocks)
      /\ Flushed' = Flushed + Len(b)
      /\ \A i \in 1..Len(swap) : swap'[i] = swap[i]
      /\ \A k \in 1..Len(blocks) : swap'[Len(swap) + k] = blocks[k]
  BY SwapGrows
<1>3. /\ \A j \in 1..Len(b) : b[j] = Flushed + j
      /\ Len(b) = BufPages \/ SaveEnd
  BY DEF Flush
<1>4. cnt \in Nat /\ cnt + WordSize \in Nat /\ cnt + WordSize > 0
  BY ImageAssumption
<1>5. Len(blocks) > 0
  BY <1>1, <1>4, PagesForPositive DEF BlockPages
<1>6. ASSUME NEW k \in 1..Len(blocks)
      PROVE  /\ swap'[Len(swap) + k].data = b
             /\ swap'[Len(swap) + k].size = cnt
             /\ swap'[Len(swap) + k].part = k
  BY <1>1, <1>2 DEF Stored
<1>7. pc \notin Complete /\ (SaveEnd => pc' \in Complete)
  BY DEF SavePage, SaveEnd, Complete, Booted
<1>8. swap \in Seq(Entry)
  BY DEF IInv, TypeInv
<1>9. ASSUME NEW i \in 1..(Len(swap) + 1), NEW n \in Nat, NextBlock(i, n)
      PROVE  NextBlock(i, n)'
  <2>1. CASE i = Len(swap) + 1 /\ n = Flushed
    <3>1. i \in 1..Len(swap') /\ 1 \in 1..Len(blocks) /\ 1 \in 1..Len(b)
      BY <1>2, <1>5
    <3>2. swap'[i].part = 1 /\ swap'[i].data = b
      BY <1>6, <2>1, <3>1
    <3>3. b[1] = n + 1
      BY <1>3, <2>1, <3>1
    <3> QED
      BY <3>1, <3>2, <3>3 DEF NextBlock
  <2>2. CASE i \in 1..Len(swap) /\ swap[i].part = 1 /\ swap[i].data[1] = n + 1
    <3>1. i \in 1..Len(swap') /\ swap'[i] = swap[i]
      BY <1>2, <2>2
    <3> QED
      BY <2>2, <3>1 DEF NextBlock
  <2> QED
    BY <1>9, <2>1, <2>2 DEF NextBlock
<1>10. NextBlock(1, 0)'
  BY <1>2, <1>9 DEF BlockSwap
<1>11. ASSUME NEW i \in 1..Len(swap), swap'[i].part = 1
       PROVE  Block(i)'
  <2> DEFINE e == swap[i]
             n == e.data[1] - 1
             k == BlockPages(e.size)
  <2>1. swap'[i] = e /\ e \in Entry
    BY <1>2, <1>8, ElementOfSeq
  <2>2. Block(i)
    BY <1>11, <2>1 DEF BlockSwap
  <2>3. /\ \A j \in 1..Len(e.data) : e.data[j] = n + j
        /\ n + Len(e.data) <= Flushed
        /\ Len(e.data) = BufPages
        /\ k > 0 /\ i + k <= Len(swap) + 1
        /\ \A j \in 1..k : swap[i + j - 1].part = j
                           /\ swap[i + j - 1].data = e.data
        /\ NextBlock(i + k, n + Len(e.data))
    BY <1>7, <2>2 DEF Block
  <2>4. e.data \in Data /\ e.size \in Nat
    BY <2>1 DEF Entry
  <2>5. k \in Nat
    <3>1. e.size + WordSize \in Nat
      BY <2>4, ImageAssumption
    <3> QED
      BY <3>1, PagesForPositive DEF BlockPages
  <2>6. Len(e.data) \in Nat /\ e.data[1] \in Nat /\ Len(e.data) > 0
    BY <2>4, SMTT(30) DEF Data
  <2>7. n + Len(e.data) \in Nat
    BY <2>3, <2>6
  <2>8. i + k \in 1..(Len(swap) + 1)
    <3>1. Len(swap) \in Nat /\ i + k <= Len(swap) + 1 /\ i \in Nat /\ i > 0
      BY <1>2, <2>3
    <3> HIDE DEF k
    <3> QED
      BY <2>5, <3>1
  <2> HIDE DEF k, n
  <2>9. NextBlock(i + k, n + Len(e.data))'
    <3> DEFINE m == n + Len(e.data)
               l == i + k
    <3>1. NextBlock(l, m) /\ l \in 1..(Len(swap) + 1) /\ m \in Nat
      BY <2>3, <2>7, <2>8
    <3>2. PICK x \in 1..(Len(swap) + 1), y \in Nat :
            NextBlock(x, y) /\ x = l /\ y = m
      BY <3>1
    <3>3. NextBlock(x, y)'
      BY <1>9, <3>2
    <3>4. l' = l /\ m' = m
      BY <2>1 DEF k, n
    <3> QED
      BY <3>2, <3>3, <3>4 DEF NextBlock
  <2>10. ASSUME NEW j \in 1..k
         PROVE  swap'[i + j - 1].part = j /\ swap'[i + j - 1].data = e.data
    <3>1. i + j - 1 \in 1..Len(swap)
      <4>1. Len(swap) \in Nat /\ i + k <= Len(swap) + 1
        BY <1>2, <2>3
      <4> QED
        BY <2>5, <4>1
    <3> QED
      BY <1>2, <2>3, <3>1
  <2>11. n + Len(e.data) <= Flushed' /\ i + k <= Len(swap') + 1
    <3>1. /\ Len(swap) \in Nat /\ Len(blocks) \in Nat /\ Len(b) \in Nat
          /\ Flushed \in Nat /\ Flushed' = Flushed + Len(b)
          /\ Len(swap') = Len(swap) + Len(blocks)
      BY <1>2
    <3>2. n + Len(e.data) <= Flushed /\ i + k <= Len(swap) + 1
      BY <2>3
    <3> QED
      BY <2>5, <2>7, <3>1, <3>2, SMTT(30)
  <2> QED
    BY <2>1, <2>3, <2>9, <2>10, <2>11 DEF Block, k, n
<1>12. ASSUME NEW i \in 1..Len(swap'), ~(i \in 1..Len(swap)),
              swap'[i].part = 1
       PROVE  Block(i)'
  <2>1. i = Len(swap) + 1
    <3>1. i - Len(swap) \in 1..Len(blocks) /\ i = Len(swap) + (i - Len(swap))
      BY <1>2, <1>12
    <3>2. swap'[i].part = i - Len(swap)
      BY <1>6, <3>1
    <3> QED
      BY <1>2, <1>12, <3>2
  <2>2. 1 \in 1..Len(blocks) /\ 1 \in 1..Len(b)
    BY <1>2, <1>5
  <2>3. swap'[i].data = b /\ swap'[i].size = cnt
    BY <1>6, <2>1, <2>2
  <2>4. b[1] - 1 = Flushed
    BY <1>2, <1>3, <2>2
  <2>5. ASSUME NEW j \in 1..Len(blocks)
        PROVE  swap'[i + j - 1].part = j /\ swap'[i + j - 1].data = b
    <3>1. i + j - 1 = Len(swap) + j
      BY <1>2, <2>1
    <3> QED
      BY <1>6, <3>1
  <2>6. i + Len(blocks) = Len(swap') + 1 /\ Flushed + Len(b) = Flushed'
    BY <1>2, <2>1
  <2> DEFINE e == swap'[i]
             n == e.data[1] - 1
             k == BlockPages(e.size)
  <2>7. e.data = b /\ n = Flushed /\ k = Len(blocks)
    BY <1>1, <2>3, <2>4
  <2> HIDE DEF n, k
  <2>8. /\ \A j \in 1..Len(b) : b[j] = n + j
        /\ n + Len(b) = Flushed' /\ Flushed' <= Flushed'
        /\ k > 0 /\ i + k = Len(swap') + 1 /\ i + k <= Len(swap') + 1
        /\ \A j \in 1..k : swap'[i + j - 1].part = j
                           /\ swap'[i + j - 1].data = b
    BY <1>2, <1>3, <1>5, <2>5, <2>6, <2>7
  <2>9. Len(b) = BufPages \/ pc' \in Complete
    BY <1>3, <1>7
  <2> QED
    BY <2>7, <2>8, <2>9 DEF Block, NextBlock, n, k
<1> QED
  BY <1>10, <1>11, <1>12 DEF BlockSwap

(* Every step keeps the order of the pages on the swap. *)
LEMMA SwapStep ==
  ASSUME IInv, Next
  PROVE  SwapInv'
<1>1. SwapInv
  BY DEF IInv
<1>2. CASE EarlyActions
  <2>1. pc' \notin Saving \union Complete
    BY <1>2, EarlyStep, NotEarly
  <2> QED
    BY <2>1 DEF SwapInv
<1>3. CASE WriteImage \/ SetKeyRSA \/ SetKeyPassword
  <2>1. swap' = <<>> /\ Flushed' = 0
    <3>1. CASE WriteImage
      BY <3>1 DEF WriteImage, Flushed, FirstPages
    <3>2. CASE SetKeyRSA \/ SetKeyPassword
      <4>1. pc = "set_key" /\ UNCHANGED <<swap, taken, buffer, options>>
        BY <3>2 DEF SetKeyRSA, SetKeyPassword
      <4>2. ~damaged /\ swap = <<>>
        BY <4>1 DEF IInv, SaveInv, Saving
      <4>3. Len(swap) = 0
        BY <4>2
      <4>4. PlainSwap \/ NextBlock(1, 0)
        BY <1>1, <4>1, <4>2 DEF SwapInv, BlockSwap, Saving
      <4>5. Flushed = 0
        BY <4>3, <4>4 DEF PlainSwap, NextBlock
      <4> QED
        BY <4>1, <4>2, <4>5 DEF Flushed
    <3> QED
      BY <1>3, <3>1, <3>2
  <2>2. Len(swap') = 0 /\ 1..Len(swap') = {}
    BY <2>1
  <2>3. PlainSwap' /\ LockedSwap'
    BY <2>1, <2>2 DEF PlainSwap, LockedSwap
  <2>4. BlockSwap'
    BY <2>1, <2>2 DEF BlockSwap, NextBlock
  <2> QED
    BY <2>3, <2>4 DEF SwapInv
<1>4. CASE SavePage \/ SaveEnd
  <2>1. pc = "save" /\ UNCHANGED saved
    BY <1>4, SaveCases
  <2>2. pc \in Saving \union Complete /\ pc \notin Complete /\ ~damaged
    BY <2>1 DEF Saving, Complete, Booted, IInv, SaveInv
  <2>3. UNCHANGED <<options, key_data, damaged>>
    BY <2>1 DEF saved
  <2>4. CASE UNCHANGED <<swap, Flushed>>
    <3>1. "compress" \notin options => PlainSwap'
      BY <1>1, <2>2, <2>4 DEF SwapInv, PlainSwap
    <3>2. "encrypt" \in options => LockedSwap'
      BY <1>1, <2>2, <2>3, <2>4 DEF SwapInv, LockedSwap
    <3>3. ASSUME "compress" \in options PROVE BlockSwap'
      <4>1. BlockSwap
        BY <1>1, <2>2, <3>3 DEF SwapInv
      <4>2. NextBlock(1, 0)'
        BY <2>4, <4>1 DEF BlockSwap, NextBlock
      <4>3. ASSUME NEW i \in 1..Len(swap'), swap'[i].part = 1
            PROVE  Block(i)'
        <5>1. Block(i)
          BY <2>4, <4>1, <4>3 DEF BlockSwap
        <5> QED
          BY <2>2, <2>4, <5>1 DEF Block, NextBlock
      <4> QED
        BY <4>2, <4>3 DEF BlockSwap
    <3> QED
      BY <2>3, <3>1, <3>2, <3>3 DEF SwapInv
  <2>5. ASSUME NEW b \in Data, NEW blocks, Flush(b, blocks)
        PROVE  SwapInv'
    <3>1. "compress" \notin options => PlainSwap'
      BY <1>1, <1>4, <2>2, <2>5, PlainGrows DEF SwapInv
    <3>2. "compress" \in options => BlockSwap'
      BY <1>1, <1>4, <2>2, <2>5, BlocksGrow DEF SwapInv
    <3>3. "encrypt" \in options => LockedSwap'
      BY <1>1, <1>4, <2>2, <2>5, LockedGrows DEF SwapInv
    <3> QED
      BY <2>3, <3>1, <3>2, <3>3 DEF SwapInv
  <2>6. CASE /\ buffer' = Append(buffer, taken + 1) /\ taken' = taken + 1
             /\ UNCHANGED swap
    <3>1. buffer \in Seq(Nat) /\ taken \in Nat /\ Len(buffer) \in Nat
      BY <2>2, SaveFacts
    <3>2. Len(buffer') = Len(buffer) + 1
      BY <2>6, <3>1, AppendProperties
    <3>3. Flushed' = Flushed
      BY <2>6, <3>1, <3>2 DEF Flushed
    <3> QED
      BY <2>4, <2>6, <3>3
  <2>7. CASE /\ buffer = <<>> /\ buffer' = <<>>
             /\ taken' = taken /\ UNCHANGED swap
    BY <2>4, <2>7 DEF Flushed
  <2>8. (SavePage => taken' = taken + 1) /\ (SaveEnd => taken' = taken)
    BY DEF SavePage, SaveEnd
  <2>9. \/ /\ SavePage /\ buffer' = Append(buffer, taken + 1)
           /\ UNCHANGED swap
        \/ SaveEnd /\ buffer = <<>> /\ buffer' = <<>> /\ UNCHANGED swap
        \/ \E b \in Data : \E blocks : Flush(b, blocks)
    BY <1>4, SaveCases
  <2> QED
    BY <2>5, <2>6, <2>7, <2>8, <2>9
<1>5. CASE LateActions
  <2>1. /\ pc \in Complete /\ pc' \in Complete
        /\ UNCHANGED <<options, taken, buffer, key_data>>
        /\ swap' = swap \/ damaged'
        /\ damaged => damaged'
    BY <1>5, LateStep
  <2>2. CASE damaged'
    BY <2>2 DEF SwapInv
  <2>3. CASE ~damaged'
    <3>1. swap' = swap /\ ~damaged /\ Flushed' = Flushed
      BY <2>1, <2>3 DEF Flushed
    <3>2. "compress" \notin options => PlainSwap'
      BY <1>1, <2>1, <3>1 DEF SwapInv, PlainSwap
    <3>3. "encrypt" \in options => LockedSwap'
      BY <1>1, <2>1, <3>1 DEF SwapInv, LockedSwap
    <3>4. ASSUME "compress" \in options PROVE BlockSwap'
      <4>1. BlockSwap
        BY <1>1, <2>1, <3>1, <3>4 DEF SwapInv
      <4>2. NextBlock(1, 0)'
        BY <3>1, <4>1 DEF BlockSwap, NextBlock
      <4>3. ASSUME NEW i \in 1..Len(swap'), swap'[i].part = 1
            PROVE  Block(i)'
        <5>1. Block(i)
          BY <3>1, <4>1, <4>3 DEF BlockSwap
        <5> QED
          BY <2>1, <3>1, <5>1 DEF Block, NextBlock
      <4> QED
        BY <4>2, <4>3 DEF BlockSwap
    <3> QED
      BY <2>1, <3>2, <3>3, <3>4 DEF SwapInv
  <2> QED
    BY <2>2, <2>3
<1> QED
  BY <1>2, <1>3, <1>4, <1>5, Phases

-----------------------------------------------------------------------------
(* Every step keeps the keys of s2disk and the header together. *)
LEMMA KeyStep ==
  ASSUME IInv, Next
  PROVE  KeyInv'
<1>1. KeyInv
  BY DEF IInv
<1>2. CASE EarlyActions
  <2>1. pc' \in Early \union {"failed"}
    BY <1>2, EarlyStep
  <2>2. /\ pc' \notin Saving \union Complete
        /\ pc' \notin {"save", "set_key", "verify", "decrypt_key",
                       "restore_key"}
    BY <2>1, NotEarly DEF Saving, Complete, Booted
  <2>3. CASE Keygen
    <3>1. ~use_RSA /\ use_RSA' = use_RSA
      BY <1>1, <2>3 DEF KeyInv, Keygen, KeygenNext, KeygenStart, NoKeygen,
         KeygenPass, KeygenConfirm, KeygenWrite, ReadPass, Confirm, keyVars
    <3>2. pc' \in {"install", "main"} => password' = NoString
      BY <1>1, <2>3 DEF KeyInv, Keygen, KeygenNext, KeygenStart, NoKeygen,
         KeygenPass, KeygenConfirm, KeygenWrite, ReadPass, Confirm, keyVars
    <3> QED
      BY <2>2, <3>1, <3>2 DEF KeyInv
  <2>4. CASE Main
    <3>1. /\ pc = "main" /\ password' = password
          /\ \/ use_RSA' = use_RSA
             \/ key_data' = session /\ pc' = "prepare"
          /\ pc' \in {"prepare", "password"}
      BY <2>4 DEF Main, generate_key, generate_key_fails, keyVars
    <3>2. password = NoString /\ ~use_RSA
      BY <1>1, <3>1 DEF KeyInv
    <3> QED
      BY <2>2, <3>1, <3>2 DEF KeyInv
  <2>5. CASE Password
    <3>1. /\ pc \in {"password", "confirm"} /\ use_RSA' = use_RSA
          /\ pc' \in {"password", "confirm", "prepare"}
      BY <2>5 DEF Password, ReadPassword, ConfirmPassword, ReadPass, Confirm
    <3>2. ~use_RSA
      BY <1>1, <3>1 DEF KeyInv
    <3> QED
      BY <2>2, <3>1, <3>2 DEF KeyInv
  <2>6. CASE Prepare \/ NoSwap \/ SaveFails
    <3>1. UNCHANGED keyVars /\ pc' \in {"write_image", "failed"}
      BY <2>6 DEF Prepare, NoSwap, SaveFails, WriteFails
    <3> QED
      BY <1>1, <2>2, <3>1 DEF KeyInv, keyVars, FellBack
  <2>7. CASE SetKeyFails
    <3>1. /\ pc' \in {"write_image", "failed"}
          /\ UNCHANGED <<password, use_RSA>>
          /\ key_data'.key = md5(password)
      BY <2>7 DEF SetKeyFails, WriteFails, set_key_password
    <3>2. use_RSA => password = NoString
      BY <1>1 DEF KeyInv
    <3> QED
      BY <2>2, <3>1, <3>2 DEF KeyInv, FellBack
  <2> QED
    BY <1>2, <2>3, <2>4, <2>5, <2>6, <2>7 DEF EarlyActions
<1>3. CASE WriteImage
  <2>1. /\ UNCHANGED keyVars
        /\ pc' = IF "encrypt" \in options THEN "set_key" ELSE "save"
        /\ header'.flags = EarlyFlags
        /\ options' = options
    BY <1>3 DEF WriteImage, NoHeader
  <2>2. header'.flags \cap {"ENCRYPTED", "USE_RSA"} = {}
    BY <2>1 DEF EarlyFlags, Flag
  <2> QED
    BY <1>1, <2>1, <2>2 DEF KeyInv, keyVars, FellBack
<1>4. CASE SetKeyRSA
  <2>1. header \in Header
    BY DEF IInv, TypeInv, TypeOK
  <2>2. /\ use_RSA /\ pc' = "save" /\ swap' = swap
        /\ UNCHANGED <<password, use_RSA, key_data, options>>
        /\ cipher' = setkey(key_data)
    BY <1>4 DEF SetKeyRSA, set_key_RSA, Usable
  <2>3. "USE_RSA" \in header'.flags /\ header'.key = session
    BY <1>4, <2>1 DEF SetKeyRSA, Header
  <2>4. Len(swap) = 0
    BY <1>4 DEF SetKeyRSA, IInv, SaveInv
  <2> QED
    BY <1>1, <2>2, <2>3, <2>4 DEF KeyInv, setkey, FellBack
<1>5. CASE SetKeyPassword
  <2>1. header \in Header
    BY DEF IInv, TypeInv, TypeOK
  <2>2. PICK salt \in Salts :
          /\ set_key_password(salt)
          /\ header' = [header EXCEPT !.flags = @ \union {"ENCRYPTED"},
                                      !.salt = salt]
    BY <1>5 DEF SetKeyPassword
  <2>3. /\ header'.salt = salt
        /\ header'.flags = header.flags \union {"ENCRYPTED"}
    BY <2>1, <2>2 DEF Header
  <2>4. /\ pc = "set_key" /\ pc' = "save" /\ swap' = swap
        /\ UNCHANGED <<password, use_RSA, options>>
        /\ key_data' = [key |-> md5(password), ivec |-> vector(password, salt)]
        /\ cipher' = setkey(key_data')
    BY <1>5, <2>2 DEF SetKeyPassword, set_key_password
  <2>5. Len(swap) = 0
    BY <2>4 DEF IInv, SaveInv
  <2>6. use_RSA => password = NoString
    BY <1>1 DEF KeyInv
  <2>7. "USE_RSA" \notin header'.flags
    BY <1>1, <2>3, <2>4 DEF KeyInv
  <2> QED
    BY <2>3, <2>4, <2>5, <2>6, <2>7 DEF KeyInv, setkey, FellBack
<1>6. CASE SavePage \/ SaveEnd
  <2>1. pc = "save" /\ UNCHANGED <<password, use_RSA, key_data, options>>
    BY <1>6 DEF SavePage, SaveEnd
  <2>2. /\ header'.key = header.key /\ header'.salt = header.salt
        /\ "ENCRYPTED" \in header'.flags <=> "ENCRYPTED" \in header.flags
        /\ "USE_RSA" \in header'.flags <=> "USE_RSA" \in header.flags
        /\ pc' \in {"save", "verify", "mark"}
    <3>1. header \in Header
      BY DEF IInv, TypeInv, TypeOK
    <3>2. CASE SavePage
      BY <2>1, <3>2 DEF SavePage
    <3>3. CASE SaveEnd
      BY <3>1, <3>3 DEF SaveEnd, Header
    <3> QED
      BY <1>6, <3>2, <3>3
  <2>3. "encrypt" \in options =>
          cipher' = [key |-> key_data.key, ivec |-> key_data.ivec,
                     n |-> Len(swap')]
    <3> SUFFICES ASSUME "encrypt" \in options
                 PROVE  cipher' = [key |-> key_data.key,
                                   ivec |-> key_data.ivec, n |-> Len(swap')]
      OBVIOUS
    <3>1. cipher = [key |-> key_data.key, ivec |-> key_data.ivec,
                    n |-> Len(swap)]
      BY <1>1, <2>1 DEF KeyInv
    <3>2. ASSUME NEW b \in Data, NEW blocks, Flush(b, blocks)
          PROVE  cipher' = [key |-> key_data.key, ivec |-> key_data.ivec,
                            n |-> Len(swap')]
      <4>1. Len(swap') = Len(swap) + Len(blocks)
        BY <1>6, <3>2, SwapGrows
      <4>2. cipher' = [cipher EXCEPT !.n = @ + Len(blocks)]
        BY <3>2 DEF Flush
      <4> QED
        BY <3>1, <4>1, <4>2
    <3> QED
      BY <1>6, <3>1, <3>2, SaveCases
  <2>4. pc \in Saving \union Complete
    BY <2>1 DEF Saving
  <2> QED
    BY <1>1, <2>1, <2>2, <2>3, <2>4 DEF KeyInv, FellBack
<1>7. CASE LateActions
  <2>1. /\ pc \in Complete /\ pc' \in Complete
        /\ UNCHANGED <<options, header, password, use_RSA, key_data>>
    BY <1>7, LateStep
  <2>2. /\ pc' \notin {"save", "set_key", "install", "keygen_pass", "main",
                       "keygen_confirm", "keygen_write", "password", "confirm"}
    BY <2>1 DEF Complete, Booted
  <2>3. /\ pc' = "decrypt_key" => "USE_RSA" \in header.flags
        /\ pc' = "restore_key" => "USE_RSA" \notin header.flags
        /\ pc' # "verify"
    <3>1. CASE Resume
      BY <3>1 DEF Resume
    <3>2. CASE RestoreKey
      BY <1>1, <3>2 DEF KeyInv, RestoreKey, decrypt_key, restore_key
    <3>3. CASE Verify \/ Shutdown \/ RebootQuestion \/ Damage
      BY <3>3 DEF Verify, Shutdown, RebootQuestion, Damage
    <3>4. CASE LoadFails
      BY <3>4 DEF LoadFails, LoadStops, Refuse
    <3>5. CASE LoadPlain \/ LoadBlock
      <4>1. pc \in Reading
        BY <3>5, LoadCases
      <4>2. ASSUME NEW b \in Data, NEW k \in Nat, Turn(b, k)
            PROVE  pc' \notin {"decrypt_key", "restore_key", "verify"}
        BY <4>1, <4>2 DEF Turn, Refused, GoesOn, Mismatch, Done, Reading
      <4> QED
        BY <3>5, <4>2, LoadCases DEF LoadStops, Refuse
    <3> QED
      BY <1>7, <3>1, <3>2, <3>3, <3>4, <3>5 DEF LateActions, Load
  <2> QED
    BY <1>1, <2>1, <2>2, <2>3 DEF KeyInv, FellBack
<1> QED
  BY <1>2, <1>3, <1>4, <1>5, <1>6, <1>7, Phases

-----------------------------------------------------------------------------
(* With an undamaged swap a turn is a good one, or the key is wrong and    *)
(* nothing is read.                                                        *)
LEMMA TurnCases ==
  ASSUME IInv, LoadPlain \/ LoadBlock, ~damaged
  PROVE  \/ KeyRight /\ \E b \in Data, k \in Nat : GoodTurn(b, k)
         \/ ~KeyRight /\ pc = "load" /\ pc' \in {"question", "crashed"}
<1>1. pc \in Reading
  BY LoadCases
<1>2. CASE KeyRight
  BY <1>2, RightKeyTurns
<1>3. CASE ~KeyRight
  <2>1. pc = "load"
    BY <1>1, <1>3 DEF IInv, ReadInv, Reading
  <2> QED
    BY <1>3, <2>1, WrongKeyStops
<1> QED
  BY <1>2, <1>3

(* Before the first page is read. *)
LEMMA StartRead ==
  ASSUME pc' \in Reading, pos' = 0, loaded' = 0, sum' = <<>>, kernel' = <<>>,
         TypeInv', SaveInv', SwapInv',
         ("ENCRYPTED" \in header.flags)' => cipher'.n = 0,
         pc' = "verify_load" => ~damaged' /\ KeyRight',
         pc' = "load" /\ ~damaged' /\ ~FellBack'
           /\ ("USE_RSA" \notin header'.flags => answer' = password')
           => KeyRight'
  PROVE  ReadInv'
<1>1. pc' \in Complete /\ pc' \notin {"verify", "mark", "decrypt_key",
                                      "restore_key"}
  BY DEF Reading, Complete, Booted
<1>2. header'.pages \in Nat
  BY DEF TypeInv, TypeOK, Header
<1>3. ~damaged' => GoodRead'
  <2> SUFFICES ASSUME ~damaged' PROVE GoodRead'
    OBVIOUS
  <2>1. 0 % BufPages = 0
    BY ImageAssumption
  <2>2. "compress" \in options' => NextBlock(1, 0)'
    BY <1>1 DEF SwapInv, BlockSwap
  <2>3. (NextBlock(pos + 1, loaded))' <=> NextBlock(1, 0)'
    BY DEF NextBlock
  <2> QED
    BY <2>1, <2>2, <2>3 DEF GoodRead
<1>4. Len(sum') = 0 /\ Len(kernel') = 0
  OBVIOUS
<1> QED
  BY <1>1, <1>2, <1>3, <1>4 DEF ReadInv

(* A turn after which there is more to read. *)
LEMMA ReadOn ==
  ASSUME IInv, pc \in Reading, NEW b \in Data, NEW k \in Nat,
         pos + k <= Len(swap), Turn(b, k), pc' \in Reading
  PROVE  /\ GoesOn(b) /\ pc' = pc
         /\ "ENCRYPTED" \in header.flags => cipher'.n = pos'
         /\ loaded' < header.pages /\ loaded' > 0
         /\ verify_checksum => Len(sum') = loaded'
         /\ pc = "load" => /\ Len(kernel') = loaded'
                           /\ "CHECKSUM" \in header.flags => kernel' = sum'
         /\ KeyRight => KeyRight'
<1>1. GoesOn(b) /\ pc' = pc
  BY DEF Turn, Refused, GoesOn, Mismatch, Done, Reading
<1>2. /\ pos \in Nat /\ loaded \in Nat /\ cipher \in Cipher
      /\ header.pages \in Nat
      /\ loaded < header.pages \/ (loaded = 0 /\ header.pages = 0)
  BY ReadFacts
<1>3. b \in Seq(Nat) /\ Len(b) \in Nat /\ Len(b) > 0
  BY DEF Data
<1>4. /\ pos' = pos + k /\ loaded' = loaded + Len(b) /\ header' = header
      /\ cipher' = IF "ENCRYPTED" \in header.flags
                   THEN [cipher EXCEPT !.n = @ + k] ELSE cipher
      /\ sum' = IF verify_checksum THEN sum \o b ELSE sum
      /\ pc = "load" => kernel' = kernel \o b
      /\ key_data' = key_data
  BY <1>1 DEF Turn, GoesOn, writeVars
<1>5. loaded' < header.pages /\ loaded' > 0
  BY <1>1, <1>2, <1>3, <1>4 DEF GoesOn, Todo
<1>6. "ENCRYPTED" \in header.flags =>
        /\ cipher'.n = pos' /\ cipher'.key = cipher.key
        /\ cipher'.ivec = cipher.ivec
  <2>1. "ENCRYPTED" \in header.flags => cipher.n = pos
    BY DEF IInv, ReadInv
  <2> QED
    BY <1>2, <1>4, <2>1 DEF Cipher
<1>7. sum \in Seq(Nat) /\ kernel \in Seq(Nat)
  BY DEF IInv, TypeInv
<1>8. verify_checksum => Len(sum') = loaded'
  <2>1. verify_checksum => Len(sum) = loaded
    BY DEF IInv, ReadInv
  <2>2. Len(sum \o b) = Len(sum) + Len(b)
    BY <1>3, <1>7, ConcatProperties
  <2> QED
    BY <1>4, <2>1, <2>2
<1>9. pc = "load" => /\ Len(kernel') = loaded'
                     /\ "CHECKSUM" \in header.flags => kernel' = sum'
  <2>1. pc = "load" => /\ Len(kernel) = loaded
                       /\ "CHECKSUM" \in header.flags => kernel = sum
    BY DEF IInv, ReadInv
  <2>2. Len(kernel \o b) = Len(kernel) + Len(b)
    BY <1>3, <1>7, ConcatProperties
  <2>3. "CHECKSUM" \in header.flags => verify_checksum
    BY DEF verify_checksum
  <2> QED
    BY <1>4, <2>1, <2>2, <2>3
<1>10. KeyRight => KeyRight'
  <2>1. pos' = 0 => pos = 0
    BY <1>2, <1>4
  <2> QED
    BY <1>4, <1>6, <2>1 DEF KeyRight
<1> QED
  BY <1>1, <1>5, <1>6, <1>8, <1>9, <1>10

(* Pages in their order, and the next ones behind them. *)
LEMMA OrderGrows ==
  ASSUME NEW s \in Seq(Nat), NEW b \in Seq(Nat), NEW n \in Nat, Len(s) = n,
         \A j \in 1..n : s[j] = j,
         \A j \in 1..Len(b) : b[j] = n + j
  PROVE  \A j \in 1..(n + Len(b)) : (s \o b)[j] = j
<1>1. /\ Len(b) \in Nat
      /\ \A j \in 1..(n + Len(b)) :
           (s \o b)[j] = IF j <= n THEN s[j] ELSE b[j - n]
  BY ConcatProperties
<1>2. ASSUME NEW j \in 1..(n + Len(b)) PROVE (s \o b)[j] = j
  <2>1. CASE j <= n
    BY <1>1, <2>1
  <2>2. CASE j > n
    <3>1. j - n \in 1..Len(b) /\ ~(j <= n) /\ n + (j - n) = j
      BY <1>1, <2>2
    <3> QED
      BY <1>1, <3>1
  <2> QED
    BY <1>1, <2>1, <2>2
<1> QED
  BY <1>2

(* A good turn after which there is more to read. *)
LEMMA GoodReadOn ==
  ASSUME IInv, pc \in Reading, NEW b \in Data, NEW k \in Nat, GoodTurn(b, k),
         pc' \in Reading, ~damaged, KeyRight
  PROVE  GoodRead'
<1>1. pos + k <= Len(swap) /\ Turn(b, k)
  BY DEF GoodTurn
<1>2. /\ GoesOn(b) /\ pc' = pc /\ loaded' < header.pages
  BY <1>1, ReadOn
<1>3. GoodRead
  BY DEF IInv, ReadInv
<1>4. /\ pos \in Nat /\ loaded \in Nat /\ size \in Nat
      /\ header.pages \in Nat /\ header.pages <= size
  BY ReadFacts
<1>5. b \in Seq(Nat) /\ Len(b) \in Nat
  BY DEF Data
<1>6. /\ pos' = pos + k /\ loaded' = loaded + Len(b)
      /\ sum' = IF verify_checksum THEN sum \o b ELSE sum
      /\ pc = "load" => kernel' = kernel \o b
      /\ UNCHANGED <<options, header, swap, taken, buffer>>
  BY <1>1, <1>2 DEF Turn, GoesOn, writeVars
<1>7. Len(b) = BufPages
  <2>1. loaded + Len(b) < size
    BY <1>2, <1>4, <1>5, <1>6
  <2> QED
    BY <1>4, <1>5, <2>1 DEF GoodTurn
<1>8. loaded' % BufPages = 0
  BY <1>3, <1>4, <1>6, <1>7, Multiple DEF GoodRead
<1>9. "compress" \notin options => pos' = loaded'
  BY <1>3, <1>6 DEF GoodRead, GoodTurn
<1>10. "compress" \in options => NextBlock(pos + 1, loaded)'
  <2> SUFFICES ASSUME "compress" \in options
               PROVE  NextBlock(pos + 1, loaded)'
    OBVIOUS
  <2>1. NextBlock(pos + k + 1, loaded + Len(b))
    BY DEF GoodTurn
  <2>2. pos' + 1 = pos + k + 1 /\ loaded' = loaded + Len(b)
    BY <1>6
  <2> QED
    BY <1>6, <2>1, <2>2 DEF NextBlock, Flushed
<1>11. \A j \in 1..Len(b) : b[j] = loaded + j
  BY DEF GoodTurn
<1>12. sum \in Seq(Nat) /\ kernel \in Seq(Nat)
  BY DEF IInv, TypeInv
<1>13. verify_checksum' => \A j \in 1..loaded' : sum'[j] = j
  <2> SUFFICES ASSUME verify_checksum'
               PROVE  \A j \in 1..loaded' : sum'[j] = j
    OBVIOUS
  <2>1. verify_checksum
    BY <1>2, <1>6 DEF verify_checksum
  <2>2. Len(sum) = loaded /\ \A j \in 1..loaded : sum[j] = j
    BY <1>3, <2>1 DEF IInv, ReadInv, GoodRead
  <2>3. \A j \in 1..(loaded + Len(b)) : (sum \o b)[j] = j
    BY <1>4, <1>5, <1>11, <1>12, <2>2, OrderGrows, ZenonT(30)
  <2> QED
    BY <1>6, <2>1, <2>3
<1>14. pc' = "load" => \A j \in 1..loaded' : kernel'[j] = j
  <2> SUFFICES ASSUME pc' = "load"
               PROVE  \A j \in 1..loaded' : kernel'[j] = j
    OBVIOUS
  <2>1. pc = "load"
    BY <1>2
  <2>2. Len(kernel) = loaded /\ \A j \in 1..loaded : kernel[j] = j
    BY <1>3, <2>1 DEF IInv, ReadInv, GoodRead
  <2>3. \A j \in 1..(loaded + Len(b)) : (kernel \o b)[j] = j
    BY <1>4, <1>5, <1>11, <1>12, <2>2, OrderGrows
  <2> QED
    BY <1>6, <2>1, <2>3
<1> QED
  BY <1>6, <1>8, <1>9, <1>10, <1>13, <1>14 DEF GoodRead

(* Every step keeps what load_image() relies on. *)
LEMMA ReadStep ==
  ASSUME IInv, Next
  PROVE  ReadInv'
<1>1. ReadInv /\ KeyInv /\ SaveInv
  BY DEF IInv
<1>2. TypeInv' /\ SaveInv' /\ SwapInv'
  BY TypeStep, SaveStep, SwapStep
<1>3. CASE EarlyActions \/ WriteImage \/ SetKeyRSA \/ SetKeyPassword
  <2>1. pc' \notin Complete
    <3>1. CASE EarlyActions
      BY <3>1, EarlyStep, NotEarly
    <3>2. CASE WriteImage \/ SetKeyRSA \/ SetKeyPassword
      BY <3>2 DEF WriteImage, SetKeyRSA, SetKeyPassword, Complete, Booted
    <3> QED
      BY <1>3, <3>1, <3>2
  <2>2. /\ pc' \notin Reading
        /\ pc' \notin {"load", "verify", "verify_load", "mark", "decrypt_key",
                       "restore_key"}
    BY <2>1 DEF Complete, Booted, Reading
  <2> QED
    BY <2>2 DEF ReadInv
<1>4. CASE SavePage \/ SaveEnd
  <2>1. pc = "save" /\ damaged' = damaged /\ pc' \in {"save", "verify", "mark"}
    BY <1>4 DEF SavePage, SaveEnd
  <2>2. ~damaged
    BY <1>1, <2>1 DEF SaveInv, Saving
  <2> QED
    BY <2>1, <2>2 DEF ReadInv, Reading
<1>5. CASE Shutdown \/ RebootQuestion \/ Damage
  BY <1>5 DEF Shutdown, RebootQuestion, Damage, ReadInv, Reading
<1>6. CASE LoadFails
  BY <1>6 DEF LoadFails, LoadStops, Refuse, ReadInv, Reading
<1>7. CASE Verify
  <2>1. /\ pc = "verify" /\ pc' = "verify_load"
        /\ pos' = 0 /\ loaded' = 0 /\ sum' = <<>> /\ kernel' = <<>>
        /\ UNCHANGED <<header, key_data, damaged>>
        /\ cipher' = IF "ENCRYPTED" \in header.flags THEN Rewound ELSE cipher
    BY <1>7 DEF Verify, StartReading, writeVars
  <2>2. ~damaged
    BY <1>1, <2>1 DEF ReadInv
  <2>3. cipher \in Cipher
    BY DEF IInv, TypeInv, TypeOK, KeysTypeOK, Cipher
  <2>4. "ENCRYPTED" \in header.flags =>
          /\ cipher'.n = 0 /\ cipher'.ivec = key_data.ivec
          /\ cipher'.key = key_data.key
    <3>1. "ENCRYPTED" \in header.flags => "encrypt" \in options
      BY <1>1, <2>1 DEF SaveInv, Complete
    <3>2. "ENCRYPTED" \in header.flags => cipher.key = key_data.key
      BY <1>1, <2>1, <3>1 DEF KeyInv
    <3> QED
      BY <2>1, <2>3, <3>2 DEF Rewound, Cipher
  <2>5. KeyRight'
    BY <2>1, <2>4 DEF KeyRight
  <2> QED
    BY <1>2, <2>1, <2>2, <2>4, <2>5, StartRead DEF Reading
<1>8. CASE Resume
  <2>1. /\ pos' = 0 /\ loaded' = 0 /\ sum' = <<>> /\ kernel' = <<>>
        /\ header' = header
        /\ pc' = IF "ENCRYPTED" \notin header.flags THEN "load"
                 ELSE IF "USE_RSA" \in header.flags THEN "decrypt_key"
                 ELSE "restore_key"
    BY <1>8 DEF Resume, StartReading, writeVars
  <2>2. CASE pc' = "load"
    <3>1. "ENCRYPTED" \notin header'.flags
      BY <2>1, <2>2
    <3>2. KeyRight'
      BY <3>1 DEF KeyRight
    <3> QED
      BY <1>2, <2>1, <2>2, <3>1, <3>2, StartRead DEF Reading
  <2>3. CASE pc' # "load"
    BY <2>1, <2>3 DEF ReadInv, Reading
  <2> QED
    BY <2>2, <2>3
<1>9. CASE RestoreKey
  <2>1. PICK t \in Typed :
          decrypt_key(t, header.rsa, header.key, "load")
          \/ restore_key(t, header.salt, "load")
    BY <1>9 DEF RestoreKey
  <2>2. /\ UNCHANGED <<pos, loaded, sum, kernel, header, damaged, key_data,
                       password>>
        /\ pc \in {"decrypt_key", "restore_key"}
        /\ pc' \in {pc, "load"}
    BY <1>9, <2>1 DEF RestoreKey, decrypt_key, restore_key, writeVars, readVars
  <2>3. pos = 0 /\ loaded = 0 /\ sum = <<>> /\ kernel = <<>>
    BY <1>1, <2>2 DEF ReadInv
  <2>4. CASE pc' = pc
    BY <2>2, <2>3, <2>4 DEF ReadInv, Reading
  <2>5. CASE pc' = "load"
    <3>1. cipher'.n = 0
      BY <2>1, <2>2, <2>5 DEF decrypt_key, restore_key, setkey
    <3>2. ASSUME ~FellBack', "USE_RSA" \notin header'.flags =>
                               answer' = password'
          PROVE  KeyRight'
      <4>1. CASE pc = "decrypt_key"
        <5>1. cipher' = setkey(header.key)
          BY <2>1, <2>2, <2>5, <4>1 DEF decrypt_key, restore_key
        <5>2. "USE_RSA" \in header.flags
          BY <1>1, <4>1 DEF KeyInv
        <5>3. use_RSA /\ header.key = session
          BY <1>1, <4>1, <5>2 DEF KeyInv, Complete, Booted
        <5>4. key_data = session
          BY <1>1, <2>2, <3>2, <5>3 DEF KeyInv, FellBack
        <5> QED
          BY <2>2, <5>1, <5>3, <5>4 DEF KeyRight, setkey
      <4>2. CASE pc = "restore_key"
        <5>1. cipher' = setkey([key |-> md5(answer'),
                                ivec |-> vector(answer', header.salt)])
          BY <2>1, <2>2, <2>5, <4>2 DEF decrypt_key, restore_key
        <5>2. "USE_RSA" \notin header.flags
          BY <1>1, <4>2 DEF KeyInv
        <5>3. answer' = password
          BY <2>2, <3>2, <5>2
        <5>4. "ENCRYPTED" \in header.flags =>
                /\ key_data.key = md5(password)
                /\ key_data.ivec = vector(password, header.salt)
          BY <1>1, <4>2, <5>2 DEF KeyInv, Complete, Booted
        <5> QED
          BY <2>2, <5>1, <5>3, <5>4 DEF KeyRight, setkey
      <4> QED
        BY <2>2, <4>1, <4>2
    <3> QED
      BY <1>2, <2>2, <2>3, <2>5, <3>1, <3>2, StartRead DEF Reading
  <2> QED
    BY <2>2, <2>4, <2>5
<1>10. CASE LoadPlain \/ LoadBlock
  <2>1. pc \in Reading
    BY <1>10, LoadCases
  <2>2. pc' \in Reading =>
          \E b \in Data, k \in Nat : pos + k <= Len(swap) /\ Turn(b, k)
    <3>1. \A e : LoadStops(e) => pc' \notin Reading
      BY DEF LoadStops, Refuse, Reading
    <3>2. pc' = "crashed" => pc' \notin Reading
      BY DEF Reading
    <3> QED
      BY <1>10, <3>1, <3>2, LoadCases
  <2>3. /\ pc' \notin {"verify", "decrypt_key", "restore_key"}
        /\ pc' = "mark" => pc = "verify_load"
        /\ damaged' = damaged
    <3>1. ASSUME NEW b \in Data, NEW k \in Nat, Turn(b, k)
          PROVE  /\ pc' \notin {"verify", "decrypt_key", "restore_key"}
                 /\ pc' = "mark" => pc = "verify_load"
                 /\ damaged' = damaged
      BY <2>1, <3>1 DEF Turn, Refused, GoesOn, Mismatch, Done, Reading,
         writeVars
    <3> QED
      BY <1>10, <3>1, LoadCases DEF LoadStops, Refuse, writeVars
  <2>4. CASE pc' \notin Reading
    BY <1>1, <2>3, <2>4 DEF ReadInv, Reading
  <2>5. CASE pc' \in Reading
    <3>1. PICK b \in Data, k \in Nat : pos + k <= Len(swap) /\ Turn(b, k)
      BY <2>2, <2>5
    <3>2. /\ pc' = pc
          /\ "ENCRYPTED" \in header.flags => cipher'.n = pos'
          /\ loaded' < header.pages /\ loaded' > 0
          /\ verify_checksum => Len(sum') = loaded'
          /\ pc = "load" => /\ Len(kernel') = loaded'
                            /\ "CHECKSUM" \in header.flags => kernel' = sum'
          /\ KeyRight => KeyRight'
      BY <2>1, <2>5, <3>1, ReadOn
    <3>3. UNCHANGED <<header, options>>
      BY <3>1 DEF Turn, writeVars
    <3>4. verify_checksum' <=> verify_checksum
      BY <3>2, <3>3 DEF verify_checksum
    <3>5. ~damaged' => KeyRight' /\ GoodRead'
      <4> SUFFICES ASSUME ~damaged' PROVE KeyRight' /\ GoodRead'
        OBVIOUS
      <4>1. pc' \notin {"question", "crashed"}
        BY <2>5 DEF Reading
      <4>2. KeyRight /\ \E c \in Data, l \in Nat : GoodTurn(c, l)
        BY <1>10, <2>3, <4>1, TurnCases
      <4> QED
        BY <2>1, <2>3, <2>5, <3>2, <4>2, GoodReadOn
    <3>6. pc' \notin {"verify", "mark", "decrypt_key", "restore_key"}
      BY <2>5 DEF Reading
    <3>7. loaded' # 0
      BY <3>2
    <3>8. pc' = "verify_load" => ~damaged' /\ KeyRight'
      BY <1>1, <2>3, <3>2 DEF ReadInv
    <3> QED
      BY <3>2, <3>3, <3>4, <3>5, <3>6, <3>7, <3>8 DEF ReadInv
  <2> QED
    BY <2>4, <2>5
<1> QED
  BY <1>3, <1>4, <1>5, <1>6, <1>7, <1>8, <1>9, <1>10, Phases
     DEF LateActions, Load

-----------------------------------------------------------------------------
(* What the writer's checksum is over. *)
LEMMA WholeSum ==
  ASSUME IInv, pc \in Reading, verify_checksum
  PROVE  /\ header.sum \in Seq(Nat) /\ Len(header.sum) = size
         /\ \A j \in 1..size : header.sum[j] = j
<1>1. pc \in Complete
  BY DEF Reading, Complete, Booted
<1>2. header.sum = ctx /\ ctx \in Seq(Nat)
  BY <1>1 DEF IInv, SaveInv, TypeInv
<1>3. options \cap {"checksum", "verify"} # {}
  <2>1. "CHECKSUM" \in header.flags <=> "checksum" \in options
    BY <1>1 DEF IInv, SaveInv
  <2> QED
    BY <2>1 DEF verify_checksum
<1>4. Len(ctx) = Flushed /\ \A j \in 1..Flushed : ctx[j] = j
  BY <1>1, <1>3 DEF IInv, SaveInv
<1> QED
  BY <1>2, <1>4, ReadFacts

(* A kernel that gets what comes first in the image gets all it should. *)
LEMMA LastPages ==
  ASSUME IInv, pc = "load", NEW b \in Data, Done(b),
         kernel' \in Seq(Nat), Len(b) >= Todo,
         \A j \in 1..loaded : kernel[j] = j,
         \A j \in 1..Todo : b[j] = loaded + j
  PROVE  kernel' = Pages(size) \/ (~SizeKnown /\ kernel' = Pages(size - 1))
<1>1. pc \in Reading /\ pc \in Complete
  BY DEF Reading, Complete, Booted
<1>2. /\ loaded \in Nat /\ size \in Nat /\ size > 0 /\ header.pages \in Nat
      /\ loaded < header.pages \/ (loaded = 0 /\ header.pages = 0)
  BY <1>1, ReadFacts
<1>3. header.pages = IF SizeKnown THEN size ELSE size - 1
  BY <1>1 DEF IInv, SaveInv
<1>4. Todo \in Nat /\ Todo > 0
  BY <1>2 DEF Todo
<1>5. b \in Seq(Nat) /\ Len(b) \in Nat /\ kernel \in Seq(Nat)
      /\ Len(kernel) = loaded
  BY DEF Data, IInv, TypeInv, ReadInv
<1> DEFINE c == SubSeq(b, 1, Todo)
<1>6. /\ c \in Seq(Nat) /\ Len(c) = Todo
      /\ \A j \in 1..Todo : c[j] = b[j]
  <2>1. Todo <= Len(b)
    BY <1>4, <1>5
  <2> HIDE DEF Todo
  <2> QED
    BY <1>4, <1>5, <2>1, SMTT(30)
<1>7. kernel' = kernel \o c
  BY DEF Done
<1> HIDE DEF c
<1>8. \A j \in 1..Len(c) : c[j] = loaded + j
  BY <1>6
<1>9. \A j \in 1..(loaded + Len(c)) : (kernel \o c)[j] = j
  BY <1>2, <1>5, <1>6, <1>8, OrderGrows
<1>10. Len(kernel') = loaded + Todo
  <2>1. Len(kernel \o c) = Len(kernel) + Len(c)
    BY <1>5, <1>6, ConcatProperties, ZenonT(30)
  <2> QED
    BY <1>5, <1>6, <1>7, <2>1
<1>11. kernel' = Pages(loaded + Todo)
  <2>1. \A j \in 1..(loaded + Todo) : kernel'[j] = j
    BY <1>6, <1>7, <1>9
  <2>2. kernel' = [j \in 1..(loaded + Todo) |-> kernel'[j]]
    BY <1>10
  <2> QED
    BY <2>1, <2>2 DEF Pages
<1>12. \/ loaded + Todo = size
       \/ ~SizeKnown /\ loaded + Todo = size - 1
  BY <1>2, <1>3 DEF Todo
<1> QED
  BY <1>11, <1>12

(* The step that hands over to the kernel has given it the image. *)
LEMMA KernelStep ==
  ASSUME IInv, Next
  PROVE  KernelGetsImage'
<1> SUFFICES ASSUME pc' = "restore", damaged' => "CHECKSUM" \in header'.flags
             PROVE  \/ kernel' = Pages(size')
                    \/ ~SizeKnown' /\ kernel' = Pages(size' - 1)
  BY DEF KernelGetsImage
<1>1. LoadPlain \/ LoadBlock
  <2>1. ~EarlyActions
    BY EarlyStep DEF Early
  <2>2. ~(WriteImage \/ SetKeyRSA \/ SetKeyPassword \/ SavePage \/ SaveEnd)
    BY DEF WriteImage, SetKeyRSA, SetKeyPassword, SavePage, SaveEnd
  <2>3. ~(Verify \/ Shutdown \/ Resume \/ RestoreKey \/ RebootQuestion
          \/ Damage)
    BY DEF Verify, Shutdown, Resume, RestoreKey, decrypt_key, restore_key,
       RebootQuestion, Damage
  <2>4. ~LoadFails
    BY DEF LoadFails, LoadStops, Refuse
  <2> QED
    BY <2>1, <2>2, <2>3, <2>4, Phases DEF LateActions, Load
<1>2. /\ pc \in Reading
      /\ \E b \in Data, k \in Nat : Turn(b, k)
  BY <1>1, LoadCases DEF LoadStops, Refuse
<1>3. ASSUME NEW b \in Data, NEW k \in Nat, Turn(b, k)
      PROVE  /\ Done(b) /\ Len(b) >= Todo /\ pc = "load"
             /\ kernel' \in Seq(Nat)
             /\ UNCHANGED <<size, size_ioctl, options, header, damaged>>
  BY <1>2, <1>3 DEF Turn, Refused, GoesOn, Mismatch, Done, Reading, writeVars
<1>4. pc = "load" /\ UNCHANGED <<size, size_ioctl, options, header, damaged>>
  BY <1>2, <1>3
<1>5. /\ loaded \in Nat /\ size \in Nat
      /\ loaded < header.pages \/ (loaded = 0 /\ header.pages = 0)
      /\ header.pages \in Nat /\ header.pages <= size /\ size > 0
  BY <1>2, ReadFacts
<1>6. Todo \in Nat /\ loaded + Todo <= size
  BY <1>5 DEF Todo
<1>7. CASE "CHECKSUM" \in header.flags
  <2>1. PICK b \in Data, k \in Nat : Turn(b, k)
    BY <1>2
  <2>2. verify_checksum
    BY <1>7 DEF verify_checksum
  <2>3. sum' = sum \o b /\ sum' = header.sum
    BY <1>3, <2>1, <2>2 DEF Turn, Done
  <2>4. /\ kernel = sum /\ Len(sum) = loaded /\ sum \in Seq(Nat)
        /\ b \in Seq(Nat) /\ Len(b) \in Nat
    BY <1>2, <1>4, <1>7, <2>2 DEF IInv, TypeInv, ReadInv, Data
  <2>5. \A j \in 1..size : (sum \o b)[j] = j
    BY <1>2, <2>2, <2>3, WholeSum
  <2>6. /\ \A j \in 1..(loaded + Len(b)) :
             (sum \o b)[j] = IF j <= loaded THEN sum[j] ELSE b[j - loaded]
    BY <2>4, ConcatProperties
  <2>7. Len(b) >= Todo
    BY <1>3, <2>1
  <2>8. ASSUME NEW j \in 1..loaded PROVE kernel[j] = j
    <3>1. j \in 1..size /\ j \in 1..(loaded + Len(b)) /\ j <= loaded
      BY <1>5, <2>4
    <3> QED
      BY <2>4, <2>5, <2>6, <3>1
  <2>9. ASSUME NEW j \in 1..Todo PROVE b[j] = loaded + j
    <3>1. /\ loaded + j \in 1..size /\ loaded + j \in 1..(loaded + Len(b))
          /\ ~(loaded + j <= loaded) /\ (loaded + j) - loaded = j
      BY <1>5, <1>6, <2>4, <2>7
    <3> QED
      BY <2>5, <2>6, <3>1
  <2> QED
    BY <1>3, <1>4, <2>1, <2>7, <2>8, <2>9, LastPages DEF SizeKnown
<1>8. CASE "CHECKSUM" \notin header.flags
  <2>1. ~damaged
    BY <1>4, <1>8
  <2>2. KeyRight /\ \E b \in Data, k \in Nat : GoodTurn(b, k)
    BY <1>1, <2>1, TurnCases
  <2>3. PICK b \in Data, k \in Nat : GoodTurn(b, k)
    BY <2>2
  <2>4. Turn(b, k) /\ \A j \in 1..Len(b) : b[j] = loaded + j
    BY <2>3 DEF GoodTurn
  <2>5. /\ Done(b) /\ Len(b) >= Todo /\ kernel' \in Seq(Nat)
    BY <1>3, <2>4
  <2>6. \A j \in 1..loaded : kernel[j] = j
    BY <1>2, <1>4, <2>1, <2>2 DEF IInv, ReadInv, GoodRead
  <2>7. Len(b) \in Nat
    BY DEF Data
  <2>8. \A j \in 1..Todo : b[j] = loaded + j
    BY <1>6, <2>4, <2>5, <2>7
  <2> QED
    BY <1>4, <2>5, <2>6, <2>8, LastPages DEF SizeKnown
<1> QED
  BY <1>7, <1>8

(* A step that refuses the image has a cause. *)
LEMMA CauseStep ==
  ASSUME IInv, Next
  PROVE  FailsOnlyForCause'
<1> SUFFICES ASSUME pc' \in {"question", "crashed", "verify_failed"},
                    ~damaged', error' # "io"
             PROVE  FailsOnlyForCause'
  BY DEF FailsOnlyForCause
<1>1. LoadPlain \/ LoadBlock
  <2>1. ~EarlyActions
    BY EarlyStep DEF Early
  <2>2. ~(WriteImage \/ SetKeyRSA \/ SetKeyPassword \/ SavePage \/ SaveEnd)
    BY DEF WriteImage, SetKeyRSA, SetKeyPassword, SavePage, SaveEnd
  <2>3. ~(Verify \/ Shutdown \/ Resume \/ RestoreKey \/ RebootQuestion
          \/ Damage)
    BY DEF Verify, Shutdown, Resume, RestoreKey, decrypt_key, restore_key,
       RebootQuestion, Damage
  <2>4. ~LoadFails
    BY DEF LoadFails, LoadStops, Refuse
  <2> QED
    BY <2>1, <2>2, <2>3, <2>4, Phases DEF LateActions, Load
<1>2. pc \in Reading /\ pc \in Complete
  BY <1>1, LoadCases DEF Reading, Complete, Booted
<1>3. UNCHANGED <<header, answer, password, key_data, damaged, size_ioctl,
                  options>>
  BY <1>1, LoadCases DEF LoadStops, Turn, keyVars, writeVars
<1>4. ~damaged
  BY <1>3
<1>5. CASE ~KeyRight
  <2>1. pc = "load" /\ pc' \in {"question", "crashed"}
    BY <1>1, <1>4, <1>5, TurnCases
  <2>2. FellBack \/ ("USE_RSA" \notin header.flags /\ answer # password)
    BY <1>4, <1>5, <2>1 DEF IInv, ReadInv
  <2>3. "ENCRYPTED" \in header.flags
    BY <1>5 DEF KeyRight
  <2>4. pc' # "verify_failed"
    BY <2>1
  <2>5. CASE FellBack
    BY <1>3, <2>4, <2>5 DEF FailsOnlyForCause, FellBack
  <2>6. CASE "USE_RSA" \notin header.flags /\ answer # password
    <3>1. header.flags \cap {"ENCRYPTED", "USE_RSA"} = {"ENCRYPTED"}
      BY <2>3, <2>6
    <3> QED
      BY <1>3, <2>4, <2>6, <3>1 DEF FailsOnlyForCause
  <2> QED
    BY <2>2, <2>5, <2>6
<1>6. CASE KeyRight
  <2>1. PICK b \in Data, k \in Nat : GoodTurn(b, k)
    BY <1>1, <1>4, <1>6, TurnCases
  <2>2. /\ loaded \in Nat /\ size \in Nat /\ size > 0 /\ header.pages \in Nat
        /\ header.pages <= size /\ header.pages >= size - 1
        /\ loaded < header.pages \/ (loaded = 0 /\ header.pages = 0)
    BY <1>2, ReadFacts
  <2>3. b \in Seq(Nat) /\ Len(b) \in Nat /\ Len(b) > 0
    BY DEF Data
  <2>4. /\ Turn(b, k) /\ loaded + Len(b) <= size
        /\ \A j \in 1..Len(b) : b[j] = loaded + j
        /\ Len(b) = BufPages \/ loaded + Len(b) = size
    BY <2>1 DEF GoodTurn
  <2>5. GoodRead
    BY <1>2, <1>4, <1>6 DEF IInv, ReadInv
  <2>6. ~Refused(b)
    <3>1. pc = "load" /\ kernel = <<>> => loaded = 0
      BY <1>2 DEF IInv, ReadInv
    <3>2. loaded = 0 => b[1] = 1
      BY <2>3, <2>4
    <3> QED
      BY <3>1, <3>2 DEF Refused
  <2>7. Mismatch(b)
    BY <1>2, <2>4, <2>6 DEF Turn, GoesOn, Done, Reading
  <2>8. verify_checksum /\ sum' # header.sum /\ Len(b) >= Todo
        /\ error' = "checksum" /\ sum' = sum \o b
    BY <2>4, <2>7 DEF Mismatch, Turn
  <2>9. loaded + Len(b) # size
    <3> SUFFICES ASSUME loaded + Len(b) = size PROVE FALSE
      OBVIOUS
    <3>1. /\ header.sum \in Seq(Nat) /\ Len(header.sum) = size
          /\ \A j \in 1..size : header.sum[j] = j
      BY <1>2, <2>8, WholeSum
    <3>2. /\ sum \in Seq(Nat) /\ Len(sum) = loaded
          /\ \A j \in 1..loaded : sum[j] = j
      BY <1>2, <2>5, <2>8 DEF IInv, TypeInv, ReadInv, GoodRead
    <3>3. \A j \in 1..(loaded + Len(b)) : (sum \o b)[j] = j
      BY <2>2, <2>3, <2>4, <3>2, OrderGrows
    <3>4. sum \o b \in Seq(Nat) /\ Len(sum \o b) = size
      BY <2>3, <3>2, ConcatProperties
    <3>5. ASSUME NEW j \in 1..size PROVE (sum \o b)[j] = header.sum[j]
      <4>1. (sum \o b)[j] = j
        BY <3>3
      <4>2. header.sum[j] = j
        BY <3>1
      <4> QED
        BY <4>1, <4>2
    <3>6. sum \o b = header.sum
      BY <3>1, <3>4, <3>5, SeqEqual
    <3> QED
      BY <2>8, <3>6
  <2>10. /\ Len(b) = BufPages /\ header.pages = size - 1
         /\ header.pages = loaded + BufPages
    <3>1. Len(b) = BufPages /\ loaded + Len(b) < size
      BY <2>2, <2>3, <2>4, <2>9, SMTT(30)
    <3>2. Len(b) >= Todo
      BY <2>8
    <3> QED
      BY <2>2, <2>3, <3>1, <3>2 DEF Todo
  <2>11. ~SizeKnown
    BY <1>2, <2>2, <2>10 DEF IInv, SaveInv
  <2>12. header.pages % BufPages = 0
    BY <2>2, <2>5, <2>10, Multiple DEF GoodRead
  <2> QED
    BY <1>3, <2>8, <2>11, <2>12 DEF FailsOnlyForCause, SizeKnown
<1> QED
  BY <1>5, <1>6

-----------------------------------------------------------------------------
(* The invariant holds at the beginning. *)
LEMMA InitInv ==
  Init => IInv /\ PlatformInv /\ InputInv
<1> SUFFICES ASSUME Init PROVE IInv /\ PlatformInv /\ InputInv
  OBVIOUS
<1>1. pc = "install"
  BY DEF Init, KeysInit
<1>2. KeysTypeOK
  BY Strings, KeyTypes DEF Init, KeysInit, KeysTypeOK, Cipher
<1>3. WriteType
  <2>1. header \in Header /\ header.pages = 0
    <3>1. /\ <<>> \in Seq(Nat) /\ "zero" \in Salts /\ NoString \in String
          /\ blank \in [key : Key, ivec : Ivec]
      BY Strings, KeyTypes DEF Salts
    <3>2. header = [pages |-> 0, flags |-> {}, size |-> 0, sum |-> <<>>,
                    salt |-> "zero", rsa |-> NoString, key |-> blank]
      BY DEF Init, NoHeader
    <3>3. {} \in SUBSET Flags /\ 0 \in Nat
      OBVIOUS
    <3> QED
      BY <3>1, <3>2, <3>3 DEF Header
  <2>2. /\ buffer \in Seq(Nat) /\ ctx \in Seq(Nat) /\ swap \in Seq(Entry)
        /\ Len(buffer) < BufPages
    BY ImageAssumption DEF Init
  <2>3. shutdown_method \in {"platform", "shutdown", "reboot"}
    BY ImageAssumption DEF Init
  <2>4. size_ioctl \in BOOLEAN /\ damaged \in BOOLEAN
    BY Zenon DEF Init
  <2>5. /\ attempts \in 1..2 /\ size \in Sizes \union {0}
        /\ taken \in 0..size /\ header.pages <= size /\ options \in Configs
    BY <2>1 DEF Init
  <2> QED
    BY <2>1, <2>2, <2>3, <2>4, <2>5, Zenon DEF WriteType
<1>4. ReadType
  BY DEF Init, ReadType
<1>5. TypeInv
  BY <1>1, <1>2, <1>3, <1>4, TypeParts DEF Labels
<1>6. pc \notin Saving \union Complete /\ pc \notin Reading /\ pc \notin Booted
  BY <1>1 DEF Saving, Complete, Booted, Reading
<1>7. SaveInv
  BY <1>1, <1>6 DEF Init, SaveInv
<1>8. SwapInv
  BY <1>6 DEF SwapInv
<1>9. KeyInv
  BY <1>1, <1>6 DEF Init, KeysInit, KeyInv
<1>10. ReadInv
  BY <1>1, <1>6 DEF ReadInv
<1>11. KernelGetsImage /\ FailsOnlyForCause
  BY <1>1 DEF KernelGetsImage, FailsOnlyForCause
<1>12. PlatformInv /\ InputInv
  BY <1>1, <1>6 DEF PlatformInv, InputInv, Saving
<1> QED
  BY <1>5, <1>7, <1>8, <1>9, <1>10, <1>11, <1>12 DEF IInv

(* Every step keeps it. *)
LEMMA NextInv ==
  IInv /\ [Next]_vars => IInv'
<1> SUFFICES ASSUME IInv, [Next]_vars PROVE IInv'
  OBVIOUS
<1>1. CASE Next
  BY <1>1, TypeStep, SaveStep, SwapStep, KeyStep, ReadStep, KernelStep,
     CauseStep DEF IInv
<1>2. CASE UNCHANGED vars
  <2>1. /\ UNCHANGED <<pc, options, size_ioctl, shutdown_method, off,
                       attempts, size, taken, buffer, ctx, swap, header,
                       damaged>>
        /\ UNCHANGED <<pos, loaded, sum, kernel, error>>
        /\ UNCHANGED <<stdin, password, answer, keyfile, use_RSA, weak,
                       key_data, cipher>>
    BY <1>2 DEF vars, keyVars, writeVars, readVars
  <2>2. TypeInv'
    BY <2>1 DEF IInv, TypeInv, TypeOK, KeysTypeOK
  <2>3. SaveInv'
    BY <2>1 DEF IInv, SaveInv, Flushed, SizeKnown
  <2>4. SwapInv'
    BY <2>1 DEF IInv, SwapInv, PlainSwap, BlockSwap, LockedSwap, NextBlock,
       Block, Flushed
  <2>5. KeyInv'
    BY <2>1 DEF IInv, KeyInv, FellBack
  <2>6. ReadInv'
    BY <2>1 DEF IInv, ReadInv, GoodRead, KeyRight, verify_checksum, NextBlock,
       Flushed, FellBack
  <2>7. KernelGetsImage' /\ FailsOnlyForCause'
    BY <2>1 DEF IInv, KernelGetsImage, FailsOnlyForCause, FellBack, SizeKnown
  <2> QED
    BY <2>2, <2>3, <2>4, <2>5, <2>6, <2>7 DEF IInv
<1> QED
  BY <1>1, <1>2

(* The pages are followed in every behaviour. *)
LEMMA Invariant == Spec => []IInv
<1>1. Init => IInv
  BY InitInv
<1> QED
  BY <1>1, NextInv, PTL DEF Spec

-----------------------------------------------------------------------------
(* Reading, and what the user does, changes neither the header nor how the *)
(* machine was switched off.                                               *)
LEMMA BootedStep ==
  ASSUME IInv, LateActions, ~Shutdown
  PROVE  /\ UNCHANGED off
         /\ pc' \in Booted => pc \in Booted
         /\ pc' \in {"verify", "verify_load", "mark"} =>
              pc \in {"verify", "verify_load", "mark"}
<1>1. CASE Verify \/ Resume \/ RestoreKey \/ RebootQuestion \/ Damage
  BY <1>1 DEF Verify, Resume, RestoreKey, decrypt_key, restore_key,
     RebootQuestion, Damage, Booted, writeVars
<1>2. CASE LoadFails
  BY <1>2 DEF LoadFails, LoadStops, Refuse, Booted, writeVars
<1>3. CASE LoadPlain \/ LoadBlock
  <2>1. pc \in Reading
    BY <1>3, LoadCases
  <2>2. ASSUME NEW b \in Data, NEW k \in Nat, Turn(b, k)
        PROVE  /\ UNCHANGED off
               /\ pc' \in Booted => pc \in Booted
               /\ pc' \in {"verify", "verify_load", "mark"} =>
                    pc \in {"verify", "verify_load", "mark"}
    BY <2>1, <2>2 DEF Turn, Refused, GoesOn, Mismatch, Done, Reading, Booted,
       writeVars
  <2> QED
    BY <1>3, <2>1, <2>2, LoadCases DEF LoadStops, Refuse, Reading, Booted,
       writeVars
<1> QED
  BY <1>1, <1>2, <1>3 DEF LateActions, Load

(* Every step keeps the flag and the shutdown method together. *)
LEMMA PlatformStep ==
  ASSUME IInv, PlatformInv, Next
  PROVE  PlatformInv'
<1>1. header \in Header
      /\ shutdown_method \in {"platform", "shutdown", "reboot"}
  BY DEF IInv, TypeInv, TypeOK
<1>2. CASE EarlyActions
  <2>1. pc' \notin Saving \union Complete
    BY <1>2, EarlyStep, NotEarly
  <2> QED
    BY <2>1 DEF PlatformInv, Complete
<1>3. CASE WriteImage
  <2>1. pc' \in Saving /\ header'.flags = EarlyFlags
    BY <1>3 DEF WriteImage, Saving, NoHeader
  <2>2. pc' \notin Booted \union {"verify", "verify_load", "mark"}
    BY <2>1 DEF Saving, Booted
  <2> QED
    BY <2>1, <2>2 DEF PlatformInv, EarlyFlags, Flag
<1>4. CASE SetKeyRSA \/ SetKeyPassword
  <2>1. pc = "set_key" /\ pc' = "save"
    BY <1>4 DEF SetKeyRSA, SetKeyPassword
  <2>2. "PLATFORM_SUSPEND" \in header'.flags =>
          "PLATFORM_SUSPEND" \in header.flags
    <3>1. CASE SetKeyRSA
      BY <1>1, <3>1 DEF SetKeyRSA, Header
    <3>2. CASE SetKeyPassword
      BY <1>1, <3>2 DEF SetKeyPassword, Header
    <3> QED
      BY <1>4, <3>1, <3>2
  <2> QED
    BY <2>1, <2>2 DEF PlatformInv, Saving, Booted
<1>5. CASE SavePage
  BY <1>5 DEF SavePage, PlatformInv, Saving, Booted
<1>6. CASE SaveEnd
  <2>1. pc = "save" /\ pc' \in {"verify", "mark"}
        /\ UNCHANGED shutdown_method
    BY <1>6 DEF SaveEnd
  <2>2. "PLATFORM_SUSPEND" \notin header.flags
    BY <2>1 DEF PlatformInv, Saving
  <2>3. "PLATFORM_SUSPEND" \in header'.flags <=> shutdown_method = "platform"
    BY <1>1, <1>6, <2>2 DEF SaveEnd, Header
  <2> QED
    BY <2>1, <2>3 DEF PlatformInv, Saving, Booted
<1>7. CASE LateActions
  <2>1. /\ pc' \notin Saving /\ UNCHANGED <<header, shutdown_method>>
    BY <1>7, LateStep DEF Saving, Complete, Booted
  <2>2. CASE Shutdown
    <3>1. /\ pc = "mark" /\ pc' \in {"tested", "boot"}
          /\ pc' = "boot" => \/ off' = shutdown_method
                             \/ shutdown_method = "platform"
                                /\ off' = "power_off"
      BY <2>2 DEF Shutdown
    <3>2. "PLATFORM_SUSPEND" \in header.flags <=> shutdown_method = "platform"
      BY <3>1 DEF PlatformInv
    <3> QED
      BY <1>1, <2>1, <3>1, <3>2 DEF PlatformInv, Booted
  <2>3. CASE ~Shutdown
    <3>1. /\ UNCHANGED off
          /\ pc' \in Booted => pc \in Booted
          /\ pc' \in {"verify", "verify_load", "mark"} =>
               pc \in {"verify", "verify_load", "mark"}
      BY <1>7, <2>3, BootedStep
    <3> QED
      BY <2>1, <3>1 DEF PlatformInv
  <2> QED
    BY <2>2, <2>3
<1> QED
  BY <1>2, <1>3, <1>4, <1>5, <1>6, <1>7, Phases

(* Every step leaves no more on the standard input. *)
LEMMA InputStep ==
  ASSUME IInv, InputInv, Next
  PROVE  InputInv'
<1>1. CASE EarlyActions \/ WriteImage \/ SetKeyRSA \/ SetKeyPassword
           \/ SavePage \/ SaveEnd
  <2>1. CASE EarlyActions
    BY <2>1, EarlyStep, NotEarly DEF InputInv, Complete
  <2>2. CASE WriteImage \/ SetKeyRSA \/ SetKeyPassword \/ SavePage \/ SaveEnd
    BY <2>2 DEF WriteImage, SetKeyRSA, SetKeyPassword, SavePage, SaveEnd,
       InputInv, Booted
  <2> QED
    BY <1>1, <2>1, <2>2
<1>2. CASE Verify \/ Shutdown \/ Resume \/ RebootQuestion \/ Damage
  BY <1>2 DEF Verify, Shutdown, Resume, RebootQuestion, Damage, InputInv,
     Booted
<1>3. CASE RestoreKey
  <2>1. PICK t \in Typed :
          decrypt_key(t, header.rsa, header.key, "load")
          \/ restore_key(t, header.salt, "load")
    BY <1>3 DEF RestoreKey
  <2>2. stdin' = rest(t, PASS_SIZE)
    BY <2>1 DEF decrypt_key, restore_key, PassRoom
  <2>3. t \in String
    BY TypedString DEF IInv, TypeInv, TypeOK, KeysTypeOK
  <2>4. PASS_SIZE \in Nat \ {0}
    BY KeysAssumption
  <2>5. rest(t, PASS_SIZE) # NoInput =>
          t.to - t.from > PASS_SIZE - 2 /\ rest(t, PASS_SIZE).to = t.to
    BY <2>3, <2>4, Strings
  <2>6. t.to \in Nat /\ t.from \in Nat
    BY <2>3 DEF String
  <2>7. stdin' # NoInput => stdin'.to > PASS_SIZE - 2
    BY <2>2, <2>4, <2>5, <2>6
  <2> QED
    BY <2>7 DEF InputInv, NoInput
<1>4. CASE LoadFails \/ LoadPlain \/ LoadBlock
  <2>1. /\ stdin' = stdin
        /\ pc' \in Booted => pc \in Booted \ {"boot", "given_up"}
    <3>1. CASE LoadFails
      BY <3>1 DEF LoadFails, LoadStops, Refuse, keyVars, Booted
    <3>2. CASE LoadPlain \/ LoadBlock
      <4>1. pc \in Reading
        BY <3>2, LoadCases
      <4>2. ASSUME NEW b \in Data, NEW k \in Nat, Turn(b, k)
            PROVE  /\ stdin' = stdin
                   /\ pc' \in Booted => pc \in Booted \ {"boot", "given_up"}
        BY <4>1, <4>2 DEF Turn, Refused, GoesOn, Mismatch, Done, Reading,
           Booted
      <4> QED
        BY <3>2, <4>1, <4>2, LoadCases DEF LoadStops, Refuse, Reading, Booted,
           keyVars
    <3> QED
      BY <1>4, <3>1, <3>2
  <2> QED
    BY <2>1 DEF InputInv, NoInput
<1> QED
  BY <1>1, <1>2, <1>3, <1>4, Phases DEF LateActions, Load

-----------------------------------------------------------------------------
(* Every variable has a value of its type, in all the lives of s2disk and  *)
(* resume.                                                                 *)
THEOREM ImageTyped == Spec => []TypeOK
<1>1. IInv => TypeOK
  BY DEF IInv, TypeInv
<1> QED
  BY <1>1, Invariant, PTL

(* resume restores the image s2disk has saved: load_image() hands the      *)
(* kernel the pages write_image() took from it, for every size of image    *)
(* and buffer, every compression and every key.                            *)
THEOREM RestoresTheImage == Spec => []KernelGetsImage
<1>1. IInv => KernelGetsImage
  BY DEF IInv
<1> QED
  BY <1>1, Invariant, PTL

(* read_or_verify() fails only for a cause: the image that write_image()   *)
(* has written can be read with the right passphrase.                      *)
THEOREM RefusedForCause == Spec => []FailsOnlyForCause
<1>1. IInv => FailsOnlyForCause
  BY DEF IInv
<1> QED
  BY <1>1, Invariant, PTL

(* resume prepares the platform if and only if s2disk has used it.         *)
THEOREM PlatformRemembered == Spec => []PlatformAgrees
<1>1. Init => PlatformInv
  BY InitInv
<1>2. IInv /\ PlatformInv /\ [Next]_vars => PlatformInv'
  <2> SUFFICES ASSUME IInv, PlatformInv, [Next]_vars PROVE PlatformInv'
    OBVIOUS
  <2>1. CASE Next
    BY <2>1, PlatformStep
  <2>2. CASE UNCHANGED vars
    BY <2>2 DEF vars, writeVars, PlatformInv
  <2> QED
    BY <2>1, <2>2
<1>3. PlatformInv => PlatformAgrees
  BY DEF PlatformInv, PlatformAgrees, Booted
<1> QED
  BY <1>1, <1>2, <1>3, Invariant, PTL DEF Spec

(* reboot_question() reads nothing read_password() has left, unless the    *)
(* passphrase was longer than PASS_SIZE - 2 characters.                    *)
THEOREM UserAnswers == Spec => []QuestionIsAnswered
<1>1. Init => InputInv
  BY InitInv
<1>2. IInv /\ InputInv /\ [Next]_vars => InputInv'
  <2> SUFFICES ASSUME IInv, InputInv, [Next]_vars PROVE InputInv'
    OBVIOUS
  <2>1. CASE Next
    BY <2>1, InputStep
  <2>2. CASE UNCHANGED vars
    BY <2>2 DEF vars, keyVars, InputInv
  <2> QED
    BY <2>1, <2>2
<1>3. InputInv => QuestionIsAnswered
  BY DEF InputInv, QuestionIsAnswered, Booted
<1> QED
  BY <1>1, <1>2, <1>3, Invariant, PTL DEF Spec
=============================================================================
