----------------------------- MODULE MemClients -----------------------------
(***************************************************************************)
(* The programs that use the pool of MemAlloc: s2disk with one or two      *)
(* attempts at write_image(), resume with read_image(), both with the      *)
(* sizes of the code, and for comparison a caller that asks for and gives  *)
(* back what it likes.  main() computes the size of the pool from the      *)
(* configuration, far from the calls that use it up, and none of these     *)
(* calls looks whether it got NULL.                                        *)
(***************************************************************************)
EXTENDS MemAlloc, Sequences

CONSTANTS
  AnyPool,    \* size of the pool of the arbitrary caller
  AnySlots    \* number of its slots

(* Pages as there are, and all the powers of two a block may need. *)
ASSUME ClientAssumption ==
  /\ PageSize >= 4096
  /\ \A a \in Alignments : PageSize % a = 0
  /\ \A size \in 1..PageSize :
       \E a \in Alignments :
         /\ size <= a
         /\ \A b \in Alignments : size <= b => a <= b
  /\ AnyPool \in Nat /\ AnySlots \in Nat

VARIABLES
  client,     \* who uses the pool
  script,     \* the calls it has still to make
  blocks      \* what its pointers point to

clientVars == <<client, script, blocks>>
vars == <<memVars, clientVars>>

BUFFER_PAGES == 32
ENCRYPT_BUF_PAGES == 256
WRITE_BUFFERS == 4
LZO1X_1_MEM_COMPRESS == 131072
sizeof_mem_slot == 16
buffer_size == BUFFER_PAGES * PageSize
encrypt_buf_size == ENCRYPT_BUF_PAGES * PageSize

(* The worst case of LZO and room for the size of the compressed data. *)
compress_buf_size ==
  buffer_size + RoundUp(buffer_size \div 16 + 67 + 8, PageSize)

Options == {"compress", "encrypt", "threads"}

-----------------------------------------------------------------------------
\* Mutant: the threads are counted on a single compressed buffer.
mem_size_OneBuffer(o) ==
  2 * PageSize + buffer_size
  + (IF "compress" \in o
     THEN compress_buf_size + RoundUp(LZO1X_1_MEM_COMPRESS, PageSize) ELSE 0)
  + (IF "encrypt" \in o THEN encrypt_buf_size ELSE 0)

(* The size of the pool of s2disk with options o ... *)
mem_size(o) ==
  LET has(opt) == opt \in o IN
  2 * PageSize + buffer_size
  + (IF has("compress")
     THEN compress_buf_size + RoundUp(LZO1X_1_MEM_COMPRESS, PageSize) ELSE 0)
  + (IF has("encrypt") THEN encrypt_buf_size ELSE 0)
  + (IF ~has("threads") THEN 0
     ELSE (IF has("compress") THEN (WRITE_BUFFERS - 1) * compress_buf_size
           ELSE WRITE_BUFFERS * buffer_size)
          + (IF has("encrypt") THEN 0 ELSE WRITE_BUFFERS * buffer_size))

(* ... and of resume, which does not know yet what the image needs. *)
resume_mem_size ==
  2 * PageSize + buffer_size + PageSize
  + compress_buf_size + RoundUp(LZO1X_1_MEM_COMPRESS, PageSize)

-----------------------------------------------------------------------------
get(obj, size) == [op |-> "get", obj |-> obj, size |-> size]
free(obj) == [op |-> "free", obj |-> obj, size |-> 0]
If(cond, calls) == IF cond THEN calls ELSE <<>>

init_swap_writer(o) ==
  <<get("extents", PageSize), get("buffer", buffer_size)>>
  \o If("encrypt" \in o, <<get("encrypt_buffer", encrypt_buf_size)>>)
  \o If("compress" \in o, <<get("lzo_work_buffer", LZO1X_1_MEM_COMPRESS)>>)
  \o CASE "compress" \in o ->
            <<get("write_buffer",
                  (IF "threads" \in o THEN WRITE_BUFFERS ELSE 1)
                    * compress_buf_size)>>
       [] "compress" \notin o /\ "threads" \in o ->
            <<get("write_buffer", buffer_size * WRITE_BUFFERS)>>
       [] OTHER -> <<>>

(* write_buffer is freed unless it is the same as buffer. *)
free_swap_writer(o) ==
  If(o \intersect {"compress", "threads"} # {}, <<free("write_buffer")>>)
  \o If("compress" \in o, <<free("lzo_work_buffer")>>)
  \o If("encrypt" \in o, <<free("encrypt_buffer")>>)
  \o <<free("buffer"), free("extents")>>

init_swap_reader(o) ==
  <<get("extents", PageSize), get("buffer", buffer_size)>>
  \o If("encrypt" \in o, <<get("decrypt_buffer", PageSize)>>)
  \o If("compress" \in o, <<get("read_buffer", compress_buf_size),
                            get("lzo_work_buffer", LZO1X_1_MEM_COMPRESS)>>)

free_swap_reader(o) ==
  If("compress" \in o, <<free("lzo_work_buffer"), free("read_buffer")>>)
  \o If("encrypt" \in o, <<free("decrypt_buffer")>>)
  \o <<free("buffer"), free("extents")>>

decrypt_key ==
  <<get("key_buf", 16), get("ivec_buf", 16), get("out", 8),
    free("out"), free("ivec_buf"), free("key_buf")>>

(* write_image(): the image is verified, in verify and in test mode, with  *)
(* the memory of the writer, which has been given back.  Every error path  *)
(* gives back what was got before it.                                      *)
write_image(o, verify) ==
  <<get("header", PageSize)>>
  \o init_swap_writer(o) \o free_swap_writer(o)
  \o If(verify, init_swap_reader(o) \o free_swap_reader(o))
  \o <<free("header")>>

(* read_image() of resume, for an image with options o. *)
read_image(o, rsa) ==
  <<get("header", PageSize)>>
  \o If(rsa, decrypt_key)
  \o init_swap_reader(o) \o free_swap_reader(o)
  \o <<free("header")>>

(* A second attempt may be without threads, if they could not be started   *)
(* the first time.                                                         *)
s2disk_calls(o) ==
  UNION {{write_image(o, verify),
          write_image(o, FALSE) \o write_image(o, verify),
          write_image(o, FALSE) \o write_image(o \ {"threads"}, verify)} :
         verify \in BOOLEAN}

resume_calls ==
  {read_image(o, rsa) : o \in SUBSET (Options \ {"threads"}), rsa \in BOOLEAN}

-----------------------------------------------------------------------------
Init ==
  /\ \/ /\ client = "any"
        /\ script = <<>>
        /\ pool_size = AnyPool /\ nr_slots = AnySlots
     \/ /\ client = "s2disk"
        /\ \E o \in SUBSET Options :
             /\ script \in s2disk_calls(o)
             /\ pool_size = RoundUp(mem_size(o), PageSize)
        /\ nr_slots = PageSize \div sizeof_mem_slot
     \/ /\ client = "resume"
        /\ script \in resume_calls
        /\ pool_size = RoundUp(resume_mem_size, PageSize)
        /\ nr_slots = PageSize \div sizeof_mem_slot
  /\ blocks = <<>>
  /\ MemInit

NextCall(op) == pc = "idle" /\ script # <<>> /\ Head(script).op = op

Get ==
  /\ NextCall("get")
  /\ getmem(Head(script).size)
  /\ LET obj == Head(script).obj IN
     blocks' = [x \in DOMAIN blocks \union {obj} |->
                  IF x = obj THEN Offset(Head(script).size) ELSE blocks[x]]
  /\ script' = Tail(script)
  /\ UNCHANGED client

Free ==
  /\ NextCall("free")
  /\ freemem(blocks[Head(script).obj])
  /\ script' = Tail(script)
  /\ UNCHANGED <<client, blocks>>

AnyCall ==
  /\ client = "any"
  /\ \/ \E size \in Sizes : getmem(size) \/ getmem_NULL(size)
     \/ \E a \in Addrs : freemem(a)
  /\ UNCHANGED clientVars

Loop == freemem_loop /\ UNCHANGED clientVars

Finished ==
  /\ client # "any" /\ script = <<>> /\ pc = "idle"
  /\ UNCHANGED vars

Next == Get \/ Free \/ AnyCall \/ Loop \/ Finished

(* A call, once made, goes on. *)
Spec == Init /\ [][Next]_vars /\ WF_vars(Loop)

-----------------------------------------------------------------------------
(* None of the callers in the repository is ever refused memory, in any    *)
(* configuration and any attempt: the pool main() asked for is as large as *)
(* the calls made from it, alignment included, and nothing has leaked.     *)
PoolSuffices == NextCall("get") => Fits(Head(script).size)

(* freemem() returns, with user space frozen around it: the search for the *)
(* slot and the removal of the free ones behind it come to an end.         *)
FreememReturns == pc # "idle" ~> pc = "idle"
=============================================================================
