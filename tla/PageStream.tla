------------------------------ MODULE PageStream ------------------------------
(***************************************************************************)
(* What save_image() promises to write_image(), whatever goes on inside:   *)
(* the pages it accepted from the kernel reach the swap in the order in    *)
(* which they were accepted, each one exactly once, and the call returns   *)
(* success only when all of them have.  The abstract specification that    *)
(* SaveThreads implements.                                                 *)
(***************************************************************************)
EXTENDS Naturals, Sequences

VARIABLES
    accepted,   \* pages taken over from the image so far
    out,        \* the pages on the swap, in the order of their writing
    result      \* "busy" while save_image() runs, then "ok" or "failed"

psvars == <<accepted, out, result>>

PSInit ==
    /\ accepted = 0
    /\ out = <<>>
    /\ result = "busy"

\* A buffer of some pages is taken over.
Accept ==
    /\ result = "busy"
    /\ accepted' \in Nat /\ accepted' > accepted
    /\ UNCHANGED <<out, result>>

\* The next page of the image, and no other, is written.
Emit ==
    /\ result = "busy"
    /\ Len(out) < accepted
    /\ out' = Append(out, Len(out) + 1)
    /\ UNCHANGED <<accepted, result>>

Succeed ==
    /\ result = "busy"
    /\ Len(out) = accepted
    /\ result' = "ok"
    /\ UNCHANGED <<accepted, out>>

Fail ==
    /\ result = "busy"
    /\ result' = "failed"
    /\ UNCHANGED <<accepted, out>>

\* After a failure the caller may start over with a new image.
Restart ==
    /\ result = "failed"
    /\ accepted' = 0
    /\ out' = <<>>
    /\ result' = "busy"

PSNext == Accept \/ Emit \/ Succeed \/ Fail \/ Restart

PSSpec == PSInit /\ [][PSNext]_psvars
===============================================================================
