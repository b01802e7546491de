----------------------------- MODULE MCJobQueue -----------------------------
(* Small instances of JobQueue for TLC. *)
EXTENDS JobQueue, TLC

CONSTANTS j1, j2, k1, w1, w2, p1, p2

\* One worker in each of two processes.
TwoProcs == w1 :> p1 @@ w2 :> p2

\* Rows are interchangeable, and a key that one row has is as good as none: so the
\* rows may be taken to be inserted in this order, and the first to have the key
\* and a handler.  It cuts only what Enqueue does, which nothing makes fair.
Ordered ==
  /\ status[j2] # "none" => status[j1] # "none"
  /\ status[j1] # "none" => key[j1] = k1 /\ kind[j1] = "sync"
=============================================================================
