----------------------------- MODULE MCTaskQueue -----------------------------
(***************************************************************************)
(* The task queues checked by TLC: the event queue, the compute queue and  *)
(* one queue of a client.                                                  *)
(***************************************************************************)
EXTENDS TaskQueue, TLC

Symmetry ==
    Permutations(Task) \cup Permutations(EndTask) \cup Permutations(Thread)
=============================================================================
