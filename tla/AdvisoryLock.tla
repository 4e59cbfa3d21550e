---------------------------- MODULE AdvisoryLock ----------------------------
(***************************************************************************)
(* What callers of WriteQueue may rely on (opencontext_memory,             *)
(* store/write_queue.py), without files and system calls: a lock between   *)
(* processes, which a thread may also pass without holding it where the    *)
(* platform lets it give up, and which protects nothing any more once it   *)
(* is broken.  Inside one process at most one thread is in.                *)
(***************************************************************************)
CONSTANTS
    Thread,
    processOf   \* the process of each thread

VARIABLES
    mayBarge,   \* the platform: whether threads that gave up go on without
                \* the lock, or else the lock can be broken
    holders,    \* threads inside that hold the lock
    barging,    \* threads inside without the lock
    broken

vars == <<mayBarge, holders, barging, broken>>

Init == mayBarge \in BOOLEAN /\ holders = {} /\ barging = {} /\ broken = FALSE

Alone(t) == \A u \in holders \cup barging : processOf[u] # processOf[t]

Acquire(t) ==
    /\ Alone(t)
    /\ holders = {} \/ broken
    /\ holders' = holders \cup {t}
    /\ UNCHANGED <<mayBarge, barging, broken>>

Barge(t) ==
    /\ mayBarge
    /\ Alone(t)
    /\ barging' = barging \cup {t}
    /\ UNCHANGED <<mayBarge, holders, broken>>

(* A thread leaves, or a process with all its threads.                     *)
Leave(left) ==
    /\ holders' = holders \ left
    /\ barging' = barging \ left
    /\ UNCHANGED <<mayBarge, broken>>

Break ==
    /\ ~mayBarge
    /\ broken' = TRUE
    /\ UNCHANGED <<mayBarge, holders, barging>>

Next ==
    \/ \E t \in Thread : Acquire(t) \/ Barge(t)
    \/ \E left \in SUBSET Thread : Leave(left)
    \/ Break

Spec == Init /\ [][Next]_vars
=============================================================================
