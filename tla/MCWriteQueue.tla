---------------------------- MODULE MCWriteQueue ----------------------------
(* Processes for TLC: the first has two threads.                           *)
EXTENDS WriteQueue, TLC

CONSTANTS t1, t2, t3, q1, q2, q3, t4

MCThreads == {t1, t2, t3}
MCQueues == {q1, q2}
MCQueueOf == t1 :> q1 @@ t2 :> q1 @@ t3 :> q2

(* Another process, with one thread, on the same path.                     *)
MCThreads4 == MCThreads \cup {t4}
MCQueues3 == MCQueues \cup {q3}
MCQueueOf4 == MCQueueOf @@ t4 :> q3

(* The processes run where fcntl can be imported.                          *)
PosixSpec == (Init /\ posix = TRUE) /\ [][Next]_vars
=============================================================================
