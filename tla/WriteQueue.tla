----------------------------- MODULE WriteQueue -----------------------------
(***************************************************************************)
(* WriteQueue, the advisory lock around writes to the memory store         *)
(* (opencontext_memory/store/write_queue.py).  Every process has one       *)
(* WriteQueue on a common lock path; its threads share it.  A thread first *)
(* takes the queue's threading.Lock, then the lock file: with flock on     *)
(* POSIX, by exclusive creation on Windows.                                *)
(*                                                                         *)
(* A file is an inode: it lives on, locked or not, for those who opened it *)
(* after the path has lost it.  Time is left out: the deadline of the      *)
(* Windows loop may have passed whenever the loop looks at it.             *)
(***************************************************************************)
EXTENDS Naturals

CONSTANTS
    Thread, Queue,
    queueOf,    \* the queue of each thread's process
    Inode,      \* identities of lock files; one not in use may come back
    Faults,     \* which of "crash" and "raise" may happen
    Writes,     \* how many times each thread enters the queue
    None

ASSUME QueueAssumption ==
    /\ queueOf \in [Thread -> Queue]
    /\ Faults \subseteq {"crash", "raise"}
    /\ Writes \in Nat
    /\ None \notin Thread \cup Inode

VARIABLES
    posix,      \* whether fcntl can be imported
    pc,         \* where each thread is in "with queue: ..."
    left,       \* how many times it still enters
    inproc,     \* _inproc of each queue: the thread that acquired it
    opened,     \* the local fh of a thread that waits in flock
    handle,     \* _cross_fd of each queue: the file it holds locked (POSIX)
                \* or has created and keeps open (Windows)
    path,       \* the file at _lock_path
    failed,     \* history: the queues an __enter__ has raised in
    pulled      \* history: a file was unlinked while a process used it

vars == <<posix, pc, left, inproc, opened, handle, path, failed, pulled>>

Location == {"idle", "entering", "waiting", "critical", "unlocked"}

Types ==
    /\ posix \in BOOLEAN
    /\ pc \in [Thread -> Location]
    /\ left \in [Thread -> Nat]
    /\ inproc \in [Queue -> Thread \cup {None}]
    /\ opened \in [Thread -> Inode \cup {None}]
    /\ handle \in [Queue -> Inode \cup {None}]
    /\ path \in Inode \cup {None}
    /\ failed \in SUBSET Queue
    /\ pulled \in BOOLEAN

InCritical(q) == \E t \in Thread : queueOf[t] = q /\ pc[t] = "critical"

(* The type invariant: variables of write_queue.py hold values of their    *)
(* types, and _cross_fd is None outside the critical sections of its       *)
(* queue.                                                                  *)
TypeOK == Types /\ \A q \in Queue : handle[q] # None => InCritical(q)

Init ==
    /\ posix \in BOOLEAN
    /\ pc = [t \in Thread |-> "idle"]
    /\ left = [t \in Thread |-> Writes]
    /\ inproc = [q \in Queue |-> None]
    /\ opened = [t \in Thread |-> None]
    /\ handle = [q \in Queue |-> None]
    /\ path = None
    /\ failed = {}
    /\ pulled = FALSE

-----------------------------------------------------------------------------
InUse(i) == \/ i = path
            \/ \E t \in Thread : opened[t] = i
            \/ \E q \in Queue : handle[q] = i

Held(i) == \E q \in Queue : handle[q] = i

(* Mutant: the in-process lock is not waited for.                          *)
EnterUnguarded(t) ==
    /\ pc[t] = "idle" /\ left[t] > 0
    /\ inproc' = [inproc EXCEPT ![queueOf[t]] = t]
    /\ pc' = [pc EXCEPT ![t] = "entering"]
    /\ left' = [left EXCEPT ![t] = @ - 1]
    /\ UNCHANGED <<posix, opened, handle, path, failed, pulled>>

Enter(t) ==
    /\ pc[t] = "idle" /\ left[t] > 0
    /\ inproc[queueOf[t]] = None
    /\ inproc' = [inproc EXCEPT ![queueOf[t]] = t]
    /\ pc' = [pc EXCEPT ![t] = "entering"]
    /\ left' = [left EXCEPT ![t] = @ - 1]
    /\ UNCHANGED <<posix, opened, handle, path, failed, pulled>>

(* mkdir, open or flock raises: the handlers close the file, and nothing   *)
(* releases _inproc, since __exit__ is not called after a failed           *)
(* __enter__.                                                              *)
EnterRaises(t) ==
    /\ "raise" \in Faults
    /\ pc[t] \in {"entering", "waiting"}
    /\ pc' = [pc EXCEPT ![t] = "idle"]
    /\ opened' = [opened EXCEPT ![t] = None]
    /\ failed' = failed \cup {queueOf[t]}
    /\ UNCHANGED <<posix, left, inproc, handle, path, pulled>>

(* POSIX: open(path, "w") opens the file at the path or creates one.       *)
OpenFile(t) ==
    /\ posix /\ pc[t] = "entering"
    /\ IF path # None
       THEN opened' = [opened EXCEPT ![t] = path] /\ UNCHANGED path
       ELSE \E i \in Inode : /\ ~InUse(i)
                             /\ opened' = [opened EXCEPT ![t] = i]
                             /\ path' = i
    /\ pc' = [pc EXCEPT ![t] = "waiting"]
    /\ UNCHANGED <<posix, left, inproc, handle, failed, pulled>>

(* Mutant: LOCK_SH instead of LOCK_EX.                                     *)
FlockShared(t) ==
    /\ pc[t] = "waiting"
    /\ handle' = [handle EXCEPT ![queueOf[t]] = opened[t]]
    /\ opened' = [opened EXCEPT ![t] = None]
    /\ pc' = [pc EXCEPT ![t] = "critical"]
    /\ UNCHANGED <<posix, left, inproc, path, failed, pulled>>

(* POSIX: flock blocks, for as long as it takes, until nobody else has     *)
(* locked the file this thread opened.  It may no longer be at the path.   *)
Flock(t) ==
    /\ pc[t] = "waiting"
    /\ ~Held(opened[t])
    /\ handle' = [handle EXCEPT ![queueOf[t]] = opened[t]]
    /\ opened' = [opened EXCEPT ![t] = None]
    /\ pc' = [pc EXCEPT ![t] = "critical"]
    /\ UNCHANGED <<posix, left, inproc, path, failed, pulled>>

(* Windows: O_CREAT | O_EXCL succeeds.                                     *)
CreateExcl(t) ==
    /\ ~posix /\ pc[t] = "entering"
    /\ path = None
    /\ \E i \in Inode : /\ ~InUse(i)
                        /\ path' = i
                        /\ handle' = [handle EXCEPT ![queueOf[t]] = i]
    /\ pc' = [pc EXCEPT ![t] = "critical"]
    /\ UNCHANGED <<posix, left, inproc, opened, failed, pulled>>

(* Windows: the file exists and the deadline has passed: the loop ends and *)
(* the thread goes on without a lock.                                      *)
GiveUp(t) ==
    /\ ~posix /\ pc[t] = "entering"
    /\ path # None
    /\ pc' = [pc EXCEPT ![t] = "critical"]
    /\ UNCHANGED <<posix, left, inproc, opened, handle, path, failed, pulled>>

(* Mutant: the file is neither closed nor forgotten.                       *)
UnlockKeeping(t) ==
    /\ pc[t] = "critical"
    /\ pc' = [pc EXCEPT ![t] = "unlocked"]
    /\ UNCHANGED <<posix, left, inproc, opened, handle, path, failed, pulled>>

(* __exit__, first part: unlock and close the file of the queue, if any.   *)
Unlock(t) ==
    /\ pc[t] = "critical"
    /\ handle' = [handle EXCEPT ![queueOf[t]] = None]
    /\ pc' = [pc EXCEPT ![t] = "unlocked"]
    /\ UNCHANGED <<posix, left, inproc, opened, path, failed, pulled>>

(* Mutant: a failing unlink is not suppressed and skips the release.       *)
UnlinkMayThrow(t) ==
    /\ pc[t] = "unlocked"
    /\ LET removed == path # None /\ (posix \/ ~Held(path))
       IN  /\ path' = IF removed THEN None ELSE path
           /\ pulled' = (pulled \/ (removed /\ \E u \in Thread : opened[u] = path)
                                \/ (removed /\ Held(path)))
           /\ inproc' = IF removed THEN [inproc EXCEPT ![queueOf[t]] = None]
                        ELSE inproc
    /\ pc' = [pc EXCEPT ![t] = "idle"]
    /\ UNCHANGED <<posix, left, opened, handle, failed>>

(* __exit__, second part: unlink whatever is at the path now, then release *)
(* _inproc.  Windows refuses to remove a file that somebody has open; the  *)
(* error is suppressed.                                                    *)
Unlink(t) ==
    /\ pc[t] = "unlocked"
    /\ LET removed == path # None /\ (posix \/ ~Held(path))
       IN  /\ path' = IF removed THEN None ELSE path
           /\ pulled' = (pulled \/ (removed /\ \E u \in Thread : opened[u] = path)
                                \/ (removed /\ Held(path)))
    /\ inproc' = [inproc EXCEPT ![queueOf[t]] = None]
    /\ pc' = [pc EXCEPT ![t] = "idle"]
    /\ UNCHANGED <<posix, left, opened, handle, failed>>

(* A process dies, or is stopped because it hangs, and is started again:    *)
(* its locks are gone, the lock file stays.                                *)
Crash(q) ==
    /\ "crash" \in Faults
    /\ q \in failed \/ \E t \in Thread : queueOf[t] = q /\ pc[t] # "idle"
    /\ pc' = [t \in Thread |-> IF queueOf[t] = q THEN "idle" ELSE pc[t]]
    /\ opened' = [t \in Thread |-> IF queueOf[t] = q THEN None ELSE opened[t]]
    /\ handle' = [handle EXCEPT ![q] = None]
    /\ inproc' = [inproc EXCEPT ![q] = None]
    /\ failed' = failed \ {q}
    /\ UNCHANGED <<posix, left, path, pulled>>

(* A thread has written what it wanted to write, or its process is blocked *)
(* by an __enter__ that raised.                                            *)
AtRest(t) == pc[t] = "idle" /\ (left[t] = 0 \/ queueOf[t] \in failed)

Finished == (\A t \in Thread : AtRest(t)) /\ UNCHANGED vars

Acquire(t) == Enter(t) \/ OpenFile(t) \/ Flock(t) \/ CreateExcl(t) \/ GiveUp(t)
Leave(t) == Unlock(t) \/ Unlink(t)

Next ==
    \/ \E t \in Thread : Acquire(t) \/ EnterRaises(t) \/ Leave(t)
    \/ \E q \in Queue : Crash(q)
    \/ Finished

Spec == Init /\ [][Next]_vars

(* A thread that can go on is scheduled in the end, also out of its        *)
(* critical section.                                                       *)
FairSpec == Spec /\ \A t \in Thread : WF_vars(Acquire(t)) /\ WF_vars(Leave(t))

-----------------------------------------------------------------------------
Critical == {t \in Thread : pc[t] = "critical"}

(* The lock that the queue implements: the threads that hold it are those  *)
(* whose queue has a handle, and it is broken by unlinking a file in use.  *)
Lock == INSTANCE AdvisoryLock WITH
    processOf <- queueOf,
    mayBarge <- ~posix,
    holders <- {t \in Critical : handle[queueOf[t]] # None},
    barging <- {t \in Critical : handle[queueOf[t]] = None},
    broken <- pulled

(* The queue implements the advisory lock: on POSIX a lock that the unlink *)
(* in __exit__ can break, on Windows one that never breaks but that late   *)
(* threads pass.                                                           *)
ImplementsLock == Lock!Spec

(* _cross_fd belongs to the queue, not to the thread: whoever is in the    *)
(* critical section is alone in its queue, and on POSIX the handle that    *)
(* __exit__ will unlock is the one it locked.                              *)
HandleIsMine ==
    \A t \in Thread :
        pc[t] = "critical" =>
            /\ \A u \in Thread \ {t} :
                   queueOf[u] = queueOf[t] => pc[u] = "idle"
            /\ posix => handle[queueOf[t]] # None

(* A queue is never left locked by nobody, except after an __enter__ that  *)
(* raised: then, as the code stands, every later write of the process      *)
(* waits for ever.                                                         *)
LockHasOwner ==
    \A q \in Queue :
        (inproc[q] # None /\ q \notin failed) => pc[inproc[q]] # "idle"

(* If writes end, every thread gets its turn, unless an __enter__ of its   *)
(* process raised: neither the two locks nor other processes, even dying   *)
(* or failing ones, block it for ever.  On Windows a file left by a dead   *)
(* process costs the wait that timeout_seconds allows.                     *)
WritersFinish == <>(\A t \in Thread : AtRest(t))

(* "the cross-process lock guarantees no overlap between critical          *)
(* sections" (tests/test_write_queue.py).                                  *)
MutualExclusion ==
    \A t, u \in Thread : (pc[t] = "critical" /\ pc[u] = "critical") => t = u
=============================================================================
