-------------------------- MODULE WriteQueueProofs --------------------------
(***************************************************************************)
(* What the write queue guarantees for any number of processes, threads    *)
(* and writes, on POSIX and on Windows, with or without faults.            *)
(***************************************************************************)
EXTENDS WriteQueue, TLAPS

(* A thread inside "with" owns its queue; an owner belongs to the queue.   *)
OwnerInv ==
    /\ \A t \in Thread : pc[t] # "idle" => inproc[queueOf[t]] = t
    /\ \A q \in Queue : inproc[q] # None => queueOf[inproc[q]] = q

(* Who has which file open: a waiting thread, on POSIX only, the one it    *)
(* waits for; a queue, the one its owner locked or created.                *)
FileInv ==
    /\ \A t \in Thread :
           /\ opened[t] # None => posix /\ pc[t] = "waiting"
           /\ pc[t] = "waiting" => opened[t] # None
           /\ (posix /\ pc[t] = "critical") => handle[queueOf[t]] # None
    /\ \A q \in Queue :
           handle[q] # None => inproc[q] # None /\ pc[inproc[q]] = "critical"
    /\ \A q, r \in Queue : (q # r /\ handle[q] # None) => handle[q] # handle[r]

(* As long as no file in use was unlinked, everybody uses the file at the  *)
(* path; on Windows it never is.                                           *)
PathInv ==
    /\ ~pulled => /\ \A t \in Thread : opened[t] \in {None, path}
                  /\ \A q \in Queue : handle[q] \in {None, path}
    /\ ~posix => ~pulled

Inv == Types /\ OwnerInv /\ FileInv /\ PathInv /\ LockHasOwner

-----------------------------------------------------------------------------
(* Every step keeps the types; no other part is needed for that.           *)
LEMMA TypeStep == ASSUME Types, [Next]_vars PROVE Types'
<1> USE QueueAssumption
<1>1. ASSUME NEW t \in Thread, Acquire(t)
      PROVE  Types'
  <2>1. CASE Enter(t)
    BY <2>1 DEF Types, Enter, Location
  <2>2. CASE OpenFile(t)
    BY <2>2 DEF Types, OpenFile, Location
  <2>3. CASE Flock(t)
    BY <2>3 DEF Types, Flock, Location
  <2>4. CASE CreateExcl(t)
    BY <2>4 DEF Types, CreateExcl, Location
  <2>5. CASE GiveUp(t)
    BY <2>5 DEF Types, GiveUp, Location
  <2> QED
    BY <1>1, <2>1, <2>2, <2>3, <2>4, <2>5 DEF Acquire
<1>2. ASSUME NEW t \in Thread, EnterRaises(t)
      PROVE  Types'
  BY <1>2 DEF Types, EnterRaises, Location
<1>3. ASSUME NEW t \in Thread, Leave(t)
      PROVE  Types'
  <2>1. CASE Unlock(t)
    BY <2>1 DEF Types, Unlock, Location
  <2>2. CASE Unlink(t)
    BY <2>2 DEF Types, Unlink, Location
  <2> QED
    BY <1>3, <2>1, <2>2 DEF Leave
<1>4. ASSUME NEW q \in Queue, Crash(q)
      PROVE  Types'
  BY <1>4 DEF Types, Crash, Location
<1>5. CASE UNCHANGED vars
  BY <1>5 DEF Types, vars
<1> QED
  BY <1>1, <1>2, <1>3, <1>4, <1>5 DEF Next, Finished

(* A thread takes the in-process lock.                                     *)
LEMMA EnterStep == ASSUME Inv, NEW t \in Thread, Enter(t) PROVE Inv'
<1> USE QueueAssumption DEF Inv
<1>1. Types'
  BY TypeStep DEF Next, Acquire
<1>2. OwnerInv'
  BY DEF Enter, Types, OwnerInv
<1>3. FileInv'
  BY DEF Enter, Types, OwnerInv, FileInv
<1>4. PathInv'
  BY DEF Enter, PathInv
<1>5. LockHasOwner'
  BY DEF Enter, Types, OwnerInv, LockHasOwner
<1> QED
  BY <1>1, <1>2, <1>3, <1>4, <1>5

(* __enter__ raises: the queue counts as failed.                           *)
LEMMA RaiseStep == ASSUME Inv, NEW t \in Thread, EnterRaises(t) PROVE Inv'
<1> USE QueueAssumption DEF Inv
<1>1. Types'
  BY TypeStep DEF Next
<1>2. OwnerInv'
  BY DEF EnterRaises, Types, OwnerInv
<1>3. FileInv'
  BY DEF EnterRaises, Types, OwnerInv, FileInv
<1>4. PathInv'
  BY DEF EnterRaises, Types, PathInv
<1>5. LockHasOwner'
  BY DEF EnterRaises, Types, OwnerInv, LockHasOwner
<1> QED
  BY <1>1, <1>2, <1>3, <1>4, <1>5

(* A new file is used by nobody, so the path may move to it.               *)
LEMMA OpenStep == ASSUME Inv, NEW t \in Thread, OpenFile(t) PROVE Inv'
<1> USE QueueAssumption DEF Inv
<1>1. Types'
  BY TypeStep DEF Next, Acquire
<1>2. OwnerInv'
  BY DEF OpenFile, Types, OwnerInv
<1>3. FileInv'
  BY DEF OpenFile, Types, OwnerInv, FileInv
<1>4. PathInv'
  BY DEF OpenFile, Types, PathInv
<1>5. LockHasOwner'
  BY DEF OpenFile, Types, OwnerInv, LockHasOwner
<1> QED
  BY <1>1, <1>2, <1>3, <1>4, <1>5

(* The lock is granted on a file nobody holds.                             *)
LEMMA FlockStep == ASSUME Inv, NEW t \in Thread, Flock(t) PROVE Inv'
<1> USE QueueAssumption DEF Inv
<1>1. Types'
  BY TypeStep DEF Next, Acquire
<1>2. OwnerInv'
  BY DEF Flock, Types, OwnerInv
<1>3. FileInv'
  <2> DEFINE q == queueOf[t]
  <2>1. /\ q \in Queue /\ inproc[q] = t /\ inproc' = inproc
        /\ handle' = [handle EXCEPT ![q] = opened[t]]
        /\ pc' = [pc EXCEPT ![t] = "critical"]
        /\ opened' = [opened EXCEPT ![t] = None]
    BY DEF Flock, Types, OwnerInv
  <2>2. opened[t] # None /\ \A r \in Queue : handle[r] # opened[t]
    BY DEF Flock, Held, FileInv
  <2> HIDE DEF q
  <2>3. \A u \in Thread :
            /\ opened'[u] # None => posix /\ pc'[u] = "waiting"
            /\ pc'[u] = "waiting" => opened'[u] # None
    BY <2>1 DEF Types, FileInv
  <2>4. \A u \in Thread :
            (posix /\ pc'[u] = "critical") => handle'[queueOf[u]] # None
    BY <2>1, <2>2 DEF q, Types, FileInv
  <2>5. \A r \in Queue :
            handle'[r] # None => inproc'[r] # None /\ pc'[inproc'[r]] = "critical"
    BY <2>1 DEF Types, FileInv
  <2>6. \A r, s \in Queue : (r # s /\ handle'[r] # None) => handle'[r] # handle'[s]
    BY <2>1, <2>2 DEF Types, FileInv
  <2> QED
    BY <2>3, <2>4, <2>5, <2>6 DEF FileInv, Flock
<1>4. PathInv'
  BY DEF Flock, Types, PathInv
<1>5. LockHasOwner'
  BY DEF Flock, Types, OwnerInv, LockHasOwner
<1> QED
  BY <1>1, <1>2, <1>3, <1>4, <1>5

(* Windows: the file is new and at the path.                               *)
LEMMA CreateStep == ASSUME Inv, NEW t \in Thread, CreateExcl(t) PROVE Inv'
<1> USE QueueAssumption DEF Inv
<1>1. Types'
  BY TypeStep DEF Next, Acquire
<1>2. OwnerInv'
  BY DEF CreateExcl, Types, OwnerInv
<1>3. FileInv'
  BY DEF CreateExcl, InUse, Types, OwnerInv, FileInv
<1>4. PathInv'
  BY DEF CreateExcl, InUse, Types, PathInv
<1>5. LockHasOwner'
  BY DEF CreateExcl, Types, OwnerInv, LockHasOwner
<1> QED
  BY <1>1, <1>2, <1>3, <1>4, <1>5

(* Windows: a thread goes on without a file.                               *)
LEMMA GiveUpStep == ASSUME Inv, NEW t \in Thread, GiveUp(t) PROVE Inv'
<1> USE QueueAssumption DEF Inv
<1>1. Types'
  BY TypeStep DEF Next, Acquire
<1>2. OwnerInv'
  BY DEF GiveUp, Types, OwnerInv
<1>3. FileInv'
  BY DEF GiveUp, Types, OwnerInv, FileInv
<1>4. PathInv'
  BY DEF GiveUp, PathInv
<1>5. LockHasOwner'
  BY DEF GiveUp, Types, OwnerInv, LockHasOwner
<1> QED
  BY <1>1, <1>2, <1>3, <1>4, <1>5

(* Unlocking closes the file of the owner's own queue.                     *)
LEMMA UnlockStep == ASSUME Inv, NEW t \in Thread, Unlock(t) PROVE Inv'
<1> USE QueueAssumption DEF Inv
<1>1. Types'
  BY TypeStep DEF Next, Leave
<1>2. OwnerInv'
  BY DEF Unlock, Types, OwnerInv
<1>3. FileInv'
  BY DEF Unlock, Types, OwnerInv, FileInv
<1>4. PathInv'
  BY DEF Unlock, Types, PathInv
<1>5. LockHasOwner'
  BY DEF Unlock, Types, OwnerInv, LockHasOwner
<1> QED
  BY <1>1, <1>2, <1>3, <1>4, <1>5

(* Unlinking either finds nobody at the file or is recorded in pulled; on  *)
(* Windows it never finds a user.                                          *)
LEMMA UnlinkStep == ASSUME Inv, NEW t \in Thread, Unlink(t) PROVE Inv'
<1> USE QueueAssumption DEF Inv
<1>1. Types'
  BY TypeStep DEF Next, Leave
<1>2. OwnerInv'
  BY DEF Unlink, Types, OwnerInv
<1>3. FileInv'
  BY DEF Unlink, Types, OwnerInv, FileInv
<1>4. PathInv'
  BY DEF Unlink, Held, Types, FileInv, PathInv
<1>5. LockHasOwner'
  BY DEF Unlink, Types, OwnerInv, LockHasOwner
<1> QED
  BY <1>1, <1>2, <1>3, <1>4, <1>5

(* A dying process loses everything it holds.                              *)
LEMMA CrashStep == ASSUME Inv, NEW q \in Queue, Crash(q) PROVE Inv'
<1> USE QueueAssumption DEF Inv
<1>1. Types'
  BY TypeStep DEF Next
<1>2. OwnerInv'
  BY DEF Crash, Types, OwnerInv
<1>3. FileInv'
  BY DEF Crash, Types, OwnerInv, FileInv
<1>4. PathInv'
  BY DEF Crash, Types, PathInv
<1>5. LockHasOwner'
  BY DEF Crash, Types, OwnerInv, LockHasOwner
<1> QED
  BY <1>1, <1>2, <1>3, <1>4, <1>5

(* The invariant is inductive.                                             *)
LEMMA Inductive == Spec => []Inv
<1>1. Init => Inv
  BY QueueAssumption
  DEF Init, Inv, Types, Location, OwnerInv, FileInv, PathInv, LockHasOwner
<1>2. Inv /\ [Next]_vars => Inv'
  <2> SUFFICES ASSUME Inv, [Next]_vars PROVE Inv'
    OBVIOUS
  <2>1. ASSUME NEW t \in Thread, Acquire(t) PROVE Inv'
    BY <2>1, EnterStep, OpenStep, FlockStep, CreateStep, GiveUpStep DEF Acquire
  <2>2. ASSUME NEW t \in Thread, EnterRaises(t) PROVE Inv'
    BY <2>2, RaiseStep
  <2>3. ASSUME NEW t \in Thread, Leave(t) PROVE Inv'
    BY <2>3, UnlockStep, UnlinkStep DEF Leave
  <2>4. ASSUME NEW q \in Queue, Crash(q) PROVE Inv'
    BY <2>4, CrashStep
  <2>5. CASE UNCHANGED vars
    BY <2>5 DEF vars, Inv, Types, OwnerInv, FileInv, PathInv, LockHasOwner
  <2> QED
    BY <2>1, <2>2, <2>3, <2>4, <2>5 DEF Next, Finished
<1> QED
  BY <1>1, <1>2, PTL DEF Spec

-----------------------------------------------------------------------------
(* The variables keep the types of write_queue.py, and a queue holds a     *)
(* file only while one of its threads is in the critical section.          *)
THEOREM TypeCorrect == Spec => []TypeOK
<1>1. Inv => TypeOK
  BY DEF Inv, Types, OwnerInv, FileInv, InCritical, TypeOK
<1> QED
  BY <1>1, Inductive, PTL

(* The shared _cross_fd is safe: the thread in the critical section is the *)
(* only one of its process inside the queue, and __exit__ finds the handle *)
(* that this thread locked.                                                *)
THEOREM HandleBelongsToCaller == Spec => []HandleIsMine
<1>1. Inv => HandleIsMine
  BY QueueAssumption DEF Inv, Types, OwnerInv, FileInv, HandleIsMine
<1> QED
  BY <1>1, Inductive, PTL

(* Only an __enter__ that raises leaves the queue locked by nobody.        *)
THEOREM LocksAreReleased == Spec => []LockHasOwner
<1>1. Inv => LockHasOwner
  BY DEF Inv
<1> QED
  BY <1>1, Inductive, PTL

-----------------------------------------------------------------------------
(* The steps of the queue as steps of the lock it implements.              *)
Holders == {t \in Critical : handle[queueOf[t]] # None}
Barging == {t \in Critical : handle[queueOf[t]] = None}

(* The thread that owns a queue is the only one that can be in it, so any  *)
(* other thread inside belongs to another process.                         *)
LEMMA OwnerIsAlone ==
    ASSUME Inv, NEW t \in Thread, pc[t] \in {"entering", "waiting"}
    PROVE  /\ \A u \in Critical : queueOf[u] # queueOf[t]
           /\ handle[queueOf[t]] = None
BY QueueAssumption DEF Inv, Types, OwnerInv, FileInv, Critical

(* A thread enters with a handle: the lock is free, or broken.             *)
LEMMA LockStep ==
    ASSUME Inv, NEW t \in Thread, Flock(t) \/ CreateExcl(t)
    PROVE  Lock!Acquire(t)
<1> USE QueueAssumption
<1>1. /\ pc[t] \in {"entering", "waiting"}
      /\ pc' = [pc EXCEPT ![t] = "critical"]
      /\ pulled' = pulled /\ posix' = posix
      /\ \E i \in Inode : handle' = [handle EXCEPT ![queueOf[t]] = i]
  BY DEF Flock, CreateExcl, Inv, Types, FileInv
<1>2. Holders' = Holders \cup {t}
  BY <1>1, OwnerIsAlone DEF Holders, Critical, Inv, Types
<1>3. Barging' = Barging
  BY <1>1, OwnerIsAlone DEF Barging, Critical, Inv, Types
<1>4. Holders = {} \/ pulled
  <2>1. CASE Flock(t)
    BY <2>1 DEF Flock, Held, Holders, Critical, Inv, Types, FileInv, PathInv
  <2>2. CASE CreateExcl(t)
    BY <2>2 DEF CreateExcl, Holders, Critical, Inv, Types, PathInv
  <2> QED
    BY <2>1, <2>2
<1>5. \A u \in Holders \cup Barging : queueOf[u] # queueOf[t]
  BY <1>1, OwnerIsAlone DEF Holders, Barging
<1> QED
  BY <1>1, <1>2, <1>3, <1>4, <1>5 DEF Lock!Acquire, Lock!Alone, Holders, Barging

(* A thread that gives up passes the lock.                                 *)
LEMMA PassStep == ASSUME Inv, NEW t \in Thread, GiveUp(t) PROVE Lock!Barge(t)
<1> USE QueueAssumption
<1>1. Holders' = Holders /\ Barging' = Barging \cup {t}
  BY OwnerIsAlone DEF GiveUp, Holders, Barging, Critical, Inv, Types
<1>2. \A u \in Holders \cup Barging : queueOf[u] # queueOf[t]
  BY OwnerIsAlone DEF GiveUp, Holders, Barging
<1> QED
  BY <1>1, <1>2 DEF GiveUp, Lock!Barge, Lock!Alone, Holders, Barging

(* __exit__ leaves the lock before it touches the path.                    *)
LEMMA ExitStep == ASSUME Inv, NEW t \in Thread, Unlock(t) PROVE Lock!Leave({t})
<1> USE QueueAssumption
<1>1. \A u \in Critical : u # t => queueOf[u] # queueOf[t]
  BY DEF Unlock, Critical, Inv, Types, OwnerInv
<1>2. Holders' = Holders \ {t} /\ Barging' = Barging \ {t}
  BY <1>1 DEF Unlock, Holders, Barging, Critical, Inv, Types
<1> QED
  BY <1>2 DEF Unlock, Lock!Leave, Holders, Barging

(* The unlink does nothing to the lock, or breaks it, on POSIX only.       *)
LEMMA BreakStep ==
    ASSUME Inv, NEW t \in Thread, Unlink(t)
    PROVE  Lock!Break \/ UNCHANGED Lock!vars
<1> USE QueueAssumption
<1>1. Holders' = Holders /\ Barging' = Barging
  BY DEF Unlink, Holders, Barging, Critical, Inv, Types
<1>2. pulled' = pulled \/ (posix /\ pulled' = TRUE)
  <2>1. PathInv'
    BY UnlinkStep DEF Inv
  <2> QED
    BY <2>1, TypeStep DEF Next, Leave, Inv, Types, PathInv, Unlink
<1> QED
  BY <1>1, <1>2 DEF Unlink, Lock!Break, Lock!vars, Holders, Barging

(* A dying process leaves the lock with all its threads.                   *)
LEMMA DeathStep ==
    ASSUME Inv, NEW q \in Queue, Crash(q)
    PROVE  Lock!Leave({t \in Thread : queueOf[t] = q})
<1> USE QueueAssumption
<1> DEFINE dead == {t \in Thread : queueOf[t] = q}
<1>1. Holders' = Holders \ dead /\ Barging' = Barging \ dead
  BY DEF Crash, Holders, Barging, Critical, Inv, Types
<1> QED
  BY <1>1 DEF Crash, Lock!Leave, Holders, Barging

(* The other steps happen outside the lock.                                *)
LEMMA OutsideStep ==
    ASSUME Inv, NEW t \in Thread, Enter(t) \/ OpenFile(t) \/ EnterRaises(t)
    PROVE  UNCHANGED Lock!vars
<1>1. pc' = [pc EXCEPT ![t] = pc'[t]] /\ pc[t] # "critical" /\ pc'[t] # "critical"
  BY DEF Enter, OpenFile, EnterRaises, Inv, Types
<1>2. handle' = handle /\ pulled' = pulled /\ posix' = posix
  BY DEF Enter, OpenFile, EnterRaises
<1>3. Critical' = Critical
  BY <1>1 DEF Critical, Inv, Types
<1> QED
  BY <1>2, <1>3 DEF Lock!vars

(* WriteQueue implements AdvisoryLock: whatever callers of the lock can    *)
(* rely on, callers of "with queue:" can, for any number of processes.     *)
THEOREM QueueImplementsLock == Spec => ImplementsLock
<1>1. Init => Lock!Init
  BY QueueAssumption DEF Init, Lock!Init, Critical
<1>2. Inv /\ [Next]_vars => [Lock!Next]_(Lock!vars)
  <2> SUFFICES ASSUME Inv, [Next]_vars
               PROVE  Lock!Next \/ UNCHANGED Lock!vars
    OBVIOUS
  <2>1. ASSUME NEW t \in Thread, Acquire(t)
        PROVE  Lock!Next \/ UNCHANGED Lock!vars
    BY <2>1, LockStep, PassStep, OutsideStep DEF Acquire, Lock!Next
  <2>2. ASSUME NEW t \in Thread, EnterRaises(t)
        PROVE  UNCHANGED Lock!vars
    BY <2>2, OutsideStep
  <2>3. ASSUME NEW t \in Thread, Leave(t)
        PROVE  Lock!Next \/ UNCHANGED Lock!vars
    <3>1. {t} \in SUBSET Thread
      OBVIOUS
    <3> QED
      BY <2>3, <3>1, ExitStep, BreakStep DEF Leave, Lock!Next
  <2>4. ASSUME NEW q \in Queue, Crash(q)
        PROVE  Lock!Next
    <3>1. {t \in Thread : queueOf[t] = q} \in SUBSET Thread
      OBVIOUS
    <3> QED
      BY <2>4, <3>1, DeathStep DEF Lock!Next
  <2>5. CASE UNCHANGED vars
    BY <2>5 DEF vars, Lock!vars, Critical
  <2> QED
    BY <2>1, <2>2, <2>3, <2>4, <2>5 DEF Next, Finished
<1> QED
  BY <1>1, <1>2, Inductive, PTL DEF Spec, ImplementsLock, Lock!Spec
=============================================================================
