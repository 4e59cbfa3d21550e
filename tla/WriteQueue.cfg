\* Four threads on three queues of two processes, crashes and errors.
CONSTANTS
    t1 = t1  t2 = t2  t3 = t3  t4 = t4
    q1 = q1  q2 = q2  q3 = q3
    Thread <- MCThreads4
    Queue <- MCQueues3
    queueOf <- MCQueueOf4
    Inode = {i1, i2, i3, i4}
    Faults = {"crash", "raise"}
    Writes = 2
    None = None
SPECIFICATION FairSpec
INVARIANTS TypeOK HandleIsMine LockHasOwner
PROPERTIES ImplementsLock WritersFinish
