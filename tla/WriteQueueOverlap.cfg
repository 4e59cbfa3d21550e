\* Three threads on POSIX and no fault: what a queue promises.
CONSTANTS
    t1 = t1  t2 = t2  t3 = t3  t4 = t4
    q1 = q1  q2 = q2  q3 = q3
    Thread <- MCThreads
    Queue <- MCQueues
    queueOf <- MCQueueOf
    Inode = {i1, i2, i3, i4}
    Faults = {}
    Writes = 2
    None = None
SPECIFICATION PosixSpec
INVARIANT MutualExclusion
