\* Two CPUs, three threads: the lock's own contract.
SPECIFICATION Spec
CONSTANTS
    cpu0 = cpu0
    cpu1 = cpu1
    main = main
    threadA = threadA
    threadB = threadB
    heapLock = heapLock
    printkLock = printkLock
    Cpus = {cpu0, cpu1}
    Threads = {main, threadA, threadB}
    Locks = {heapLock, printkLock}
    Home <- TwoCpuHome
    Rank <- NestingOrder
INVARIANT MutualExclusion
INVARIANT HolderNotPreemptible
INVARIANT SpinsOnlyForAnotherCpu
PROPERTY RestoresInterrupts
