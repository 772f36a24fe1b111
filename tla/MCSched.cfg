\* Four threads, slices of two ticks.
SPECIFICATION FairSpec
CONSTANTS
    Main = main
    Threads = {main, a, b, c}
    SCHED_SLICE = 2
    Points <- MCPoints
INVARIANT RingIsWhole
INVARIANT ResumesWhereItLeft
PROPERTY SlicesAreFull
PROPERTY EveryThreadRuns
