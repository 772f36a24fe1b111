\* Both alignments of the stack, calls nested three deep, handlers of up to two words.
SPECIFICATION StackSpec
CONSTANTS
    STACK_WORDS = 29
    MaxDepth = 3
    HandlerWords = 2
CHECK_DEADLOCK FALSE
INVARIANT ReturnReachesThreadExit
