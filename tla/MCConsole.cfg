\* Messages of two characters, reports of two messages, two threads.
SPECIFICATION FairSpec
CONSTANTS
    main = main
    threadA = threadA
    Threads = {main, threadA}
    cpu = cpu
    heap_lock = heap_lock
    printk_lock = printk_lock
    Length = 2
    BannerLines = 2
    ExceptionLines = 2
CHECK_DEADLOCK FALSE
PROPERTY MessagesWhole
PROPERTY ReportIsLast
PROPERTY ReportsEnd
