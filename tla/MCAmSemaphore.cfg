SPECIFICATION SemSpec
CONSTANTS
    Threads = {t1, t2, t3}
    Amounts = {0, 1, 2}
    MaxValue = 3
INVARIANTS NoLostWakeup
PROPERTIES Implements
