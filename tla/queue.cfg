\* Three threads in any mixture of calls, two places, one exception in push
\* or pop, and one push more than there are places.
CONSTANTS
    Thread = {t1, t2, t3}
    Item = {a, b}
    NoItem = NoItem
    Capacity = 2
    MaxSent = 3
    MaxThrows = 1
SPECIFICATION FairSpec
INVARIANTS
    NoLostWakeup
    Inv
PROPERTIES
    FifoSpec
    CallsReturn
    SleepersServed
