\* Half-second ticks: a window of 3 ticks, a lockout of 5, and up to 1 between
\* the date of a failure and its transaction.
SPECIFICATION Spec
CONSTANTS
    Clients = {k1, k2}
    Threads = {t1, t2}
    MaxAttempts = 3
    Window = 3
    Lockout = 5
    Second = 2
    Delay = 1
    Horizon = 8
    NoClient = NoClient
    NoRow = NoRow
    NoTime = NoTime
SYMMETRY Symmetric
INVARIANTS TypeOK LockoutEngages LockoutDeserved SlipBounded
CHECK_DEADLOCK FALSE
