\* Two asynchronous checks in a row, behind a processor that may refuse before
\* the counter is told: every answer comes in the end.
CONSTANTS
    Sockets = {c1, c2, c3}
    Ips = {a1}
    Tokens = {t1}
    NoToken = NoToken
    BadToken = BadToken
    NoSession = NoSession
    Chain <- CheckedChain
    MaxConnsPerIp = 2
    CountMod = 4
SPECIFICATION FairSpec
INVARIANTS
    TypeOK
    CounterExact
    PendingAwaitsItsCheck
    ClientIsChecked
PROPERTIES
    OneVerdict
    PendingEnds
    StopEmpties
CHECK_DEADLOCK FALSE
