\* Three connection attempts over two addresses, two worlds and one token, so
\* that an address can go past its limit of two, and players can share a world
\* or not, while checks are in flight.
CONSTANTS
    Sockets = {c1, c2, c3}
    Ips = {a1, a2}
    Tokens = {t1}
    NoToken = NoToken
    BadToken = BadToken
    NoSession = NoSession
    Chain <- DeployedChain
    MaxConnsPerIp = 2
    CountMod = 4
    Worlds = {w1, w2}
    Pids = {1, 2, 3}
    NoWorld = NoWorld
SYMMETRY Symmetry
SPECIFICATION ServerSpec
INVARIANTS
    ServerTypeOK
    CounterExact
    LimitPerIp
    TotalsAgree
    RosterExact
    WorldsInUse
    StatsSettle
PROPERTY ImplementsSlots
CHECK_DEADLOCK FALSE
