SPECIFICATION FairSpec
CONSTANTS
    Hosts = {h1, h2}
    RemotePorts = {p1}
    Callers = {r1}
    Clients = {c1, c2, q1}
    Preparers = {q1}
    Maps = {m1, m2}
    None = None
    WaitsForClients = TRUE
CHECK_DEADLOCK FALSE
INVARIANTS TypeOK OneTransport OpenAlone RetryIsFresh
PROPERTIES ImplementsLinks ClientAnswered
