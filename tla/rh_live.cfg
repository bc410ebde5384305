\* One tunnel, both transports, crashes and a replay.
CONSTANTS
    Tunnels = {t1}
    Hosts = {h1}
    HostsOf <- SameHosts
    Reqs = {r1, r2}
    Replays = {i1}
    Filters <- FirstOnly
    First = r1
    Debuggers = {d1}
    QueueCap = 1
    QUICCap = 1
    LogCap = 1
    Transports <- AnyTransport
    Quic = t1
    Faults = {"crash"}
SPECIFICATION FairSpec
PROPERTIES  ReplayPolled
CHECK_DEADLOCK FALSE
