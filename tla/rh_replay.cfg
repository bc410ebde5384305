\* A replay on a tunnel whose daemon uses QUIC.
CONSTANTS
    Tunnels = {t1}
    Hosts = {h1}
    HostsOf <- SameHosts
    Reqs = {r1}
    Replays = {i1}
    Filters = {}
    First = r1
    Debuggers = {}
    QueueCap = 1
    QUICCap = 1
    LogCap = 1
    Transports <- OneQuic
    Quic = t1
    Faults = {}
SPECIFICATION FairSpec
PROPERTY ReplayForwarded
CHECK_DEADLOCK FALSE
