\* Two tunnels for one host, both transports, all faults.
CONSTANTS
    Tunnels = {t1, t2}
    Hosts = {h1}
    HostsOf <- SameHosts
    Reqs = {r1, r2}
    Replays = {}
    Filters <- FirstOnly
    First = r1
    Debuggers = {d1}
    QueueCap = 1
    QUICCap = 1
    LogCap = 1
    Transports <- OneQuic
    Quic = t1
    Faults = {"crash", "lose"}
SPECIFICATION Spec
INVARIANTS ForwardedOnce OwnTunnel HeldBack AnsweredByLocal TunnelHasClient
CHECK_DEADLOCK FALSE
