\* One request at a time; no symmetry, since the run checks liveness too.
CONSTANTS
    Domains = {d1, d2}
    ConfigNames = {}
    ConfigDomain <- NoConfig
    Ports = {p1, p2}
    Cmds = {c1, c2, c3}
    Handlers = {h1}
    Ops = {"add", "remove"}
    NoCmd = NoCmd
    NoTarget = NoTarget
    NoPort = NoPort
    NoName = NoName
SPECIFICATION FairSpec
INVARIANTS WaiterOwnsEntry StopAllCovers RoutedPortsReserved RunningServicesRouted
PROPERTY CrashedNameFreed
