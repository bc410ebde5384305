CONSTANTS
    Domains = {d1, d2}
    ConfigNames = {n1}
    ConfigDomain <- SharedDomain
    Ports = {p1, p2, p3, p4}
    Cmds = {c1, c2, c3}
    Handlers = {h1, h2}
    Ops = {"add"}
    NoCmd = NoCmd
    NoTarget = NoTarget
    NoPort = NoPort
    NoName = NoName
SYMMETRY Symmetry
SPECIFICATION Spec
INVARIANTS NoPortOverlap RoutesReachOwnService
CHECK_DEADLOCK FALSE
