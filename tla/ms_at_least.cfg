\* at_least_once without losses: both ends write more than a read buffer holds.
\* One relay that may be given two identifiers, one session, one crash.
\* One caller beside the renewal worker, one failure of each kind, one crash.
\* Two requests at a time of two users with one name or one email.
\* Two calls of a DNS provider, two records, one failed request, one edit of the zones.
CONSTANTS
    End = {c, s}
    Writers = {c, s}
    Mode = "at_least_once"
    Window = 1
    Modulus = 6
    Capacity = 2
    MaxSeq = 3
    Losable = {}
    MaxLoss = 0
    Relay = {r1}
    RelayId = {i1, i2}
    Region = {"eu", "us"}
    RegionOf <- MCRegionOf
    Session = {s1}
    Slot = {h1, h2}
    NoId = NoId
    MaxBeat = 3
    MaxStop = 1
    Caller = {p}
    Worker = w
    MaxRetries = 2
    MaxIssue = 3
    MaxBadCa = 1
    MaxBadDisk = 1
    MaxHalt = 1
    Call = {c1, c2}
    Name = {n1, n2}
    Email = {e1}
    Code <- MCCode
    MaxUser = 2
    MaxToken = 1
    MaxGen = 1
    DnCall = {c1, c2}
    DnDomain <- MCDomain
    DnZone <- MCZone
    MaxRecord = 2
    MaxBadApi = 1
    MaxZoneEdit = 1
SPECIFICATION MCSpec
INVARIANTS ServicesTypeOK   
           CertificateSound  IndexesAgree  RecordsExact
PROPERTY RestartServes
CHECK_DEADLOCK FALSE
