\* One writer over a connection that loses frames.
\* Two streams of the client, one of the server.
\* Two requests at a time from an address that is let in and one that is not.
\* Two guarded calls, two requirements.
\* Two dashboards, a history of one event, a session of two people.
\* One TCP connection with two chunks each way, one loss, one restart.
\* Two datagrams.
CONSTANTS
    End = {c, s}
    Writers = {c}
    Mode = "exactly_once"
    Window = 2
    Modulus = 6
    Capacity = 2
    MaxSeq = 3
    Losable = {"data", "ack", "nack", "window"}
    MaxLoss = 1
    Side = {"client", "server"}
    MaxStreams = 2
    MaxOpen <- MCMaxOpen
    GaCall = {c1, c2}
    Addr = {"a1", "a2"}
    BlockedAddr = {"a2"}
    AllowedAddr = {}
    Conn <- MCConn
    TlsPolicy <- MCTlsPolicy
    Policy = {"p"}
    RateP = 1
    RateQ = 2
    Burst = 2
    StaleAge = 6
    MaxAuditLog = 1
    OpCall = {c1, c2}
    FailureThreshold = 2
    SuccessThreshold = 2
    Requirement = {"lat", "scal"}
    TypeOf <- MCTypeOf
    Threshold = 1
    Value = {0, 2}
    MaxHistory = 2
    NfrStale = 2
    Dash = {d1, d2}
    CoSession = {"x"}
    Person = {"o", "n"}
    ChanCap = 1
    MaxEvents = 1
    MaxEvent = 2
    TcpConn = {t1}
    MaxData = 2
    QueueCap = 1
    QuicCap = 2
    MaxTcpLoss = 1
    MayRestart = TRUE
    Datagram = {1, 2}
    PeerOf <- MCPeerOf
SPECIFICATION MCSpec
INVARIANTS  InOrderOnce UndeliveredKept StreamsSound RateExact
           BreakerTrips FeedExact TcpFaithful 
CHECK_DEADLOCK FALSE
