SPECIFICATION ExchangeSpec
CONSTANTS
    po = po  ps = ps  m1 = m1  m2 = m2  k1 = k1  k2 = k2  k3 = k3  b = b  c = c
    \* Streams
    Producer = po  Subscribers = {ps}  Grants <- TwoGrants  ProducerGrant <- OwnGrant
    Messages = {m1, m2}  SequenceOf <- PacketNumber  MaxSequence = 1
    CreditWindow = 1  Keep = 1  InboxCapacity = 1  MaxRestarts = 1
    NoStream = NoStream  NoSession = NoSession
    \* Channels
    Sockets = {k1, k2, k3}  Hosts = {"x", "y"}  HostOf <- SocketHost  Calls = {r1}
    MaxConnections = 2  MaxPerPeer = 2  MaxPending = 2  MaxPendingBytes = 5
    Workers = 1  PerPeer = 1  Sizes = {2}  MaxPushes = 2
    \* Artifacts
    Digests = {"big", "x"}  SizeOf <- ArtifactSize  Creators = {"p", "q"}
    MaxTotal = 3  Retention = 1  MaxArtifacts = 3  LastDay = 2
    \* Pairing
    Me = me  Others = {b, c}  Urls = {"u"}  Names = {"n"}  KeyIds = {1, 2}
    Scopes = {{"read"}}  DefaultScope = {"read", "act"}
    MaxPendingPeers = 1  Validity = 1  PendingLife = 0  LastDate = 1  MaxEvents = 2
INVARIANTS StreamIsKept PushIsConsented BudgetIsExact RowHasBytes TrustIsConsented
SYMMETRY ExchangeSymmetry
CHECK_DEADLOCK FALSE
