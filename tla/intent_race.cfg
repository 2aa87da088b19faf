SPECIFICATION PartSpec
CONSTANTS
  k1 = k1  k2 = k2  p1 = p1  p2 = p2  a = a
  m1 = m1  m2 = m2  m3 = m3  m4 = m4
  n2 = n2  n3 = n3  n4 = n4  w1 = w1  w2 = w2
  Keys = {k1, k2}
  Peers = {p1, p2}
  Payloads = {a}
  Messages = {m1, m2, m3, m4, n2, n3, n4}
  Workers = {w1, w2}
  Reconciler = Reconciler
  None = None
  Revocable = {}
  Contested = {}
  Expirable = {}
  MaxActive = 1
  PoolSize = 1
  MaxCrashes = 1
  Kind <- RaceKind
  KeyOf <- RaceKey
  PeerOf <- RacePeer
  PayloadOf <- RacePayload
INVARIANTS AtMostOneCall ReplyStable CancelPendingIsServed BacklogBounded
PROPERTIES ImplementsLifecycle
SYMMETRY RaceSymmetry
CHECK_DEADLOCK FALSE
