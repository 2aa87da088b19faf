SPECIFICATION FairDelivery
CONSTANTS
  k1 = k1  p1 = p1  a = a  m1 = m1  m3 = m3  w1 = w1
  Keys = {k1}
  Peers = {p1}
  Payloads = {a}
  Messages = {m1, m3}
  Workers = {w1}
  Reconciler = Reconciler
  None = None
  Revocable = {p1}
  Contested = {k1}
  Expirable = {m1}
  MaxActive = 1
  PoolSize = 1
  MaxCrashes = 1
  Kind <- SettleKind
  KeyOf <- SettleKey
  PeerOf <- SettlePeer
  PayloadOf <- SettlePayload
PROPERTIES AdmittedSettles PendingIsAnswered
CHECK_DEADLOCK FALSE
