SPECIFICATION AgentSpec
CONSTANTS
    a = a  b = b  c = c  l1 = l1  l2 = l2  big = big  p1 = p1  live1 = live1
    \* Mesh
    MeshNodes = {a, b, c}  Near <- Line  Letters = {l1, l2}  FromNode <- FromA  ToNode <- ToC
    Ttl <- Lives  HopLimit = 3  CarryCapacity = 1  LastHour = 1  MaxCuts = 1
    \* ActionLog
    Writers = {x, y}  MaxLines = 4  MaxLogCrashes = 1
    \* AgentCard
    Absent = Absent  Torn = Torn  Tools = {t}
    MaxMints = 4  MaxCardCuts = 1  MaxHistory = 3
    \* PeerLink
    Posts = {big, p1, live1}  Live = {live1}  Weight <- PostWeight
    MaxQueued = 2  MaxPendingBytes = 3  MaxSocketBytes = 2  MaxDrops = 2
INVARIANTS LogChains CardIsSound LinkKeepsOrder
PROPERTIES MeshDelivers
CHECK_DEADLOCK FALSE
