SPECIFICATION PlantSpec
CONSTANTS
    th1 = th1  th2 = th2  e1 = e1  e2 = e2
    \* GuardBand
    Limit = 1  Margin = 3  HalfWidth = 1  Body = 1  Room = 9  EndTime = 2
    NoReport = NoReport  Volumes <- OneVolume
    \* TimeTransfer
    Offsets = {0, 3}  MaxTrip = 4  Window = 5  Buckets = 2  LastInstant = 6  MaxHeld = 3
    \* Frames
    FrameNames = {f1, f2, f3}  Poses <- ThreePoses  Rates = {0, 1}  LastTick = 2
    \* Schedule
    Period = 2  Deadline = 1  Timeout = 3  CheckInterval = 1  LastBeat = 8
    \* Fieldbus
    Signals = {"estop", "zone", "coil", "fixed"}  SpaceOf <- SignalSpace
    ActiveLow <- WiredLow  SafetyRelevant <- IsSafety  ReadOnlyCoils = {"fixed"}
    Threads = {th1, th2}  TransactionIds = 65536  MaxRequests = 3  MaxChanges = 1
    \* SafetyCase
    Claims = {1, 2, 3}  Undefined = 9  Evidence = {e1, e2}  SomeCases <- SmallCases
INVARIANTS EstimateCoversOffset
SYMMETRY ThreadSymmetry
CHECK_DEADLOCK FALSE
