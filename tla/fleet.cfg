SPECIFICATION FleetSpec
CONSTANTS
    j1 = j1  j2 = j2  o1 = o1  o2 = o2  i1 = i1  i2 = i2
    Jobs = {j1, j2}
    Kinds = {"vda", "rest", "sim"}
    Nothing = Nothing
    Steps = 1
    MaxWire = 1
    Owners = {o1, o2}
    Ids = {i1, i2}
    Cells = {p, q}
    Doubt = 1  Slack = 1  SpeedCap = 1  Girth = 1  Slices = 2
    Places = {0, 5}
    Windows = {2}
    Leases = {3}
    MaxLease = 6  MaxGuard = 3  MaxExtent = 8
    Grace = 1
    LastMoment = 3
    Waits = {0, 2}
    NoRow = NoRow
    Track = 2
    Blocked = {}
    Trips <- SomeTrips
    Full = 9
    Charges = {9}
    Floor = 2
    MaxCells = 2
    Threshold = 1
    NoPlan = NoPlan
INVARIANTS PhaseIsReal NoSharedSpace PlanHolds
SYMMETRY FleetSymmetry
CHECK_DEADLOCK FALSE
