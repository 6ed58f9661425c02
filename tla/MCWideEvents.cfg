SPECIFICATION EventsSpec
CONSTANTS
    Request = {r1}
    Status = {200, 500}
    Count = {0, 11}
    Context = {"fine", "control", "unacceptable"}
    MaxWrites = 2
INVARIANTS
    FlowsCounted
CHECK_DEADLOCK FALSE
