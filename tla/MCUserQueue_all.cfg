SPECIFICATION Spec
CONSTANTS
    u1 = u1
    u2 = u2
    j1 = j1
    j2 = j2
    j3 = j3
    j4 = j4
    NoJob = NoJob
    Users = {u1, u2}
    Jobs = {j1, j2, j3, j4}
    Owner <- ThreeAndOne
INVARIANTS
    TypeOK
    OneAtATime
    WorkersMatchQueues
    PositionsHonest
    SoleUserExact
PROPERTIES
    EveryJobServed
    ImplementsFifo
CHECK_DEADLOCK FALSE
