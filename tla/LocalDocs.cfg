CONSTANTS
    t1 = t1
    t2 = t2
    Tab = {t1, t2}
    Wiper = {t1}
    Row = {r}
    Root = root
    BodiesOf <- OneOpens
    MaxBodies = 2
    MaxHandles = 2
    MaxReloads = 1
SPECIFICATION FairSpec
INVARIANTS HeldBodyLives OneLiveBody WipeWaitsForOwn
PROPERTIES WipeEnds IdleBodyReleased
CHECK_DEADLOCK FALSE
