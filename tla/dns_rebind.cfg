SPECIFICATION FairSpec
CONSTANTS
    u4 = u4
    u6 = u6
    t4 = t4
    t6 = t6
    Udp = {u4, u6}
    Tcp = {t4}
    V6 = {u6}
    Overlaps <- WildcardOverlaps
    Foreign = {u4, u6}
    Plans <- UdpMovedPlans
    Workers = 1
    Slots = 1
    Loops = {l1, l2, l3}
    MaxRebinds = 1
CHECK_DEADLOCK FALSE
INVARIANTS
    KeptServed
    SocketsAccounted
PROPERTIES
    HandlerReturns
    StopHeard
