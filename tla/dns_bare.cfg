SPECIFICATION Spec
CONSTANTS
    u4 = u4
    u6 = u6
    t4 = t4
    t6 = t6
    Udp = {u4}
    Tcp = {t4, t6}
    V6 = {t6}
    Overlaps <- WildcardOverlaps
    Foreign = {}
    Plans <- TcpMovedPlans
    Workers = 2
    Slots = 0
    Loops = {l1, l2, l3, l4}
    MaxRebinds = 1
CHECK_DEADLOCK FALSE
INVARIANT NeverBare
