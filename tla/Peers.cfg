SPECIFICATION Spec
CONSTANTS
    c1 = c1
    c2 = c2
    i1 = i1
    d1 = d1
    d2 = d2
    None = None
    Conns = {c1, c2}
    Ips = {i1}
    Ids = {d1, d2}
    First = c1
    FirstId = d1
    Announced <- MCAnnounced
    MaxPeers = 1
    MaxOutgoing = 1
    MaxCommands = 1
INVARIANTS OutgoingCounts ListedIsServed
PROPERTIES Closes
CHECK_DEADLOCK FALSE
