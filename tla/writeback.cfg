SPECIFICATION WritebackSpec
CONSTANTS
    a1 = a1  a2 = a2  a3 = a3  v1 = v1  n1 = n1  n2 = n2  bad = bad
    Addrs = {a1, a2, a3}
    Others = {v1}
    Names = {n1, n2, bad}
    NoName = NoName
    Protected = {a3}
    Acked <- MCAcked
    Refused = {bad}
    Nightly = Nightly
    Clis = {c1}
    Calls <- MCCalls
    Worlds <- MCWorlds
    MaxEdits = 1
    MaxFaults = 1
    MaxIds = 6
INVARIANT MirrorSound
PROPERTIES FloorHolds MirrorGetsNoWorse Converges
