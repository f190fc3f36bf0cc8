SPECIFICATION Spec
CONSTANTS
    a1 = a1
    a2 = a2
    Keys = {k1}
    Addresses = {a1, a2}
    Ports = {80}
    Allowed = {80}
    LocalPorts = {l1, l2}
    Fds = {f1, f2}
    Connections <- MCConnections
    Lengths = {1, 2}
    MaxMoves = 2
    MaxTunnels = 2
    MaxClients = 2
    MaxBytes = 3
SYMMETRY Symmetry
INVARIANTS NoLateEvents ClientsAreListed OnItsWay
CHECK_DEADLOCK FALSE
