SPECIFICATION Spec
SYMMETRY ListenerPortSymmetry
CONSTANTS
    Listeners = {l1, l2}
    Relayer = relayer
    Nobody = nobody
    Ports = {p1, p2}
    Other = other
    Timeout = 1
    MaxTime = 2
INVARIANTS
    OneFlowPerPort
PROPERTY CountsActivePorts
