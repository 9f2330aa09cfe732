SPECIFICATION Spec
CONSTANTS
    p = p
    q = q
    p1 = p1
    q1 = q1
    None = None
    Apps = {p, q}
    Contexts = {p1, q1}
    AppOf <- MCAppOf
    Keys = {"letter", "digit", "forward"}
    Typed = {p1}
    MaxFaults = 1
    MaxHeld = 2
    MaxPending = 2
INVARIANTS
    TypeOK
    ActiveAgrees
    
PROPERTIES
    TakenOnceIfSteady
    
    
