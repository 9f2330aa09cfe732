SPECIFICATION Spec
CONSTANTS
    p = p
    q = q
    p1 = p1
    q1 = q1
    None = None
    Apps = {p, q}
    Contexts = {p1, q1}
    AppOf <- MCAppOf
    Keys = {"letter", "space"}
    Typed = {p1}
    MaxFaults = 0
    MaxHeld = 1
    MaxPending = 2
PROPERTIES
    KeyTakenOnce
