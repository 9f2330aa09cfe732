SPECIFICATION Spec
CONSTANTS
    DBusApps = {g1, g2}
    XimApps = {}
    KeepsIds = {g1, g2}
    MaxIc = 2
    Crashes = TRUE
    g1 = g1
    g2 = g2
INVARIANTS
    StaleGetsDefault
