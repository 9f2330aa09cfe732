SPECIFICATION Spec
CONSTANTS
    DBusApps = {q1, q2}
    XimApps = {x}
    KeepsIds = {}
    MaxIc = 4
    Crashes = TRUE
    q1 = q1
    q2 = q2
    x = x
INVARIANTS
    TypeOK
    RefsExact
    OnePreeditPerApp
    HandlesAreLive
