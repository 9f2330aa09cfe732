\* Two threads push three messages each, and stop() may come at any time.
CONSTANTS
    Producers = {dbus, xim}
    MaxPush = 3
    Quit = quit
    NoMessage = none
SPECIFICATION FairSpec
INVARIANTS TypeOK NoLostWakeup
PROPERTIES IsMailbox Delivered StopReturns
CHECK_DEADLOCK FALSE
