SPECIFICATION Spec
CONSTANTS
    Nodes = {a, b}
    Remote = a
    Handlers = {h}
    Watchdog = Watchdog
    Sender = Sender
    NoNode = NoNode
    MaxFailures = 2
INVARIANT OnlyOvertakenStray
PROPERTY DeselectRestores GivesUpOnDeadExit RecoversExit
