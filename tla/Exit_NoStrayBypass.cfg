SPECIFICATION Spec
CONSTANTS
    Nodes = {a, b}
    Remote = a
    Handlers = {h}
    Watchdog = Watchdog
    Sender = Sender
    NoNode = NoNode
    MaxFailures = 3
INVARIANT NoStrayBypass
