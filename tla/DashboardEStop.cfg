SPECIFICATION FairSpec
CONSTANTS
    Pages = {p}
    Sockets = {s}
    Poller = Poller
    NoSocket = NoSocket
    Actions = {"start", "stop"}
    MaxRaised = 0
PROPERTY EStopStopsConveyor
