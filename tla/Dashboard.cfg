SPECIFICATION FairSpec
CONSTANTS
    Pages = {p}
    Sockets = {s, t}
    Poller = Poller
    NoSocket = NoSocket
    Actions = {"start"}
    MaxRaised = 1
INVARIANT ListedWhileServed
PROPERTIES
    PagesShowStatus
    HandlersReturn
