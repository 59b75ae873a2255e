SPECIFICATION FairSpec
CONSTANTS
    None = None
    Unreadable = Unreadable
    HTTPTargets = {"http"}
    BlankTokens = {" "}
    MaxPort = 3
    DefaultPort = 2
    DefaultMaxQueueSize = 2
    DefaultStartup = 1
    c1 = c1
    hup = hup
    adm = adm
    BootFile <- Base
    Edits <- EditsAll
    Reloaders = {hup, adm}
    AdminCalls = {adm}
    Clients = {c1}
    Containers = {"ca", "cb"}
    MaxEdits = 1
INVARIANT TypeOK
INVARIANT NoPoolLeaks
INVARIANT RuntimeConsistent
INVARIANT SoleOwner
INVARIANT EventsReachOwner
PROPERTY UnchangedPoolsKept
PROPERTY HeldRequestsEnd
PROPERTY ReloadsEnd
PROPERTY ShutdownEnds
