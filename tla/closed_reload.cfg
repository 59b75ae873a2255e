SPECIFICATION Spec
CONSTANTS
    None = None
    Unreadable = Unreadable
    HTTPTargets = {"http"}
    BlankTokens = {" "}
    MaxPort = 3
    DefaultPort = 2
    DefaultMaxQueueSize = 2
    DefaultStartup = 1
    c1 = c1
    hup = hup
    adm = adm
    BootFile <- Base
    Edits <- EditsRaised
    Reloaders = {hup}
    AdminCalls = {}
    Clients = {c1}
    Containers = {"ca", "cb"}
    MaxEdits = 1
INVARIANT ClosedForGood
