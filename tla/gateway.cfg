SPECIFICATION Spec
CONSTANTS
    None = None
    Unreadable = Unreadable
    HTTPTargets = {"http"}
    BlankTokens = {" "}
    MaxPort = 3
    DefaultPort = 2
    DefaultMaxQueueSize = 2
    DefaultStartup = 1
    MaxInt64 = 4
    MaxPeekSize = 2
    Files <- FilesBounds
    Requests <- RequestsBounds
    GenToken = "g"
INVARIANT TypeOK
INVARIANT BodyIntact
INVARIANT CapExact
INVARIANT RoutedByOneRevision
INVARIANT RouteTargetExists
INVARIANT LogTruthful
 
INVARIANT PeekedReplayable
