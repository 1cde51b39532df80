SPECIFICATION FairSpec
CONSTANTS
    a = a
    b = b
    None = None
    Clients <- MCClients
    Link <- MCLink
    Pi <- MCPi
    Protocol <- MCPi
    Fds <- MCFds
    TidSpace = 2
    MaxCalls = 3
    MaxBreaks = 1
INVARIANT RepliesMatched
INVARIANT OwnConnection
INVARIANT StaleOnlyAfterTimeouts
PROPERTY CallsReturn
