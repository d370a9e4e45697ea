SPECIFICATION FairSpec
CONSTANTS
    e1 = e1
    p = p
    q = q
    r1 = r1
    r2 = r2
    Edge <- MCEdge
    Id <- MCId
    Req <- MCReq
    Calls <- MCCalls
    TTL = 0
    MaxVersions = 2
    NoCall = NoCall
    NoEntry = NoEntry
    NoWhere = NoWhere
INVARIANTS
    TypeOK
    OnlyPassedRequestsReachPods
    VerdictsAgree
    ShownProductExists
PROPERTIES
    EdgeEventuallyCurrent
