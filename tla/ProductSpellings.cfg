SPECIFICATION FairSpec
CONSTANTS
    a = a
    A = A
    b = b
    x = x
    y = y
    Pod = {p1}
    Id = {a, A}
    Row <- MCRow
    RowOf <- MCRowOf
    File = {f}
    Payload = {x, y}
    Stored <- MCStored
    Req = {r1, r2}
    TTL = 0
    MaxVersions = 2
    NoImage = NoImage
    NoArg = NoArg
    NoCall = NoCall
    NoCopy = NoCopy
    NoEntry = NoEntry
INVARIANTS
    IInv
PROPERTIES
    EventuallyCurrent
