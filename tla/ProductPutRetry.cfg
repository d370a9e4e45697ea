SPECIFICATION Spec
CONSTANTS
    a = a
    A = A
    b = b
    x = x
    y = y
    Pod = {p1}
    Id = {a}
    Row <- MCRow
    RowOf <- MCRowOf
    File = {f}
    Payload = {x}
    Stored <- MCStored
    Req = {r1}
    TTL = 1
    MaxVersions = 3
    NoImage = NoImage
    NoArg = NoArg
    NoCall = NoCall
    NoCopy = NoCopy
    NoEntry = NoEntry
INVARIANTS
    NotFoundMeansMissing
