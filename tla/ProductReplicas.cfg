SPECIFICATION Spec
CONSTANTS
    a = a
    A = A
    b = b
    x = x
    y = y
    Pod = {p1, p2}
    Id = {a}
    Row <- MCRow
    RowOf <- MCRowOf
    File = {f, g}
    Payload = {x, y}
    Stored <- MCStored
    Req = {r1, r2}
    TTL = 1
    MaxVersions = 3
    NoImage = NoImage
    NoArg = NoArg
    NoCall = NoCall
    NoCopy = NoCopy
    NoEntry = NoEntry
SYMMETRY Symmetry
INVARIANTS
    CopiesAreVersions
    NoDanglingImage
    FreshReads
    SoleCreator
    AckedImageCommitted
PROPERTIES
    ImplementsCatalogue
