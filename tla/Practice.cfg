SPECIFICATION Spec
CONSTANTS
    a = a
    A = A
    x = x
    y = y
    p = p
    n = n
    jpg = jpg
    Pod = {p1}
    Id = {a, A}
    Row <- MCRow
    RowOf <- MCRowOf
    File = {p, n}
    Extension <- MCExtension
    Jpg = jpg
    Payload = {x, y}
    Stored <- MCStored
    Req = {r1, r2}
    MaxVersions = 3
    NoExt = NoExt
    NoImage = NoImage
    NoArg = NoArg
    NoCall = NoCall
    NoProduct = NoProduct
    NoBody = NoBody
SYMMETRY Symmetry
INVARIANTS
    TypeOK
    AckedFileServed
PROPERTIES
    ShownLinksWork
    ImplementsCatalogue
