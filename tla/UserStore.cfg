SPECIFICATION Spec
CONSTANTS
    Pod = {p1}
    Request = {r1, r2}
    Name = {"ada", "bob"}
    MaxID = 2
    MaxRestarts = 1
    Nobody = Nobody
INVARIANTS
    IdsStayTheirs
    ReadsCurrent
