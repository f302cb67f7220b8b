SPECIFICATION Spec
CONSTANTS
    Req = {r1, r2, r3}
    User = {1, 2, 3}
    Group = {"staff"}
    Org = {"o1", "o2"}
    Here = "o1"
    Name = {"full", "secret", "new"}
    Resource <- MCResource
    Action = {"", "*", "read", "write"}
    Enrolled <- MCEnrolled
    Seeds = {"p1", "p2"}
    Seeded <- MCSeeded
    Linked <- MCLinked
    Ops <- KeyOps
    None = None
SYMMETRY Symmetry
INVARIANTS
    DenialsLookAlike
