SPECIFICATION Spec
CONSTANTS
    Req = {r1, r2, r3}
    Key = {"BASE_URL", "TITLE"}
    Value = {"v0", "v1", "v2"}
    Seeded <- MCSeeded
    Ops <- MCOps
    None = None
SYMMETRY Symmetry
INVARIANTS
    TypeOK
    WrittenIsShown
