SPECIFICATION Spec
CONSTANTS
    Req = {r1, r2, r3}
    Seeds = {1, 2}
    Email = {"a", "A", "b", "c", "bad"}
    Username = {"ann", "bob", "cat", "dan"}
    WellFormed = {"a", "A", "b", "c"}
    Fold <- MCFold
    Profile <- MCProfile
    Ops <- MCOps
    None = None
SYMMETRY Symmetry
CONSTRAINT Scenario
INVARIANTS
    TypeOK
    UniqueIdentities
    NamedFieldsStand
