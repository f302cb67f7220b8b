SPECIFICATION Spec
CONSTANTS
    Req = {r1, r2, r3}
    Seeds = {1, 2}
    Email = {"e1", "e2", "e3"}
    Username = {"ann", "bob", "cat"}
    Group = {"superadmin", "admin", "users", " Superadmin", "staff"}
    Canon <- MCCanon
    MaxClock = 1
    Starts <- MCStarts
    Ops <- MCOps
    None = None
SYMMETRY Symmetry
CONSTRAINT Scenario
INVARIANTS
    TypeOK
    MembershipIsAsReported
    LinksAreStored
    PasswordIsTheNamedUsers
