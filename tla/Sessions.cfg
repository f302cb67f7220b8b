SPECIFICATION Spec
CONSTANTS
    Req = {r1, r2, r3, r4}
    Namespace <- MCNamespace
    Public = "public"
    Id = {1, 2}
    Lifetime = 2
    MaxTime = 3
    Enrolled <- MCEnrolled
    Ops <- MCOps
    None = None
SYMMETRY Symmetry
CONSTRAINT Scenario
INVARIANTS
    TypeOK
    ClaimsWereHeld
    Confinement
    AssignerIsNamedRightly
PROPERTIES
    RevocationTakesEffect
