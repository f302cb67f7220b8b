SPECIFICATION Spec
CONSTANTS
    Req = {r1, r2, r3}
    User = {u1, u2}
    None = None
    Chosen <- MCChosen
    Short <- MCShort
    Original = "old"
    Ops <- MCOps
SYMMETRY Symmetry
CONSTRAINT Scenario
INVARIANTS
    TypeOK
    PasswordAuthority
    SpentTokensStaySpent
    SessionsUseCurrentPassword
    TemporaryMustBeChanged
    TemporaryLoginIsTold
