SPECIFICATION Spec
CONSTANTS
    Req = {r1, r2, r3}
    None = None
    Email <- MCEmail
    Username <- MCUsername
    GroupName <- MCGroupName
    Fold <- MCFold
    Trim <- MCTrim
    Canon <- MCCanon
    Ops <- TenantOps
    Seeds <- TenantSeeds
    Global = FALSE
SYMMETRY Symmetry
INVARIANTS
    ReservedStaysGlobal
    ReferentialIntegrity
PROPERTIES
    OnlyRevocationWithdraws
