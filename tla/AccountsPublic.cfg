SPECIFICATION Spec
CONSTANTS
    Req = {r1, r2, r3}
    None = None
    Email <- MCEmail
    Username <- MCUsername
    GroupName <- MCGroupName
    Fold <- MCFold
    Trim <- MCTrim
    Canon <- MCCanon
    Ops <- PublicOps
    Seeds <- PublicSeeds
    Global = TRUE
SYMMETRY Symmetry
INVARIANTS
    TypeOK
    UniqueIdentities
    PrivilegeProvenance
    BootstrapMeansEmpty
    CreatedInFull
PROPERTIES
    ImplementsDirectory
