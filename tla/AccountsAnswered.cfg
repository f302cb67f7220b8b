SPECIFICATION FairSpec
CONSTANTS
    Req = {r1, r2}
    None = None
    Email <- MCEmail
    Username <- MCUsername
    GroupName <- MCGroupName
    Fold <- MCFold
    Trim <- MCTrim
    Canon <- MCCanon
    Ops <- AnsweredOps
    Seeds <- PublicSeeds
    Global = TRUE
PROPERTIES
    EveryRequestAnswered
