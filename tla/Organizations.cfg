SPECIFICATION Spec
CONSTANTS
    Req = {r1, r2, r3}
    Name = {"Default Organization", "Acme", "A", "B"}
    Namespace <- MCNamespace
    Malformed = {"a-b"}
    Schema = {"public", "acme", "long", "a-b"}
    SchemaOf <- MCSchemaOf
    Public = "public"
    Default = "o1"
    Seeds = {"o1", "o2"}
    Founded <- MCFounded
    Settled <- MCSettled
    Ops <- MCOps
    None = None
SYMMETRY Symmetry
CONSTRAINT Scenario
INVARIANTS
    TypeOK
    SchemasAreNotShared
    CreatedMeansCreated
    OldKeysOpenNothing
    LastRotationIsInForce
    KeysStayInTheirNamespace
