SPECIFICATION Spec
CONSTANTS
    Req = {r1, r2, r3}
    User = {u1}
    None = None
    Chosen <- MCChosen
    Short <- MCShort
    Original = "old"
    Ops <- OnceOps
SYMMETRY Symmetry
INVARIANTS
    LinkUsedOnce
