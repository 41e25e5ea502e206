CONSTANTS
    Files = {f1, f2, f3, f4}
    NULL = NULL
SPECIFICATION Spec
INVARIANTS
    ListSound
PROPERTY Refinement
