SPECIFICATION Spec
CONSTANTS
    n1 = n1
    n2 = n2
    a1 = a1
    a2 = a2
    None = None
    Names = {n1}
    Ids = {1, 2}
    Admins = {a1, a2}
    Limits = {1}
    Secrets = {TRUE}
    Faults = TRUE
SYMMETRY Symmetry
INVARIANTS
    ServedAsRecorded
    AwakeRowServed
PROPERTIES
    DeletedForGood
