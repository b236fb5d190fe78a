SPECIFICATION Spec
CONSTANTS
    f1 = f1
    f2 = f2
    q1 = q1
    Case = {f1, f2}
    Cleaner = {q1}
    NoCase = NoCase
    MaxFailures = 2
INVARIANTS
    StoredAsTold
PROPERTIES
    ImplementsLog
CHECK_DEADLOCK FALSE
