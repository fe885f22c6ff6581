SPECIFICATION LockSpec
CONSTANTS
    Proc = {p1, p2, p3}
    NoOne = NoOne
    LockKinds = {"mandatory", "advisory"}
INVARIANTS LockSafe
PROPERTIES ImplementsLease
