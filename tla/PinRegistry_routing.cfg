SPECIFICATION Spec
CONSTANTS
    Auths = {a1, a2}
    NoAuth = NoAuth
    Pickers = {p1, p2}
    MaxExecutions = 2
INVARIANTS
    PinnedOnly
    SuccessMeansPinned
    PinsBounded
PROPERTIES
    NoLostSelection
