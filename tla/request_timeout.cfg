SPECIFICATION Spec
CONSTANTS
    Requests = {r1}
    Kinds = {"image"}
CHECK_DEADLOCK FALSE
INVARIANTS TimeoutIs504
