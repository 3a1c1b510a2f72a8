SPECIFICATION Spec
CONSTANTS
    None = None
    Families = {"reports"}
INVARIANT ReviewExitTells
CHECK_DEADLOCK FALSE
