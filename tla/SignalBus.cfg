SPECIFICATION Spec
CONSTANTS
    Threads = {"a", "b", "c"}
    Names = {"n"}
    Types = {"x", "y"}
    None = None
    MaxOps = 4
INVARIANTS
    InStepUnlessOvertaken
PROPERTIES
    NeverReplaced
    OperationsReturn
CHECK_DEADLOCK FALSE
