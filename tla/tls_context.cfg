SPECIFICATION Spec
CONSTANTS
    c1 = c1
    c2 = c2
    Calls <- MCCalls
    Lists = {"h2", "http1"}
    Names = {"a", "b"}
    None = "empty"
    Torn = "torn"
INVARIANTS
    UsesWhatWasSet
    TornOnlyAfterDrop
