CONSTANTS
    Titles <- MCTitles
    Secrets <- MCSecrets
    Totps <- MCTotps
    Uris <- MCUris
    Times <- MCTimes
    Policies <- MCPolicies
    Ascii = {"a", "b", "c", "mixed"}
    OtherScript = {"beta", "mixed"}
    Forbidden = {"bidi"}
    None = None
SPECIFICATION Spec
INVARIANTS VerifyIsWindow CopiesAgree
CHECK_DEADLOCK FALSE
