CONSTANTS
    ArgLists <- MCArgLists
    KeyTriples <- MCKeyTriples
SPECIFICATION Spec
INVARIANTS
    RoundTrip
    SignCanonical
CHECK_DEADLOCK FALSE
