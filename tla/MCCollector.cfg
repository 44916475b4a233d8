CONSTANTS
    None = None
    MaxWord = 31
    Label = {here, there}
    Events <- MCEvents
    MaxEvents = 5
SPECIFICATION Spec
INVARIANT TypeOK
INVARIANT MarksExact
INVARIANT FlatExact
INVARIANT FailsExactly
\* A finished collector is consumed.
CHECK_DEADLOCK FALSE
