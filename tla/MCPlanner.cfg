CONSTANTS
    Label = {here, there}
    Address = {a1, a2}
    MaxStatements = 4
SYMMETRY Symmetry
SPECIFICATION Spec
INVARIANT TypeOK
INVARIANT TerminalExact
INVARIANT LabelsExact
INVARIANT TargetsExact
PROPERTY LabelIdsStable
\* A finished planner accepts nothing more.
CHECK_DEADLOCK FALSE
