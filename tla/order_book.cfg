CONSTANTS
    Ids = {i1, i2, i3}
    Terms = {t1, t2}
    None = None
    Reports <- MCReports
    MaxMessages = 4
SYMMETRY Symmetry
SPECIFICATION Spec
INVARIANT TypeOK
INVARIANT BookIsKeyed
INVARIANT ReplacementChainsEnd
INVARIANT RejectionLeavesNoTrace
PROPERTY NothingOverwritten
CHECK_DEADLOCK FALSE
