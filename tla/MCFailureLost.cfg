\* An Error message with the report of a failure.
SPECIFICATION Spec
CONSTANTS
    Agents = {a1, a2}
    Components = {c1}
    Seqs = {1, 2}
    None = None
    MaxTime = 2
    MaxRows = 2
SYMMETRY Symmetry
INVARIANTS FailuresAreRecorded
