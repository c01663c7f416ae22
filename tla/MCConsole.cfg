\* Overlapping page requests while two agents enrol and report.
SPECIFICATION ConsoleSpec
CONSTANTS
    Agents = {a1, a2}
    Components = {c1}
    Seqs = {1, 2}
    None = None
    MaxTime = 1
    MaxRows = 2
    Pages = {p1, p2}
SYMMETRY Symmetry
INVARIANTS StatusShowsLastReport NewestReporterIsShown PageIsRecent PageHasKnownAgents
