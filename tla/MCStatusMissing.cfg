\* Two agents hold the same component.
SPECIFICATION Spec
CONSTANTS
    Agents = {a1, a2}
    Components = {c1}
    Seqs = {1, 2}
    None = None
    MaxTime = 2
    MaxRows = 3
SYMMETRY Symmetry
INVARIANTS StatusShowsEveryHolding
