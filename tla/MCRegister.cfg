\* Two uploads at a time, two trusted keys and one that is not.
SPECIFICATION Spec
CONSTANTS
    Uploads = {u1, u2}
    Keys = {k1, k2, k3}
    Trusted = {k1, k2}
    Components = {c1}
    SeqLimit = 3
    MaxRows = 3
    None = None
SYMMETRY Symmetry
INVARIANTS TypeOK NoDowngradeAfterRegistration OwnerContinues
