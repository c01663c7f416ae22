\* Two unknown keys compete for two challenges in two requests at once.
SPECIFICATION Spec
CONSTANTS
    Requests = {r1, r2}
    Agents = {a1, a2}
    Seeded = {}
    Genuine = {a1, a2}
    Tokens = {t1, t2}
    Challenges = {h1, h2}
    Components = {}
    MaxSeq = 1
    None = None
    Messages <- EnrolMessages
SYMMETRY AgentSymmetry
INVARIANTS EnrolledByFreshAttestation
PROPERTIES RevocationIsFinal
