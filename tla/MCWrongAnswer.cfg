\* A QueryResponse that carries the token of an Update.
SPECIFICATION Spec
CONSTANTS
    Requests = {r1, r2}
    Agents = {a1}
    Seeded = {a1}
    Genuine = {a1}
    Tokens = {t1, t2}
    Challenges = {}
    Components = {c1}
    MaxSeq = 1
    None = None
    Messages <- TokenMessages
SYMMETRY Symmetry
INVARIANTS QueryResponseAnswersQueryRequest
