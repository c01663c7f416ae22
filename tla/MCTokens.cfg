\* Answers by token: two requests in flight, one agent whose key is known, two
\* components with two manifests each, crashes inside the multi-statement save.
SPECIFICATION Spec
CONSTANTS
    Requests = {r1, r2}
    Agents = {a1}
    Seeded = {a1}
    Genuine = {a1}
    Tokens = {t1, t2}
    Challenges = {}
    Components = {c1, c2}
    MaxSeq = 2
    None = None
    Messages <- RaceMessages
SYMMETRY Symmetry
INVARIANTS TypeOK NonceNamesOneMessage RepliesAreRecorded HoldingsConsistent
PROPERTIES OneTimeNonces
