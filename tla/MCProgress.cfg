\* Whole sessions, one request at a time: a known agent that may be revoked or
\* expire and attest again, and an unknown one that enrols.
SPECIFICATION FairSpec
CONSTANTS
    Requests = {r1}
    Agents = {a1, a2}
    Seeded = {a1}
    Genuine = {a1, a2}
    Tokens = {t1, t2}
    Challenges = {h1}
    Components = {c1}
    MaxSeq = 1
    None = None
    Messages <- SessionMessages
INVARIANTS NoUpdateForBarredAgent
PROPERTIES RequestsEnd
