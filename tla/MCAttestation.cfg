\* EAT evidence and quotes of one platform family with two issuers of the PCK
\* certificate; calls overlap, fail and are lost.  Of the two documents of a
\* collateral the nearer nextUpdate decides, or the lifetime, and an entry is
\* served, expires and is replaced while another call reads it.
SPECIFICATION AttSpec
CONSTANTS
    Verifications = {v1, v2}
    FMSPCs = {f1}
    CAs = {processor, platform}
    Docs = {rootCRL, pckCRL}
    Nested = {}
    NextUpdates <- SomeNextUpdates
    TTL = 2
    MaxTime = 2
    None = None
SYMMETRY Symmetry
INVARIANTS CollateralMatchesQuote CacheIsReadable EvidenceReachesItsVerifier
PROPERTIES CacheServesCurrentCollateral AppraisalIsSound
