\* One call; TCB info states its nextUpdate inside tcbInfo.
SPECIFICATION AttSpec
CONSTANTS
    Verifications = {v1}
    FMSPCs = {f1}
    CAs = {processor}
    Docs = {pckCRL, tcbInfo}
    Nested = {tcbInfo}
    NextUpdates <- SomeNextUpdates
    TTL = 2
    MaxTime = 2
    None = None
INVARIANT ExpiryIsNearestNextUpdate
