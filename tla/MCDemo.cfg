\* Demo start-ups that die half way and are repeated on one database, while
\* manifests are registered, agents report, are revoked and expire.
SPECIFICATION DemoSpec
CONSTANTS
    HelloText = hello
    Components = {hello}
    DemoAgent = a0
    TrustedKey = a1
    Agents = {a0, a1}
    Seqs <- SomeSeqs
    None = None
    MaxTime = 1
    MaxRows = 3
    MaxManifests = 4
INVARIANTS RunningHasDemoData RefusedForAReason DemoManifestYields
PROPERTIES LatestNeverGoesBack
