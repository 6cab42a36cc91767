SPECIFICATION ToolsSpec
CONSTANTS
    Nothing = Nothing
    r1 = r1
    r2 = r2
    c1 = c1
    Runners = {r1, r2}
    Coordinators = {c1}
    Bundles <- MCBundles
    KeyArguments <- MCKeyArguments
    Registries <- MCRegistries
    ConsensusThresholds <- MCConsensusThresholds
    MaxPublications = 3
    MaxEdits = 1
    Runs = 3
    Thresholds <- MCThresholds
    Originals <- MCOriginals
    MaxSource = 1
INVARIANTS CertifiedQuorum SettledRunnersCounted ValidatedVotes RepeatedResultsSound
CHECK_DEADLOCK FALSE
