SPECIFICATION FairSpec
CONSTANTS
    Keys = {"a1", "a2"}
    Descriptors = {1, 2}
    SelectedBy <- MCSelectedBy
    WithMetadata = {2}
    RetrieveDependencies <- MCRetrieveDependencies
    MaxKeyCacheSize = 1
    Updates = FALSE
    MaxTxns = 2
INVARIANTS RegistrySound NoneForgotten
PROPERTIES RegistrationReturns EventuallyImplemented
CHECK_DEADLOCK FALSE
