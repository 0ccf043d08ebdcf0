SPECIFICATION MCSpec
CONSTANTS
    Configs <- SomeConfigs
    Targets <- TheTargets
    EndpointTargets <- TheEndpoints
    OnBox <- OnThisBox
    WithKey <- KeyHolders
    Speakers <- AnthropicSpeakers
    Declared <- DeclaredParams
    Candidates <- TheCandidates
    VirtualNames <- TheVirtuals
    MapOf <- TheMap
    Calls <- TheCalls
\* RouterFront follows one request, and ends with it.
CHECK_DEADLOCK FALSE
INVARIANTS RoutedAlike CatalogHonest UpstreamSees OutcomeTold
