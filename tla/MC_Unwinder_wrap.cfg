CONSTANTS
    u1 = u1
    u2 = u2
    Unwinders <- MCUnwinders
    Modules <- MCModules
    UnwindData <- MCUnwindData
    PCs <- MCPCs
    RAs <- MCRAs
    Slots = 3
    GenBits = 2
    RelBits = 3
    MaxMutations = 3
    fallback_rule <- MCFallbackRule

SPECIFICATION Spec

INVARIANT CacheHitsAreFresh
