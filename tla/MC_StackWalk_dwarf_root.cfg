CONSTANTS
    uA = uA
    uB = uB
    ReadFail = ReadFail
    NoSection = NoSection
    NoFde = NoFde
    Slots = 3
    GenBits = 3
    MaxMutations = 2
    RootUsesDwarf = TRUE

SPECIFICATION Spec

PROPERTY ErrorLeavesIteratorUnchanged
