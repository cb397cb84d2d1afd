CONSTANTS
    AddrBits <- MCAddrBits
    ReadStack <- MCReadStack
    ReadFail = ReadFail
    Rules <- MCRulesMalformed
    InitialPCs <- MCInitialPCs

SPECIFICATION Spec

INVARIANT NeverPanics

CHECK_DEADLOCK FALSE
