CONSTANTS
    AddrBits <- MCAddrBits
    ReadStack <- MCReadStack
    ReadFail = ReadFail
    Rules <- MCRules
    InitialPCs <- MCInitialPCs

SPECIFICATION Spec

INVARIANT TypeOK
INVARIANT CheckedAddSignedCorrect

PROPERTY ErrorLeavesStateUnchanged
PROPERTY StackProgress

\* The walk really stops: at the root, or after an error the caller does
\* not call next() again.
CHECK_DEADLOCK FALSE
