CONSTANTS
    AddrBits = 7
    ReadStack <- MCReadStack
    ReadFail = ReadFail
    WordBits = 24
    InstructionAnalysis <- MCInstructionAnalysis

SPECIFICATION Spec

INVARIANT TypeOK
INVARIANT CompactRuleRecoversCaller

\* A single call: the state after it has no successor.
CHECK_DEADLOCK FALSE
