CONSTANTS
    AddrBits = 9
    ReadStack <- MCReadStack
    ReadFail = ReadFail
    WordBits = 8
    InstructionAnalysis <- MCInstructionAnalysis
    NoSection = NoSection
    NoFde = NoFde
    TryNewIndex <- MCTryNewIndex
    IndexFde <- MCIndexFde
    HdrFde <- MCHdrFde
    CuiLookup <- MCCuiLookup
    DwarfUnwind <- MCDwarfUnwind

SPECIFICATION Spec

INVARIANT ResultMatchesSpec

\* A single call: the state after it has no successor.
CHECK_DEADLOCK FALSE
