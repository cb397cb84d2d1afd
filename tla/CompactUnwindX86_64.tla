------------------------- MODULE CompactUnwindX86_64 -------------------------
(***************************************************************************)
(* The x86-64 Compact Unwind Info adapter (src/x86_64/macho.rs): from the  *)
(* decoded opcode of the function holding the address, whether this is the *)
(* first frame, the pc's offset in the function and the function's bytes   *)
(* (if the module has its text), the rule to execute, an FDE to hand to    *)
(* the DWARF unwinder, or an adapter error.  Opcode decoding and           *)
(* instruction analysis are outside this code: the decoded opcode is an    *)
(* input and the analysis is the constant InstructionAnalysis.             *)
(***************************************************************************)
EXTENDS UnwindRuleX86_64, Sequences, SequencesExt

CONSTANTS
    WordBits,                  \* width of u32 (32 in the code); u16, i16 and a
                               \*   byte are a half, a half and a quarter of it
    InstructionAnalysis(_, _)  \* rule_from_instruction_analysis: (bytes, offset)
                               \*   -> a rule, or NoRule outside prologues/epilogues

ASSUME WordBits \in {8, 12, 16, 20, 24, 28, 32}

NoRule == [kind |-> "NoRule"]

(***************************************************************************)
(* Decoded opcodes (OpcodeX86_64).  saved_regs has six slots, NoReg where  *)
(* no register is saved.                                                   *)
(***************************************************************************)
NoReg == "None"
Null == [kind |-> "Null"]
FramelessImmediate(size, regs) ==
    [kind |-> "FramelessImmediate", stack_size_in_bytes |-> size, saved_regs |-> regs]
FramelessIndirect(off, adjust, regs) ==
    [kind |-> "FramelessIndirect", immediate_offset_from_function_start |-> off,
     stack_adjust_in_bytes |-> adjust, saved_regs |-> regs]
Dwarf(fde) == [kind |-> "Dwarf", eh_frame_fde |-> fde]
FrameBased == [kind |-> "FrameBased"]
UnrecognizedKind(k) == [kind |-> "UnrecognizedKind", k |-> k]
InvalidFrameless == [kind |-> "InvalidFrameless"]

\* function_bytes: Option<&[u8]>
SomeBytes(b) == [present |-> TRUE, bytes |-> b]
NoBytes == [present |-> FALSE, bytes |-> <<>>]

\* CuiUnwindResult and CompactUnwindInfoUnwinderError
ExecRule(r) == [tag |-> "ExecRule", rule |-> r]
NeedDwarf(fde) == [tag |-> "NeedDwarf", fde |-> fde]
CuiErr(e) == [tag |-> "CuiErr", err |-> e]

(***************************************************************************)
(* Integer conversions of the code, at WordBits for 32.                     *)
(***************************************************************************)
ByteMod == 2 ^ (WordBits \div 4)
U16Max == 2 ^ (WordBits \div 2) - 1
U32Max == 2 ^ WordBits - 1
I16 == -(2 ^ (WordBits \div 2 - 1)) .. (2 ^ (WordBits \div 2 - 1) - 1)
\* `x as i32` for a u32 x: two's complement reinterpretation.
AsI32(x) == ((x + 2 ^ (WordBits - 1)) % 2 ^ WordBits) - 2 ^ (WordBits - 1)
\* Rust's `/` on signed integers rounds toward zero.
DivTrunc(a, b) == IF a >= 0 THEN a \div b ELSE -((-a) \div b)
\* u32::from_le_bytes of bytes[off .. off + 4] (0-based offset).
LeU32(bytes, off) ==
    bytes[off + 1] + ByteMod * bytes[off + 2] + ByteMod ^ 2 * bytes[off + 3]
        + ByteMod ^ 3 * bytes[off + 4]

NoPosition == -1

\* Mutant: the position counted from the innermost saved register.
bp_positon_from_inside(saved) ==
    LET s == SelectSeq(saved, LAMBDA r : r # NoReg)
        at == {i \in 1 .. Len(s) : s[i] = "Rbp"}
    IN IF at = {} THEN NoPosition ELSE Min(at) - 1

\* saved_regs.iter().rev().flatten().position(|r| *r == Rbp): the 0-based
\* position of bp among the saved registers, counted from the outermost
\* (pushed first, nearest the return address).
bp_positon_from_outside(saved) ==
    LET s == SelectSeq(Reverse(saved), LAMBDA r : r # NoReg)
        at == {i \in 1 .. Len(s) : s[i] = "Rbp"}
    IN IF at = {} THEN NoPosition ELSE Min(at) - 1

\* Mutant: the i16::try_from check on the bp slot dropped.
RuleFromSavedRegs_NoFitCheck(stack_size, n, saved) ==
    LET pos == bp_positon_from_outside(saved) IN
    IF pos = NoPosition THEN ExecRule(OffsetSp(n))
    ELSE ExecRule(OffsetSpAndRestoreBp(n, DivTrunc(AsI32(stack_size) - 2 * 8 - pos * 8, 8)))

\* The tail shared by both frameless arms: bp, if saved, sits 16 + 8*pos
\* bytes below the top of the frame; its slot in words must fit an i16.
RuleFromSavedRegs(stack_size, n, saved) ==
    LET pos == bp_positon_from_outside(saved)
        k == DivTrunc(AsI32(stack_size) - 2 * 8 - pos * 8, 8)
    IN
    IF pos = NoPosition THEN ExecRule(OffsetSp(n))
    ELSE IF k \notin I16 THEN CuiErr("BpOffsetDoesNotFit")
    ELSE ExecRule(OffsetSpAndRestoreBp(n, k))

\* FramelessImmediate: the stack size is in the opcode.
FramelessImmediateRule(op) ==
    IF op.stack_size_in_bytes = 8 THEN ExecRule(JustReturn)
    ELSE RuleFromSavedRegs(op.stack_size_in_bytes, op.stack_size_in_bytes \div 8, op.saved_regs)

\* FramelessIndirect: the stack size is the imm32 of the function's
\* `sub rsp, imm32`, read from its bytes, plus the opcode's adjustment.
FramelessIndirectRule(op, fbytes) ==
    LET off == op.immediate_offset_from_function_start
        size == LeU32(fbytes.bytes, off) + op.stack_adjust_in_bytes
    IN
    IF ~fbytes.present THEN CuiErr("NoTextBytesToLookUpIndirectStackOffset")
    ELSE IF off + 4 > Len(fbytes.bytes) THEN CuiErr("IndirectStackOffsetOutOfBounds")
    ELSE IF size > U32Max THEN CuiErr("StackAdjustOverflow")
    ELSE IF size \div 8 > U16Max THEN CuiErr("StackSizeDoesNotFit")
    ELSE RuleFromSavedRegs(size, size \div 8, op.saved_regs)

\* The opcode describes the function body.
BodyRule(op, fbytes) ==
    CASE op.kind = "Null" -> CuiErr("FunctionHasNoInfo")
      [] op.kind = "FramelessImmediate" -> FramelessImmediateRule(op)
      [] op.kind = "FramelessIndirect" -> FramelessIndirectRule(op, fbytes)
      [] op.kind = "Dwarf" -> NeedDwarf(op.eh_frame_fde)
      [] op.kind = "FrameBased" -> ExecRule(UseFramePointer)
      [] op.kind = "UnrecognizedKind" -> CuiErr("BadOpcodeKind")
      [] op.kind = "InvalidFrameless" -> CuiErr("InvalidFrameless")

\* `push rbp; mov rbp, rsp`
FramePointerPrologue == <<85, 72, 137, 229>>

StartsWithFramePointerPrologue(b) ==
    Len(b) >= 4 /\ SubSeq(b, 1, 4) = FramePointerPrologue

\* CompactUnwindInfoUnwinding::unwind_frame.  On the first frame the pc
\* may be in a prologue or an epilogue, which the opcode does not describe.
unwind_frame(opcode, is_first_frame, offset, fbytes) ==
    LET analysed == IF fbytes.present THEN InstructionAnalysis(fbytes.bytes, offset) ELSE NoRule IN
    CASE is_first_frame /\ analysed # NoRule -> ExecRule(analysed)
      [] is_first_frame /\ fbytes.present /\ opcode = Null
            /\ StartsWithFramePointerPrologue(fbytes.bytes) -> ExecRule(UseFramePointer)
      [] is_first_frame /\ opcode = Null -> ExecRule(JustReturn)
      [] OTHER -> BodyRule(opcode, fbytes)

=============================================================================
