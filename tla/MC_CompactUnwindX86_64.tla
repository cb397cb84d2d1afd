----------------------- MODULE MC_CompactUnwindX86_64 -----------------------
(***************************************************************************)
(* The compact unwind adapter checked against the prologues its opcodes    *)
(* describe.  A prologue pushes some callee-saved registers (after `push   *)
(* rbp; mov rbp, rsp` for a frame-based one) and reserves some words of    *)
(* locals; it is encoded as the linker does (frameless immediate, frameless*)
(* indirect with a `sub rsp, imm32` in the text, frame-based, or no info   *)
(* with the frame-pointer prologue bytes), the stack it builds under the   *)
(* caller's sp is laid out, and the rule the adapter returns is executed   *)
(* by exec on that stack.  Opcodes no prologue yields (DWARF, bad kinds,   *)
(* unreadable or oversized stack sizes) are inputs too.  One step          *)
(* evaluates the call.  WordBits is 24: u16 and i16 are 12 bits, a byte 6. *)
(***************************************************************************)
EXTENDS CompactUnwindX86_64

VARIABLES prologue, opcode, first, offset, fbytes, result

vars == <<prologue, opcode, first, offset, fbytes, result>>

Pending == [tag |-> "Pending"]

\* The function's caller: its sp, bp, return address and saved registers.
CallerSp == 64
CallerBp == 100
CallerRa == 77
RegValue(r) == CASE r = "Rbp" -> CallerBp [] r = "Rbx" -> 11 [] r = "R12" -> 12
\* A body that saved bp may use it as a general register.
ClobberedBp == 5

(***************************************************************************)
(* Prologues and their encodings.                                          *)
(***************************************************************************)
PushOrders(regs) ==
    {<<>>} \cup {<<r>> : r \in regs} \cup {<<r, s>> \in regs \X regs : r # s}
Frameless == [kind : {"frameless_imm", "frameless_ind"},
              pushes : PushOrders({"Rbx", "Rbp", "R12"}), locals : 0 .. 2]
Framed == [kind : {"frame", "null_fp"}, pushes : PushOrders({"Rbx", "R12"}), locals : 0 .. 1]
Prologues == Frameless \cup Framed
NoPrologue == [kind |-> "none"]

\* Every register stored below the return address, outermost first.
AllPushes(p) == IF p.kind \in {"frame", "null_fp"} THEN <<"Rbp">> \o p.pushes ELSE p.pushes
FrameSize(p) == 8 + 8 * Len(AllPushes(p)) + 8 * p.locals

\* saved_regs as the opcode lists them: innermost first, then empty slots.
SavedRegsArray(pushes) == Reverse(pushes) \o [i \in 1 .. (6 - Len(pushes)) |-> NoReg]
LE32(x) == [i \in 1 .. 4 |-> (x \div ByteMod ^ (i - 1)) % ByteMod]
\* `sub rsp, imm32` with its immediate at offset 3.
SubRsp(imm) == <<72, 129, 236>> \o LE32(imm)
PlainBody == <<83, 72, 131, 236>>

EncodedOpcode(p) ==
    CASE p.kind = "frameless_imm" -> FramelessImmediate(FrameSize(p), SavedRegsArray(p.pushes))
      [] p.kind = "frameless_ind" ->
            FramelessIndirect(3, 8 + 8 * Len(p.pushes), SavedRegsArray(p.pushes))
      [] p.kind = "frame" -> FrameBased
      [] p.kind = "null_fp" -> Null

EncodedBytes(p) ==
    CASE p.kind = "frameless_imm" -> SomeBytes(PlainBody)
      [] p.kind = "frameless_ind" -> SomeBytes(SubRsp(8 * p.locals))
      [] OTHER -> SomeBytes(FramePointerPrologue \o PlainBody)

\* Opcodes no well-formed prologue yields, with the bytes they come with.
BpSaved == SavedRegsArray(<<"Rbp">>)
OtherInputs ==
    {[op |-> Null, b |-> SomeBytes(PlainBody)], [op |-> Null, b |-> NoBytes],
     [op |-> Dwarf(40), b |-> NoBytes], [op |-> UnrecognizedKind(6), b |-> NoBytes],
     [op |-> InvalidFrameless, b |-> NoBytes],
     [op |-> FramelessIndirect(3, 16, BpSaved), b |-> NoBytes],
     [op |-> FramelessIndirect(3, 16, BpSaved), b |-> SomeBytes(<<72, 129, 236, 1>>)],
     \* 20000 bytes: the bp slot, 2498 words up, does not fit the 12-bit i16
     [op |-> FramelessIndirect(3, 16, BpSaved), b |-> SomeBytes(SubRsp(20000))],
     \* 40000 bytes: 5002 words do not fit the 12-bit u16
     [op |-> FramelessIndirect(3, 16, SavedRegsArray(<<>>)), b |-> SomeBytes(SubRsp(40000))],
     [op |-> FramelessIndirect(3, 16, SavedRegsArray(<<>>)), b |-> SomeBytes(SubRsp(U32Max - 8))]}

(***************************************************************************)
(* The stack the prologue built and the registers in the function body.    *)
(***************************************************************************)
StackOf(p) ==
    LET regs == AllPushes(p) IN
    [a \in {CallerSp - 8} \cup {CallerSp - 16 - 8 * j : j \in 0 .. (Len(regs) - 1)} |->
        IF a = CallerSp - 8 THEN CallerRa ELSE RegValue(regs[(CallerSp - 16 - a) \div 8 + 1])]

BodyRegs(p) ==
    [ip |-> 3, sp |-> CallerSp - FrameSize(p),
     bp |-> CASE p.kind \in {"frame", "null_fp"} -> CallerSp - 16
              [] "Rbp" \in Range(p.pushes) -> ClobberedBp
              [] OTHER -> CallerBp]

Sim(mem) == INSTANCE UnwindRuleX86_64
                WITH ReadStack <- LAMBDA a : IF a \in DOMAIN mem THEN mem[a] ELSE ReadFail

MCReadStack(a) == ReadFail

MCInstructionAnalysis(b, off) == IF off = 0 THEN rule_for_function_start ELSE NoRule

Init ==
    /\ \/ /\ prologue \in Prologues
          /\ opcode = EncodedOpcode(prologue)
          /\ fbytes = EncodedBytes(prologue)
       \/ /\ prologue = NoPrologue
          /\ \E i \in OtherInputs : opcode = i.op /\ fbytes = i.b
    /\ first \in BOOLEAN
    /\ offset \in {0, 8}
    /\ result = Pending

Evaluate ==
    /\ result = Pending
    /\ result' = unwind_frame(opcode, first, offset, fbytes)
    /\ UNCHANGED <<prologue, opcode, first, offset, fbytes>>

Spec == Init /\ [][Evaluate]_vars

(***************************************************************************)
(* Properties                                                              *)
(***************************************************************************)
RuleSet == {JustReturn, UseFramePointer} \cup [kind : {"OffsetSp"}, n : 0 .. U16Max]
           \cup [kind : {"OffsetSpAndRestoreBp"}, n : 0 .. U16Max, k : I16]
CuiErrors == {"FunctionHasNoInfo", "BadOpcodeKind", "InvalidFrameless", "BpOffsetDoesNotFit",
              "StackAdjustOverflow", "StackSizeDoesNotFit", "IndirectStackOffsetOutOfBounds",
              "NoTextBytesToLookUpIndirectStackOffset"}

TypeOK ==
    result \in {Pending} \cup [tag : {"ExecRule"}, rule : RuleSet]
               \cup [tag : {"NeedDwarf"}, fde : Nat] \cup [tag : {"CuiErr"}, err : CuiErrors]

\* The pc is in the function body, where the opcode applies: past the
\* entry, and for a function without info only on the first frame, where
\* the frame-pointer prologue bytes are consulted.
InBody == offset > 0 /\ (prologue.kind = "null_fp" => first)

\* For every prologue the compact unwind format describes, the adapter
\* returns a rule (never an error) whose execution on the stack the
\* prologue built returns the caller's return address and restores the
\* caller's sp and bp exactly: the stack size, the position of bp among
\* the saved registers counted from the outermost, the bytes of the
\* indirect `sub` and the frame-pointer prologue detection all agree.
CompactRuleRecoversCaller ==
    (result # Pending /\ prologue # NoPrologue /\ InBody) =>
        /\ result.tag = "ExecRule"
        /\ Sim(StackOf(prologue))!exec(result.rule, BodyRegs(prologue))
             = {Outcome(OkSome(CallerRa), [ip |-> CallerRa, sp |-> CallerSp, bp |-> CallerBp])}

=============================================================================
