----------------------------- MODULE MC_StackWalk -----------------------------
(***************************************************************************)
(* Two profiled processes, A and B, one unwinder each, sharing the rule    *)
(* cache.  Each has a Mach-O module at avma [16, 64) with base 16 and      *)
(* base_svma 0 (compact unwind info, __eh_frame, text), but the code in it *)
(* differs, so the same address needs different rules in the two.          *)
(*                                                                         *)
(* A:  start [16, 32): push rbp; mov rbp, rsp (body at 20); call f ends at *)
(*                     31 -- the root, FrameBased (or, with RootUsesDwarf, *)
(*                     a DWARF FDE the evaluator unwinds in place);        *)
(*     f [32, 48):     push rbx; sub rsp, 8 (body at 37); call g ends at 47 *)
(*                     -- FramelessImmediate, 24 bytes, rbx saved;         *)
(*     g [48, 64):     sub rsp, 8 (body at 52) -- a DWARF FDE: OffsetSp(2). *)
(*     Stack from 96 down: [96] = 0 (start's return address), [88] = 0     *)
(*     (saved bp), [80] = 32, [72] = rbx, [64] = local, [56] = 48,         *)
(*     [48] = local.                                                       *)
(* B:  main [16, 40): push rbp; mov rbp, rsp (body from 20); call k ends at *)
(*                    39 -- the root, FrameBased;                          *)
(*     k [40, 64):    push rbx; push r12; sub rsp, 8 (body from 46) --     *)
(*                    FramelessImmediate, 32 bytes, rbx and r12 saved.     *)
(*     Stack from 200 down: [200] = 0, [192] = 0 (saved bp), [184] = 40,   *)
(*     [176] = rbx, [168] = r12, [160] = local.                            *)
(* Every call is its function's last instruction, so a return address is   *)
(* the start of the next function.  Samples are taken at function entries  *)
(* and bodies; pcs 16, 37 and 52 are sampled in both processes, where 37   *)
(* and 52 need different rules (37: f's frameless rule or main's frame     *)
(* pointer; 52: g's OffsetSp(2) or k's OffsetSp(4)).  u64 and u32 are 8    *)
(* bits.                                                                   *)
(***************************************************************************)
EXTENDS Integers, Sequences, TLC

CONSTANTS uA, uB, ReadFail, NoSection, NoFde, Slots, GenBits, MaxMutations,
          RootUsesDwarf

VARIABLES created, modules, modulesGen, globalGen, cache, mutations, answer,
          walker, state, regs, out, yielded

MCUnwinders == {uA, uB}

Stack == (48 :> 5) @@ (56 :> 48) @@ (64 :> 7) @@ (72 :> 11) @@ (80 :> 32)
         @@ (88 :> 0) @@ (96 :> 0)
         @@ (160 :> 9) @@ (168 :> 12) @@ (176 :> 11) @@ (184 :> 40) @@ (192 :> 0)
         @@ (200 :> 0)
MCReadStack(a) == IF a \in DOMAIN Stack THEN Stack[a] ELSE ReadFail

R == INSTANCE UnwindRuleX86_64 WITH AddrBits <- 8, ReadStack <- MCReadStack

\* Only a function's first instruction is outside the body the opcode
\* describes (NoRule of CompactUnwindX86_64 elsewhere).
MCInstructionAnalysis(b, off) == IF off = 0 THEN R!JustReturn ELSE [kind |-> "NoRule"]

W == INSTANCE CompactUnwindX86_64 WITH AddrBits <- 8, WordBits <- 8,
         ReadStack <- MCReadStack, InstructionAnalysis <- MCInstructionAnalysis

SI(ui) == [base_svma |-> 0, unwind_info |-> ui, macho_eh_frame |-> "EhFrame", eh_frame |-> NoSection,
           eh_frame_hdr |-> NoSection, debug_frame |-> NoSection, stubs |-> NoSection,
           stub_helper |-> NoSection, text |-> [start |-> 0]]
MCModuleArgs(u) == {[start |-> 16, end |-> 64, base |-> 16,
                     si |-> SI(IF u = uA THEN "UnwindInfoA" ELSE "UnwindInfoB")]}

Saved(rs) == rs \o [i \in 1 .. (6 - Len(rs)) |-> W!NoReg]

\* The __unwind_info entry for a relative address: [opcode, offset, bytes].
Entry(op, fstart, rel) == [opcode |-> op, offset |-> rel - fstart,
                           bytes |-> W!SomeBytes(<<0, 0, 0, 0>>)]
MCCuiLookup(ui, rel) ==
    IF ui = "UnwindInfoA"
    THEN CASE rel < 16 -> Entry(IF RootUsesDwarf THEN W!Dwarf(2) ELSE W!FrameBased, 0, rel)
           [] rel < 32 -> Entry(W!FramelessImmediate(24, Saved(<<"Rbx">>)), 16, rel)
           [] OTHER -> Entry(W!Dwarf(1), 32, rel)
    ELSE IF rel < 24 THEN Entry(W!FrameBased, 0, rel)
    ELSE Entry(W!FramelessImmediate(32, Saved(<<"Rbx", "R12">>)), 24, rel)
MCTryNewIndex(s) == TRUE
MCIndexFde(s, r) == NoFde
MCHdrFde(h, r) == NoFde
MCDwarfUnwind(s, fde, r, f) ==
    IF fde = 1 THEN W!ExecRule(R!OffsetSp(2)) ELSE [tag |-> "Uncacheable"]
\* start's CFI (CFA = bp + 16, bp at CFA - 16, ra at CFA - 8), evaluated in
\* place: the registers are set to the caller's and the return address
\* returned, whatever it is.
MCDwarfInPlace(la, r) ==
    R!Outcome(R!OkSome(MCReadStack(r.bp + 8)),
              [ip |-> MCReadStack(r.bp + 8), sp |-> r.bp + 16, bp |-> MCReadStack(r.bp)])

MCSamplePCs(u) == IF u = uA THEN {16, 20, 32, 37, 48, 52} ELSE {16, 37, 40, 52}
MCRAs == {32, 48, 40}
MCSampleRegs(u, pc) ==
    IF u = uA
    THEN [ip |-> pc, bp |-> IF pc = 16 THEN 0 ELSE 88,
          sp |-> CASE pc = 16 -> 96 [] pc = 20 -> 88 [] pc = 32 -> 80
                   [] pc = 37 -> 64 [] pc = 48 -> 56 [] pc = 52 -> 48]
    ELSE [ip |-> pc, bp |-> IF pc = 16 THEN 0 ELSE 192,
          sp |-> CASE pc = 16 -> 200 [] pc = 37 -> 192 [] pc = 40 -> 184 [] pc = 52 -> 160]

IP(a) == [kind |-> "ip", addr |-> a]
RA(a) == [kind |-> "ra", addr |-> a]
MCCallChain(u, pc) ==
    IF u = uA
    THEN CASE pc < 32 -> <<IP(pc)>>
           [] pc < 48 -> <<IP(pc), RA(32)>>
           [] OTHER -> <<IP(pc), RA(48), RA(32)>>
    ELSE IF pc < 40 THEN <<IP(pc)>> ELSE <<IP(pc), RA(40)>>

INSTANCE StackWalk WITH AddrBits <- 8, WordBits <- 8, ReadStack <- MCReadStack,
    InstructionAnalysis <- MCInstructionAnalysis, TryNewIndex <- MCTryNewIndex,
    IndexFde <- MCIndexFde, HdrFde <- MCHdrFde, CuiLookup <- MCCuiLookup,
    DwarfUnwind <- MCDwarfUnwind, DwarfInPlace <- MCDwarfInPlace,
    Unwinders <- MCUnwinders, ModuleArgs <- MCModuleArgs, SamplePCs <- MCSamplePCs,
    RAs <- MCRAs, SampleRegs <- MCSampleRegs, CallChain <- MCCallChain, RelBits <- 6

=============================================================================
