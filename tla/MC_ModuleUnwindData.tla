------------------------ MODULE MC_ModuleUnwindData ------------------------
(***************************************************************************)
(* Every object file of the sections below: Mach-O (__unwind_info,        *)
(* __eh_frame, __stubs, __stub_helper, __TEXT, __text) and ELF (.text,     *)
(* .eh_frame, .eh_frame_hdr, .debug_frame), with lookups of relative       *)
(* addresses in and out of the stubs, on first and later frames.  One step *)
(* evaluates unwind_frame_impl on the module data new() built from the     *)
(* object's section info.  u64 is 9 bits and u32 8 bits.                   *)
(***************************************************************************)
EXTENDS ModuleUnwindData

VARIABLES obj, rel, first, result

vars == <<obj, rel, first, result>>

Pending == [tag |-> "Pending"]

Sec(address, size, file_start, data) ==
    [address |-> address, size |-> size, file_start |-> file_start, data |-> data]

\* An object file with the given sections (NoSection: absent) and __TEXT.
Obj(ts, named) ==
    LET present == {p \in named : p[2] # NoSection} IN
    [text_segment |-> ts, relative_address_base |-> 0,
     sections |-> [n \in {p[1] : p \in present} |-> (CHOOSE p \in present : p[1] = n)[2]]]

\* Mach-O and ELF sections in every combination: __TEXT at vmaddr 0 or 16
\* with its file range within u32 or beyond it; stubs inside __TEXT for
\* both bases, below base 16, and 268 - 0 beyond u32; __text with a file
\* range within u32, beyond it, or none, and .text behind it; .eh_frame and
\* .debug_frame whose index builds or not.
Objects ==
    {Obj(ts, {<<"__unwind_info", ui>>, <<"__eh_frame", ehm>>, <<"__stubs", st>>,
              <<"__stub_helper", sh>>, <<"__text", tx>>, <<".text", dtx>>,
              <<".eh_frame", eh>>, <<".eh_frame_hdr", hdr>>,
              <<".debug_frame", dbg>>}) :
        ts \in {NoSection, [address |-> 0, file_start |-> 0, data |-> "Text"],
               [address |-> 16, file_start |-> 0, data |-> "Text"],
               [address |-> 16, file_start |-> 300, data |-> "Text"]},
        ui \in {NoSection, Sec(0, 0, 0, "UnwindInfo")},
        ehm \in {NoSection, Sec(0, 0, 0, "EhFrameOk")},
        st \in {NoSection, Sec(20, 4, 0, "Stubs"), Sec(8, 4, 0, "Stubs"), Sec(268, 4, 0, "Stubs")},
        sh \in {NoSection, Sec(24, 4, 0, "StubHelper")},
        tx \in {NoSection, Sec(0, 0, 0, "Text"), Sec(0, 0, 300, "Text"), Sec(0, 0, NoSection, "Text")},
        dtx \in {NoSection, Sec(0, 0, 0, "Text")},
        eh \in {NoSection, Sec(0, 0, 0, "EhFrameOk"), Sec(0, 0, 0, "EhFrameBad")},
        hdr \in {NoSection, Sec(0, 0, 0, "EhFrameHdr")},
        dbg \in {NoSection, Sec(0, 0, 0, "DebugFrameOk"), Sec(0, 0, 0, "DebugFrameBad")}}

\* Relative addresses: in the stubs for base 16 (4) and base 0 (22), in
\* the truncated range of the far stubs (12), and elsewhere (30).
Rels == {4, 12, 22, 30}

\* The formats' parsers.  The unwind info describes a frame-based function
\* below 10, a function needing DWARF below 20, and a function without
\* info (starting with the frame-pointer prologue) above.
PlainBody == <<83, 72, 131, 236>>
MCCuiLookup(ui, r) ==
    CASE r < 10 -> [opcode |-> FrameBased, offset |-> r % 4, bytes |-> SomeBytes(PlainBody)]
      [] r < 20 -> [opcode |-> Dwarf(1), offset |-> 2, bytes |-> SomeBytes(PlainBody)]
      [] OTHER -> [opcode |-> Null, offset |-> r % 4, bytes |-> SomeBytes(FramePointerPrologue)]
MCInstructionAnalysis(b, off) == IF off = 0 THEN rule_for_function_start ELSE NoRule
MCTryNewIndex(s) == s \in {"EhFrameOk", "DebugFrameOk"}
MCHdrFde(hdr, r) == IF r < 20 THEN 1 ELSE NoFde
MCIndexFde(s, r) == IF s = "EhFrameOk" THEN (IF r < 10 THEN 2 ELSE 3) ELSE 1
MCDwarfUnwind(s, fde, r, f) ==
    CASE fde = 1 -> ExecRule(OffsetSp(2)) [] fde = 2 -> UncacheableResult [] OTHER -> DwarfErr
MCReadStack(a) == ReadFail

Init ==
    /\ obj \in Objects
    /\ rel \in Rels
    /\ first \in BOOLEAN
    /\ result = Pending

Evaluate ==
    /\ result = Pending
    /\ LET si == SectionInfo(obj) IN
       result' \in unwind_frame_impl(ModuleUnwindDataInternal_new(si), si.base_svma, rel, first)
    /\ UNCHANGED <<obj, rel, first>>

Spec == Init /\ [][Evaluate]_vars

(***************************************************************************)
(* Properties                                                              *)
(***************************************************************************)
\* The object as the spec reads it (spec 2, 5): a section's data by name,
\* base_svma the vmaddr of __TEXT for Mach-O and 0 for ELF, and text bytes
\* from __TEXT or a __text/.text section with a file range.
Data(o, n) == IF n \in DOMAIN o.sections THEN o.sections[n].data ELSE NoSection
Base(o) == IF o.text_segment # NoSection THEN o.text_segment.address ELSE 0
SvmaRange(o, n) == [start |-> o.sections[n].address, end |-> o.sections[n].address + o.sections[n].size]
TextStarts(o) ==
    {o.text_segment.file_start : x \in {o.text_segment} \ {NoSection}} \cup
    {o.sections[n].file_start : n \in {n \in DOMAIN o.sections \cap {"__text", ".text"} :
                                         Data(o, n) # NoSection /\ o.sections[n].file_start # NoSection}}

\* A module as a linker lays it out: stubs and stub_helper inside the
\* image, at or above base_svma and within 4 GiB of it, and text whose
\* file range starts within u32.
WellFormed(o) ==
    /\ \A n \in DOMAIN o.sections \cap {"__stubs", "__stub_helper"} :
          Base(o) <= SvmaRange(o, n).start /\ SvmaRange(o, n).end - Base(o) <= U32Max + 1
    /\ \A t \in TextStarts(o) : t <= U32Max

\* The rule the spec gives for relative address r (spec 3, 4.3, 4.4, 4.6):
\* the first format present in priority order (an index that cannot be
\* built leaves no data), the stub rule for an address whose svma is in
\* the stubs section, the fallback for every failure.  Mach-O's __eh_frame
\* serves compact unwind info; ELF's .eh_frame the other formats.
SpecRule(o, r, f) ==
    LET svma == r + Base(o)
        e == CuiLookup(Data(o, "__unwind_info"), r)
        cui == unwind_frame(e.opcode, f, e.offset, IF TextStarts(o) # {} THEN e.bytes ELSE NoBytes)
        Dw(sec, fde) ==
            IF fde = NoFde \/ DwarfUnwind(sec, fde, r, f) = DwarfErr THEN fallback_rule
            ELSE WithCacheRule(DwarfUnwind(sec, fde, r, f))
        eh == Data(o, ".eh_frame")
        dbg == Data(o, ".debug_frame")
    IN
    CASE Data(o, "__unwind_info") # NoSection ->
            (CASE "__stubs" \in DOMAIN o.sections /\ SvmaRange(o, "__stubs").start <= svma
                      /\ svma < SvmaRange(o, "__stubs").end -> rule_for_stub_functions
               [] cui.tag = "ExecRule" -> cui.rule
               [] cui.tag = "NeedDwarf" /\ Data(o, "__eh_frame") # NoSection ->
                     Dw(Data(o, "__eh_frame"), cui.fde)
               [] OTHER -> fallback_rule)
      [] eh # NoSection /\ Data(o, ".eh_frame_hdr") # NoSection ->
            Dw(eh, HdrFde(Data(o, ".eh_frame_hdr"), r))
      [] eh # NoSection -> IF TryNewIndex(eh) THEN Dw(eh, IndexFde(eh, r)) ELSE fallback_rule
      [] dbg # NoSection /\ TryNewIndex(dbg) -> Dw(dbg, IndexFde(dbg, r))
      [] OTHER -> fallback_rule

\* For a well-formed module, the variant new() picks and unwind_frame_impl's
\* dispatch on it, seen through with_cache (errors become the fallback
\* rule), give the rule the spec prescribes: the stubs range converted from
\* svma to relative addresses agrees with the module's relative lookup
\* address, text bytes reach instruction analysis, and no panic occurs.
ResultMatchesSpec ==
    (result # Pending /\ WellFormed(obj)) =>
        result # Panic /\ WithCacheRule(result) = SpecRule(obj, rel, first)

\* Unwinding an address in a module never panics, whatever its unwind
\* sections say (spec 1 (d): degrade gracefully on malformed unwind data).
NeverPanics == result # Panic

=============================================================================
