------------------------- MODULE ModuleUnwindData -------------------------
(***************************************************************************)
(* A module's unwind data (src/unwinder.rs): ModuleUnwindDataInternal::new *)
(* picks one variant from the sections the module has, and                 *)
(* unwind_frame_impl turns (variant, relative address, is_first_frame) into *)
(* an UnwindResult or an UnwinderError.  The compact unwind path goes       *)
(* through the adapter of CompactUnwindX86_64; the parsers of the section  *)
(* formats (the __unwind_info tables, .eh_frame_hdr, the FDE index and the  *)
(* DWARF evaluator) are outside src/ and are constants giving what they    *)
(* return.  A section is a model value, or NoSection where it is absent.   *)
(***************************************************************************)
EXTENDS CompactUnwindX86_64

CONSTANTS
    NoSection,         \* section_data / section_svma_range returned None
    TryNewIndex(_),    \* DwarfCfiIndex::try_new_*: section -> TRUE if Ok
    IndexFde(_, _),    \* fde_offset_for_relative_address: (section, rel) -> fde or NoFde
    HdrFde(_, _),      \* get_fde_offset_for_relative_address via .eh_frame_hdr
    NoFde,             \* either lookup returned None
    CuiLookup(_, _),   \* the __unwind_info entry for (unwind_info, rel):
                       \*   [opcode, offset (of rel in the function), bytes]
    DwarfUnwind(_, _, _, _) \* unwind_frame_with_fde: (section, fde, rel, first)
                            \*   -> ExecRule(r), UncacheableResult or DwarfErr

(***************************************************************************)
(* UnwindResult and UnwinderError.                                         *)
(***************************************************************************)
UncacheableResult == [tag |-> "Uncacheable"]
DwarfErr == [tag |-> "DwarfErr"]
UErr(e) == [tag |-> "Err", err |-> e]

\* From<CompactUnwindInfoUnwinderError> for UnwinderError.
FromCuiError(e) ==
    IF e = "BadDwarfUnwinding" THEN UErr("Dwarf") ELSE UErr("CompactUnwindInfo")

(***************************************************************************)
(* ModuleSectionInfo for an `object` file.  An object is a record:         *)
(* text_segment (the __TEXT segment [address, file_start, data], or         *)
(* NoSection), relative_address_base, and sections, a function from the    *)
(* names of the sections it has to [address, size, file_start, data];      *)
(* file_start is NoSection for a section without file data (file_range()   *)
(* is None) and data NoSection where reading it fails.  Section contents   *)
(* are model values.  Only the start of a file range is used.              *)
(***************************************************************************)
base_svma(o) ==
    IF o.text_segment # NoSection THEN o.text_segment.address ELSE o.relative_address_base

section_svma_range(o, name) ==
    IF name \in DOMAIN o.sections
    THEN [start |-> o.sections[name].address,
          end |-> o.sections[name].address + o.sections[name].size]
    ELSE NoSection

section_file_range(o, name) ==
    IF name \in DOMAIN o.sections /\ o.sections[name].file_start # NoSection
    THEN [start |-> o.sections[name].file_start] ELSE NoSection

section_data(o, name) ==
    IF name \in DOMAIN o.sections THEN o.sections[name].data ELSE NoSection

segment_file_range(o) ==
    IF o.text_segment # NoSection THEN [start |-> o.text_segment.file_start] ELSE NoSection

segment_data(o) ==
    IF o.text_segment # NoSection THEN o.text_segment.data ELSE NoSection

\* text_data in ModuleUnwindDataInternal::new: the __TEXT segment's data and
\* file range, else the first of __text and .text that has both.
text_data(o) ==
    LET has(n) == section_data(o, n) # NoSection /\ section_file_range(o, n) # NoSection
        named == SelectSeq(<<"__text", ".text">>, has)
    IN
    IF segment_data(o) # NoSection /\ segment_file_range(o) # NoSection
    THEN segment_file_range(o)
    ELSE IF named = <<>> THEN NoSection ELSE section_file_range(o, Head(named))

\* What new() and Module::new probe, gathered in one record.
SectionInfo(o) ==
    [base_svma |-> base_svma(o),
     unwind_info |-> section_data(o, "__unwind_info"),
     macho_eh_frame |-> section_data(o, "__eh_frame"),
     stubs |-> section_svma_range(o, "__stubs"),
     stub_helper |-> section_svma_range(o, "__stub_helper"),
     text |-> text_data(o),
     eh_frame |-> section_data(o, ".eh_frame"),
     eh_frame_hdr |-> section_data(o, ".eh_frame_hdr"),
     debug_frame |-> section_data(o, ".debug_frame")]

(***************************************************************************)
(* ModuleUnwindDataInternal::new, on the probes of SectionInfo.            *)
(***************************************************************************)
NoneData == [kind |-> "None"]

ModuleUnwindDataInternal_new(si) ==
    CASE si.unwind_info # NoSection ->
            [kind |-> "CompactUnwindInfoAndEhFrame", unwind_info |-> si.unwind_info,
             eh_frame |-> si.macho_eh_frame, stubs |-> si.stubs, stub_helper |-> si.stub_helper,
             text |-> si.text]
      [] si.eh_frame # NoSection /\ si.eh_frame_hdr # NoSection ->
            [kind |-> "EhFrameHdrAndEhFrame", eh_frame_hdr |-> si.eh_frame_hdr,
             eh_frame |-> si.eh_frame]
      [] si.eh_frame # NoSection ->
            IF TryNewIndex(si.eh_frame)
            THEN [kind |-> "DwarfCfiIndexAndEhFrame", index |-> si.eh_frame]
            ELSE NoneData
      [] si.debug_frame # NoSection /\ TryNewIndex(si.debug_frame) ->
            [kind |-> "DwarfCfiIndexAndDebugFrame", index |-> si.debug_frame]
      [] OTHER -> NoneData

(***************************************************************************)
(* unwind_frame_impl                                                        *)
(***************************************************************************)
Trap == -1   \* the subtraction panicked

\* Mutant: the section address taken as relative, base_svma not subtracted.
RelOfSvma_NoBase(x, base) == {x % 2 ^ WordBits}

\* `(x - module.base_svma) as u32`: a u64 subtraction, which panics on
\* underflow in a debug build and wraps in a release build, truncated to u32.
RelOfSvma(x, base) ==
    IF x >= base THEN {(x - base) % 2 ^ WordBits}
    ELSE {Trap, (x - base + U64) % 2 ^ WordBits}

\* stubs_range / stub_helper_range: (0, 0) when the section is absent,
\* <<Trap, Trap>> when either bound panicked.
RelRange(r, base) ==
    IF r = NoSection THEN {<<0, 0>>}
    ELSE {IF s = Trap \/ e = Trap THEN <<Trap, Trap>> ELSE <<s, e>> :
              s \in RelOfSvma(r.start, base), e \in RelOfSvma(r.end, base)}

\* text_bytes: the text data, if its start fits u32::try_from.
HasTextBytes(text) == text # NoSection /\ text.start <= U32Max

\* CompactUnwindInfoUnwinder::unwind_frame (outside src/, from spec 4.4): an
\* address in the stubs gets the stub rule; otherwise the function's entry
\* goes to the opcode adapter, with the function's bytes if text_bytes is set.
CuiUnwinder_unwind_frame(ui, text_bytes, stubs, rel, first) ==
    LET f == CuiLookup(ui, rel) IN
    IF stubs[1] <= rel /\ rel < stubs[2] THEN ExecRule(rule_for_stub_functions)
    ELSE unwind_frame(f.opcode, first, f.offset, IF text_bytes THEN f.bytes ELSE NoBytes)

\* unwind_frame_with_fde(...)?: a DWARF error becomes UnwinderError::Dwarf.
DwarfStep(section, fde, rel, first) ==
    LET r == DwarfUnwind(section, fde, rel, first) IN
    IF r = DwarfErr THEN UErr("Dwarf") ELSE r

\* The CUI result: an adapter error is returned with `?`; NeedDwarf needs
\* the module's __eh_frame.
CuiResult(md, r, rel, first) ==
    CASE r.tag = "CuiErr" -> FromCuiError(r.err)
      [] r.tag = "ExecRule" -> r
      [] r.tag = "NeedDwarf" ->
            IF md.eh_frame = NoSection THEN UErr("NoDwarfData")
            ELSE DwarfStep(md.eh_frame, r.fde, rel, first)

\* An FDE from a lookup, or the lookup's error.
FdeResult(section, fde, notFound, rel, first) ==
    IF fde = NoFde THEN UErr(notFound) ELSE DwarfStep(section, fde, rel, first)

\* The results the builds can produce for the module data md of a module
\* with base_svma base, at relative address rel (Panic for a debug build's
\* overflow in the stubs ranges, computed before the adapter runs).
unwind_frame_impl(md, base, rel, first) ==
    CASE md.kind = "CompactUnwindInfoAndEhFrame" ->
            { IF Trap \in {sr[1], hr[1]} THEN Panic
              ELSE CuiResult(md, CuiUnwinder_unwind_frame(md.unwind_info, HasTextBytes(md.text),
                                                          sr, rel, first), rel, first) :
                  sr \in RelRange(md.stubs, base), hr \in RelRange(md.stub_helper, base) }
      [] md.kind = "EhFrameHdrAndEhFrame" ->
            {FdeResult(md.eh_frame, HdrFde(md.eh_frame_hdr, rel),
                       "EhFrameHdrCouldNotFindAddress", rel, first)}
      [] md.kind \in {"DwarfCfiIndexAndEhFrame", "DwarfCfiIndexAndDebugFrame"} ->
            {FdeResult(md.index, IndexFde(md.index, rel),
                       "DwarfCfiIndexCouldNotFindAddress", rel, first)}
      [] md.kind = "None" -> {UErr("NoModuleUnwindData")}

\* What with_cache makes of the result: the rule to cache and execute, the
\* uncacheable result returned as is, and the fallback rule for any error.
WithCacheRule(r) ==
    CASE r.tag = "ExecRule" -> r.rule
      [] r = UncacheableResult -> r
      [] r.tag = "Err" -> fallback_rule

=============================================================================
