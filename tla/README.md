# TLA+ models of framehop's x86-64 unwinder

framehop walks the stack of a sampled thread. It starts from the thread's registers
(pc, sp, bp), finds the module that holds each frame address, asks that module's
unwind data for a rule, and executes the rule against the registers and the stack.
The models cover the source in `src/`:

| part | source | module |
|---|---|---|
| rule vocabulary, `checked_add_signed`, `exec` | `src/x86_64/unwind_rule.rs` | `UnwindRuleX86_64` |
| frame iterator `UnwindIterator::next` | `src/unwinder.rs` 113-176 | `UnwindIterator` |
| module registry, generation counter, `find_module_for_address` | `src/unwinder.rs` 190-301 | `Unwinder` |
| rule cache `lookup`/`insert`, shared | `src/rule_cache.rs` | `Unwinder` |
| rule cache on its own, with its statistics | `src/rule_cache.rs` | `RuleCache`, abstractly `RuleCacheSpec` |
| dispatcher `with_cache` / `unwind_frame` | `src/unwinder.rs` 303-372 | `Unwinder`, abstractly `RuleDispatch` |
| unwind data selection `ModuleUnwindDataInternal::new` | `src/unwinder.rs` 583-640 | `ModuleUnwindData` |
| per-variant dispatch `unwind_frame_impl` | `src/unwinder.rs` 374-528 | `ModuleUnwindData` |
| compact unwind adapter (opcode to rule) | `src/x86_64/macho.rs` | `CompactUnwindX86_64` |
| errors | `src/error.rs` | `UnwindRuleX86_64` (`Errors`), `ModuleUnwindData` (`UErr`, `FromCuiError`) |
| `UnwinderX86_64` (delegation only) | `src/x86_64/unwinder.rs` | `Unwinder` (`unwind_first`, `unwind_next`) |
| a profiler's walks: all of the above together | `src/unwinder.rs` 73-84, 152-176, 347-372 | `StackWalk` |

## How the parts interact

- The profiler creates one or more `Unwinder`s. It registers modules with `add_module`
  and `remove_module`, and it owns one `Cache` that it passes to every unwinder.
- Each unwinder keeps its modules sorted by start address. Each change takes a fresh
  value from the process-wide `GLOBAL_MODULES_GENERATION` (a u16 that wraps).
- The cache has 509 slots and is direct-mapped. An entry is (address, generation, rule),
  and a hit needs both the generation and the address to match. This is what lets
  unwinders with different module lists share the cache.
- `UnwindIterator::next` yields the pc first. After that it calls `unwind_frame` on the
  current frame address:
  - Ok(Some(ra)) moves to the return address.
  - Ok(None) ends the walk.
  - An error is returned with `?` and leaves the iterator where it was.
- `with_cache` looks up `address_for_lookup` (the pc, or ra - 1):
  - On a hit, it executes the cached rule.
  - On a miss, it finds the module. With no module, it uses the fallback rule
    `UseFramePointer`. Otherwise it asks the unwind data, where:
    - an adapter error becomes the fallback rule;
    - `Uncacheable(ra)` (DWARF evaluated in place) is returned without touching the cache.
  - The rule it ends up with is inserted and executed.
- `exec` does two things:
  - It computes the caller's (sp, bp) with checked arithmetic, reading the saved bp
    where the rule says.
  - It reads the return address at `new_sp - 8`. A zero return address means the root.
    The registers are written only after every read succeeded.

## Modules

**UnwindRuleX86_64** holds pure operators over `AddrBits`-wide addresses; the code uses 64.
- Constants: the `read_stack` callback is the constant function `ReadStack`, with
  `ReadFail` for `Err(())`.
- `exec(rule, regs)` is the set of outcomes the builds can produce.
  - Most of it is deterministic.
  - The exception is the unchecked `new_sp - 8`. Below 8 it is either a panic (debug)
    or a wrapped read (release).
- It is split into `CallerSpBp`, which is the `match self`, and `ReturnAddressStep`,
  which is the read of the return address and the commit.

**UnwindIterator** extends it.
- Variables: `state` (UnwindIteratorState), `regs` and `out` (what the last next()
  returned).
- Actions: `NextInitial`, then `NextUnwinding` with its three outcomes:
  - `NextUnwindStep`: Ok(Some), with the null return address check;
  - `NextUnwindRoot`: Ok(None);
  - `NextUnwindFail`: an error or a panic.
- The rule for a frame is any element of the constant `Rules`. This is the vocabulary
  the dispatcher can return, so every rule is tried at every frame.
- The caller stops calling next() after an error. This is the guard `~Stopped`.

**Unwinder** models several unwinders (constant `Unwinders`) sharing one cache of
`Slots` slots.
- Variables:
  - `created`, `modules`, `modulesGen`, `globalGen` and `cache`;
  - `mutations`, a bound on add/remove calls;
  - `answer`: the lookup address of each unwinder's last `unwind_frame`, with the rule
    `with_cache` executed for it, or `Uncacheable`.
- Actions: `New`, `add_module`, `remove_module`, `unwind_first` and `unwind_next`.
  - The last two are the calls `UnwinderX86_64` delegates. Both are `unwind_frame`,
    which is `with_cache` with three disjuncts:
    - a hit;
    - a miss that yields `Uncacheable`, which is returned without touching the cache;
    - a miss whose rule is inserted (`insert`, `RuleCache::insert`).
- `binary_search_by_key` is split in two. `SearchOk` is the set of indices with an equal
  start, any of which the search may return. `SearchErr` is the insertion index.
- What the unwind data yields for (module, relative address, first frame) is the
  constant `UnwindData`: a rule name, `Uncacheable` or `AdapterError`.

**RuleDispatch** is the abstract dispatcher: what an unwinder promises about the rule it
uses for a frame.
- It has no cache, no generations and no binary search.
- Variables: `created`, `modules` (in start order) and `answer` (address and rule).
- `AddModule` inserts anywhere that keeps the start order. `RemoveModule` removes a
  module with the given start.
- `Unwind` answers with `RuleFor`, which looks up the current modules linearly, then
  consults the unwind data, with the fallback rule for no module or an error.
- `MC_Unwinder` instantiates it with the same variable and constant names
  (`Abs == INSTANCE RuleDispatch`). It checks `AbsSpec == Abs!Spec`: the generations,
  the cache and the mutation count are hidden.

**ModuleUnwindData** extends CompactUnwindX86_64 with the module's unwind data:
- An object file is a record: its `__TEXT` segment (vmaddr, file start, data) or none,
  and a function from the names of its sections to their address, size, file start
  and data. The object-file `ModuleSectionInfo` impl is modelled as operators on it:
  - `base_svma`: the `__TEXT` vmaddr, or `relative_address_base`;
  - `section_svma_range`, `section_file_range`, `section_data`;
  - `segment_file_range`, `segment_data`.
- `text_data` is new()'s choice of text. It is `__TEXT`'s data with its file range,
  otherwise the first of `__text` and `.text` that has both.
- `SectionInfo(o)` gathers what new() and Module::new probe:
  - Mach-O `__unwind_info`, `__eh_frame`, `__stubs` and `__stub_helper`;
  - the text data;
  - ELF `.eh_frame`, `.eh_frame_hdr` and `.debug_frame`.
  `ModuleUnwindDataInternal_new(si)` selects the variant from it.
- `unwind_frame_impl(md, base, rel, first)` is the set of results the builds can produce.
  It models:
  - the stubs arithmetic `(x - base_svma) as u32` (`RelOfSvma`): a panic or a wrap below
    the base, truncation to u32;
  - the text bytes' `u32::try_from`;
  - the compact unwind path through the adapter of CompactUnwindX86_64, with `NeedDwarf`
    needing `__eh_frame`;
  - the `.eh_frame_hdr` and index lookups with their errors;
  - the `From` conversions;
  - `NoModuleUnwindData`.
- `WithCacheRule` is what `with_cache` makes of the result.
- The parsers outside `src/` are constants: `CuiLookup`, `HdrFde`, `IndexFde`,
  `TryNewIndex` and `DwarfUnwind`.
  - The `CompactUnwindInfoUnwinder` wrapper (the stubs check, then the opcode of the
    function) comes from spec §4.4.

**StackWalk** composes the parts. It instantiates `Unwinder` (`UW`), `UnwindIterator`
(`IT`) and `ModuleUnwindData` (`MD`) over the same variables.
- The modules are built by `Module_new` (`Module::new`) from the constant `ModuleArgs`.
  It chooses the unwind data once, with `ModuleUnwindDataInternal_new`.
- Unwinder's constant `UnwindData` is `ModuleData`: `unwind_frame_impl` on the module's
  data. This is the callback `unwind_frame` hands to `with_cache`.
- Variables: Unwinder's, the iterator's, and `yielded` (the frames of the current
  walk, a history variable).
- Actions:
  - `Setup`: `UnwinderX86_64::new`, `add_module` and `remove_module` of any process's
    unwinder, only between walks
    (`WalkIdle`). An `UnwindIterator` borrows the unwinder, so the borrow checker rules
    out `&mut self` calls during a walk.
  - `Sample(u, pc)`: `iter_frames` of unwinder u, with the registers of a thread of u's
    process stopped at pc. It is taken once the process's modules are registered and the
    previous walk has ended, and it reuses the cache. `walker` records u.
  - `WalkInitial`: next() in state Initial.
  - `WalkUnwind`: next() in state Unwinding. It calls `unwind_first` or
    `unwind_next`, then applies the outcome (`Executed`):
    - the rule `with_cache` handed back is executed;
    - for `Uncacheable`, the outcome is what the DWARF evaluator left (the constant
      `DwarfInPlace`): the caller's registers and the return address it read, even
      0. The evaluator writes these registers through `&mut regs` before returning.
- `CallChain(u, pc)` is the chain the sampled thread really has. The processes' stacks
  lie at different addresses, so one `ReadStack` serves them all.

**RuleCache** is `src/rule_cache.rs` on its own, with the statistics.
- Variables: `entries` (the slots), `stats` (CacheStats), `handles` (the CacheHandles
  handed out and not yet used) and `result` (the last lookup's arguments and result).
- `lookup(address, gen)` has the code's four outcomes. Each outcome increments its own
  counter (`Count`):
  - an empty slot is a miss;
  - a matching slot is a hit;
  - a slot of the same generation but another address is a miss;
  - a slot of another generation is a miss.
  A miss returns a handle for the slot.
- `insert(h, rule)` consumes a handle. `drop(h)` is with_cache returning `Uncacheable`
  without inserting.
- `snapshot`, `hits`, `misses` and `total` are `stats()` and CacheStats' accessors.
- Lookups are bounded by `MaxLookups` on `total`. This is the only thing that keeps the
  counters finite.

**RuleCacheSpec** is what the cache promises with_cache: a lossy map from
(address, generation) keys to rules.
- A lookup of a key the map holds is a hit with the key's rule. Any other lookup is a
  miss.
- An insert for a missed key may evict at most one other key.
- Hits and misses are counted.
- RuleCache refines it. The mapped store is the keys the filled slots hold, and the
  counts are `hits(snapshot)` and `misses(snapshot)`.

**CompactUnwindX86_64** extends UnwindRuleX86_64 with `unwind_frame` of `src/x86_64/macho.rs`:
- Its inputs are the decoded opcode, is_first_frame, the pc offset and the optional function
  bytes. It returns `ExecRule(rule)`, `NeedDwarf(fde)` or `CuiErr(e)`.
- The opcode decoder and `rule_from_instruction_analysis` are outside `src/`:
  - The opcode is an input, one record per `OpcodeX86_64` variant.
  - The analysis is the constant `InstructionAnalysis(bytes, offset)`.
- Integer widths scale with the constant `WordBits`, which is 32 in the code. TLC's
  integers are 32-bit signed, so u32 arithmetic needs a smaller width. The other widths
  keep their ratios:
  - u16 and i16 are half of it;
  - a byte is a quarter of it;
  - `as i32` wraps at WordBits.
- Together these keep every overflow and every failing conversion in the same order as
  the code.

## Runs

| run | cfg | expect | checks |
|---|---|---|---|
| iterator_walk | MC_UnwindIterator.cfg | pass | TypeOK, CheckedAddSignedCorrect, ErrorLeavesStateUnchanged, StackProgress |
| exec_malformed_rule_panics | MC_UnwindIterator_panic.cfg | violation | NeverPanics |
| shared_cache | MC_Unwinder.cfg | pass | CacheHitsAreFresh, FindModuleCorrect |
| registry_overlap | MC_Unwinder_overlap.cfg | violation | ModulesDisjoint |
| compact_unwind_prologues | MC_CompactUnwindX86_64.cfg | pass | TypeOK, CompactRuleRecoversCaller |
| cache_refines_dispatch | MC_Unwinder_refines.cfg | pass | AbsSpec |
| generation_wrap | MC_Unwinder_wrap.cfg | violation | CacheHitsAreFresh |
| module_unwind_data | MC_ModuleUnwindData.cfg | pass | ResultMatchesSpec |
| stubs_below_base_panics | MC_ModuleUnwindData_panic.cfg | violation | NeverPanics |
| stack_walk | MC_StackWalk.cfg | pass | WalkYieldsCallChain, WalkCompletes |
| dwarf_root_null_ra | MC_StackWalk_dwarf_root.cfg | violation | ErrorLeavesIteratorUnchanged |
| rule_cache_refines | MC_RuleCache.cfg | pass | RefinesRuleCacheSpec |

**iterator_walk**
- Setup:
  - 7-bit addresses (0..127);
  - a fixed 16-word stack, with words that read as 0, as unreadable, and as
    frame-pointer links pointing up, down and to themselves;
  - every initial sp and bp;
  - the six well-formed rules. These are JustReturn, OffsetSp 1 and 2, OffsetSpAndRestoreBp
    with a positive and a negative bp slot, and UseFramePointer.
- Every address is a possible start, so the overflow edges near 127 are reached.
- What it shows:
  - Every step moves sp up (`StackProgress`). With the moved-backwards check removed,
    the self-referencing bp word makes UseFramePointer step to the same sp.
  - An error leaves state and registers unchanged (`ErrorLeavesStateUnchanged`).
  - `checked_add_signed` agrees with integer addition (`CheckedAddSignedCorrect`).
    In every state, its lhs is sp or bp, and its rhs is every 7-bit signed offset.
    Walks start from every sp and bp, so every lhs is reached. The rhs includes 0, the
    i64::MIN analogue and every wrap.
- The walk does stop, so deadlock is not checked.
- Any rule may be chosen at each frame, so a liveness property here would let fairness
  rule out the code's deterministic loops. Termination is checked by stack_walk, where
  each address has one rule.

**exec_malformed_rule_panics**
- It adds `OffsetSp { sp_offset_by_8: 0 }` to the rules. The u16 field allows it and
  unwind data can encode it.
- TLC finds sp < 8 reaching `new_sp - 8`. That is a panic in debug (a wrapped read in
  release).
- Spec §8 says execution never panics, and §6 that the engine never reads below 8 of a
  computed new_sp. See finding 1.

**shared_cache**
- Setup:
  - two unwinders and three cache slots;
  - modules A [2,6) base 2 and B [6,14) base 5. 13 is beyond B's 3-bit relative range;
  - pcs 3, 7, 13 and return addresses 5, 9. Their lookup addresses collide in slots 0
    and 1.
- Up to 3 add/remove calls, which can add duplicates of the same module.
- The generation is 3 bits and does not wrap under these bounds. `GenerationsSuffice`
  in MC_Unwinder states the condition: unwinders + mutations <= 2^GenBits.
- The unwind data yields every kind of answer:
  - a first-frame-only rule;
  - Uncacheable;
  - an adapter error at one address;
  - a plain rule.
- `CacheHitsAreFresh`: every hit returns what a miss would compute now, for every
  unwinder and every lookup address. This holds across the interleaved mutations and
  inserts of both unwinders.
- `FindModuleCorrect`: the binary search agrees with a linear reference over every
  address 0..14.
- Both unwinders can keep unwinding forever, so deadlock is checked.
- The cfg's `VIEW MCView` leaves `answer` out of the state's identity. No step reads
  `answer`, and neither invariant mentions it.

**registry_overlap**
- It adds module C [4,8), which overlaps both A and B.
- TLC finds add A then add C. The code accepts the overlap, while the spec says the
  registry stays disjoint. See finding 2.

**compact_unwind_prologues**
- Prologues: up to two distinct pushes out of rbx, rbp and r12, and 0-2 words of locals.
  Frame-based ones have 0-1 words of locals.
- Each prologue is encoded four ways:
  - frameless immediate;
  - frameless indirect, with `sub rsp, imm32` bytes;
  - frame-based;
  - no info with the `55 48 89 e5` bytes.
- The stack the prologue builds below a caller's sp is laid out. The rule the adapter
  returns is then executed by `exec` on it, through `Sim(mem)`, a parametrised
  INSTANCE of UnwindRuleX86_64.
- `CompactRuleRecoversCaller` says that whenever the pc is in the body, the rule gives
  back the caller's return address, sp and bp.
  - This checks the stack-size arithmetic, the bp position counted from the outermost
    push (`rev()`), the LE read of the `sub` immediate, and the prologue detection.
  - Both pushing bp and clobbering it are covered.
- Opcodes no prologue yields are inputs too:
  - DWARF, an unrecognised kind, InvalidFrameless;
  - indirect with no bytes or with a truncated immediate;
  - a 20000-byte frame saving bp (i16 overflow at 12 bits);
  - a 40000-byte frame (u16 overflow);
  - an imm32 near the maximum (checked add overflow).
- `TypeOK` covers all of these. In particular, every rule's fields are within their u16
  and i16 ranges.
- At WordBits = 24 the boundaries fall in the same order as at 32. The i16 limit is hit
  before the u16 limit, so BpOffsetDoesNotFit is reachable for large frames that save bp.

**cache_refines_dispatch**
- It uses the shared_cache setup with 2 mutations instead of 3, which keeps the
  temporal check under a minute.
- This is still enough for an add and a remove, or two adds, interleaved with both
  unwinders' unwinds.
- `AbsSpec`: every step of the cached dispatcher is a step of RuleDispatch, or a
  stutter. In particular, every answer is what the current modules give.
- This is stronger than CacheHitsAreFresh, because it also covers the miss path and the
  answers actually returned.
- `answer` carries the lookup address, so a wrong rule cannot pass as the answer for
  another address. Caching the fallback rule for an `Uncacheable` result
  (`RuleOnMiss_UncacheableAsFallback`) breaks it.

**generation_wrap**
- It uses the shared_cache setup with a 2-bit generation, so 2 constructions and 3
  mutations exceed the counter's range.
- TLC finds:
  1. u1 and u2 are created (generations 0 and 1);
  2. u2 adds A, then B, then A (generations 2, 3, 0);
  3. u1, with no modules, caches the fallback for address 3 under generation 0;
  4. u2, whose generation is now 0 and whose module A holds 3, hits that entry.
- The idle unwinder's generation is the one it got at construction. The code takes the
  same path after 65536 calls. See finding 3.

**module_unwind_data**
- Setup:
  - every object file of these sections;
  - a `__TEXT` segment absent, at vmaddr 0, or at 16, with a file start of 0 or 300
    (beyond u32);
  - `__unwind_info` and `__eh_frame` present or not;
  - `__text` absent, with file start 0 or 300, or without a file range;
    `.text` absent or present;
  - `.eh_frame` absent, with a buildable index, or with an unbuildable one;
  - `.eh_frame_hdr` present or not;
  - `.debug_frame` absent, buildable or unbuildable;
  - four stubs ranges: absent, inside, below base 16, and 268 bytes above base 0;
  - a stub_helper range;
  - relative addresses 4, 12, 22 and 30, on first and later frames.
- u64 is 9 bits and u32 8 bits, so the u32 truncation and the u64 wrap are both
  reachable.
- The unwind info gives a frame-based function, a DWARF one and one without info (with
  frame-pointer prologue bytes). The FDE lookups give a rule, an uncacheable result, an
  error and a miss.
- `ResultMatchesSpec` says that for a well-formed module, the dispatch gives the rule
  spec §3, §4.3, §4.4 and §4.6 prescribe. Well-formed means the stubs lie within 4 GiB at or
  above the base, and the text starts within u32.
  - `SpecRule` reads the object itself, by section name, as spec §2 and §5 describe. It
    does not use the probes, so the probes are checked too.
  - Reading `.eh_frame` for Mach-O breaks the property. So do ignoring `__TEXT` for
    `base_svma` and skipping the segment's text.
- This checks:
  - the selection priority, with an unbuildable `.eh_frame` index leaving no data
    (§4.6);
  - the stubs check in relative coordinates against the svma range;
  - that NeedDwarf without `__eh_frame` falls back;
  - that no error escapes `with_cache`.

**stubs_below_base_panics**
- The same inputs. TLC finds a module with base 16 and stubs at 8 where the subtraction
  underflows. A debug build panics on every cache miss in that module.
- See finding 4.

**stack_walk**
- MC_StackWalk has two profiled processes, A and B, one unwinder each, sharing one
  3-slot cache. Each has a Mach-O module at avma [16, 64), base 16, base_svma 0, with
  compact unwind info, `__eh_frame` and text. The code in the two modules differs.
- A holds three functions:
  - `start` [16, 32) is the root. It is frame-based and its return address slot is 0.
  - `f` [32, 48) pushes rbx and subtracts 8 from rsp. Its opcode is FramelessImmediate,
    24 bytes with rbx saved.
  - `g` [48, 64) subtracts 8 from rsp. Its DWARF FDE gives OffsetSp(2).
- B holds two:
  - `main` [16, 40) is the frame-based root.
  - `k` [40, 64) pushes rbx and r12 and subtracts 8. Its opcode is FramelessImmediate,
    32 bytes.
- Each call is its function's last instruction. So each return address (32, 48 and 40)
  is the next function's start, and only the ra - 1 lookup finds the caller.
- Instruction analysis gives JustReturn at a function's first byte only.
- Samples are taken at function entries and bodies: six pcs in A, four in B. The pcs 37
  and 52 are sampled in both processes, and there they need different rules. The lookup
  addresses collide in the slots.
- Both modules are registered, two add_module calls, before a process is sampled.
  `Setup` spends the mutation bound only where every process can still get its modules.
  With a bound of 4, a remove and re-add between walks multiplies the state space by 40.
  That case is left to cache_refines_dispatch.
- `WalkYieldsCallChain`: every frame yielded is the true one at that depth, and a
  walk that ends has yielded the whole chain.
- `WalkCompletes`: every walk reaches Ok(None).
- The walks exercise module lookup, the first-frame analysis against the opcode, the
  frameless rules, DWARF through the cui path, frame-pointer unwinding at the root, and
  hits of rules cached by earlier samples of either process.
  - With a generation counter per unwinder instead of the global one, a walk of one
    process is answered by the other's cached rule and yields a wrong frame.
  - Dropping the address check of the cache, or the `- 1` of the lookup address, also
    breaks the chain.
- The run has 13,537 states and takes a few seconds.

**dwarf_root_null_ra**
- The same program, but `start`'s compact unwind entry refers to a DWARF FDE that the
  evaluator unwinds in place (`Uncacheable`), as spec §4.5 describes.
- A sample in start's body does this:
  1. `with_cache` gets `Uncacheable(0)`, after the evaluator set sp = 104 and bp = 0;
  2. next() fails with `ReturnAddressIsNull`;
  3. the registers are already the caller's.
- Spec §4.7 says an error leaves the iterator in its current state, so a further next
  returns the same error. Here a further next would unwind the same frame address from
  the caller's registers. See finding 5.

**rule_cache_refines**
- MC_RuleCache has three slots, addresses 1, 2 and 4 (1 and 4 share slot 1), two
  generations, two rules and five lookups. That is enough for:
  - every kind of miss;
  - an eviction;
  - a handle inserted after its slot was reused by another key.
- `RefinesRuleCacheSpec` checks three things:
  - a hit returns the rule inserted for exactly that address and generation;
  - an insert evicts at most one other entry;
  - each lookup is counted once, as a hit or a miss.
- A lookup that skips the address comparison breaks it, and so does a dropped counter
  increment.
- The bound on lookups ends every behaviour, so deadlock is not checked.
- The run has 79,977 states and takes about 15 s.

## Fairness

- Only `StackWalk` has a liveness property. It assumes weak fairness of
  `WalkInitial \/ WalkUnwind`. The reason is that
  the profiler drives each iterator to completion. Registering modules and taking
  samples are not fair: the profiler may stop sampling.
- StackWalk writes weak fairness out as `WalkFairness`, with the state predicate
  `Walking` in place of `ENABLED`. TLC's evaluation of `ENABLED` through the three
  instances took 13 minutes for this state space.
  - `Walking` is equivalent to `ENABLED <<WalkInitial \/ WalkUnwind>>_vars`. In
    Initial, next() moves to Unwinding. In Unwinding without an error, `unwind_frame`
    and `exec` always have an outcome, and each outcome changes `state` or `out`.
- `Unwinder` and `RuleDispatch` have no liveness property, and RuleDispatch no fairness,
  so the refinement is of safety only. Nothing obliges the profiler to unwind or
  register modules.

## Not modelled, and why

- The cache statistics are left out of `Unwinder`, where unwinding is unbounded, so
  the counters would be too. They are modelled in `RuleCache`, under a bound on
  lookups.
- The DWARF evaluator, the FDE index, instruction analysis and the compact-unwind binary
  parser are not under `src/` in this snapshot. They appear only through what they
  return: the constants of ModuleUnwindData. Unwinder sees a module's data through the
  constant `UnwindData`.
  - ModuleUnwindData's `WithCacheRule` yields a rule, `Uncacheable` or the fallback.
  - MC_Unwinder's `UnwindData` yields each of these.
- `stub_helper`'s range is computed, which matters for the panic, but it is not used
  further. Its use is in the compact unwind wrapper outside `src/`, and spec §4.4 does
  not give it a rule.
- Section bytes are model values. Only their presence, ranges and file starts are
  modelled, and a section's contents come from the parser constants.
- aarch64 is not in this snapshot.
- The source files are not from one revision:
  - `error.rs` lacks `IntegerOverflow`, `ReturnAddressIsNull` and
    `NoModuleUnwindData`, which the code returns.
  - `with_cache` passes `is_first_frame` to an `exec` that does not take it.
  - The models follow each function's own code.

## Plan for the next steps

1. (done) **CompactUnwindX86_64**.
2. (done) **The per-module unwind data** (`ModuleUnwindData`).
3. (done) **Refinement** of the cached dispatcher to `RuleDispatch`.
4. (done) **A generation wrap run**.
5. (done) **A composed walk** (`StackWalk`).
6. (done) **Unwinder over ModuleUnwindData**, inside StackWalk.
7. (done) **RuleCache with its statistics**, refining a lossy map.
