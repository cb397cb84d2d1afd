------------------------------- MODULE StackWalk -------------------------------
(***************************************************************************)
(* A profiler's stack walks, composed from the parts: an x86-64 unwinder   *)
(* (Unwinder) per profiled process holding the process's modules, whose    *)
(* unwind data is ModuleUnwindData, one rule cache shared by the unwinders *)
(* and kept across samples, and for each sample an UnwindIterator          *)
(* (iter_frames) whose next() calls unwind_first / unwind_next and         *)
(* executes the rule with_cache hands back (UnwindRuleX86_64's exec), or,   *)
(* when the DWARF evaluator answered Uncacheable, keeps the registers and   *)
(* return address that evaluator left.  A process is sampled once all its  *)
(* modules are registered; a sample is a pc, its registers and the call    *)
(* chain the thread really had.  The processes' stacks are at different    *)
(* addresses, so one ReadStack serves both.                                *)
(***************************************************************************)
EXTENDS Integers, Sequences, SequencesExt, FiniteSets

CONSTANTS
    AddrBits, WordBits, ReadStack(_), ReadFail, InstructionAnalysis(_, _),
    NoSection, TryNewIndex(_), IndexFde(_, _), HdrFde(_, _), NoFde,
    CuiLookup(_, _), DwarfUnwind(_, _, _, _),  \* as in ModuleUnwindData
    DwarfInPlace(_, _),  \* (lookup address, regs) -> the Outcome left by
                         \*   unwind_frame_with_fde when it answers Uncacheable
    Unwinders,           \* one unwinder per profiled process
    ModuleArgs(_),       \* u -> {[start, end, base, si]}: the Module::new calls
                         \*   for the modules of u's process
    Slots, GenBits, RelBits,
    MaxMutations,        \* bound on add_module/remove_module calls
    SamplePCs(_),        \* u -> the pcs a thread of u's process is stopped at
    RAs,                 \* the return addresses on the sampled stacks
    SampleRegs(_, _),    \* (u, pc) -> the thread's registers at that pc
    CallChain(_, _)      \* (u, pc) -> the frames the thread really has, innermost first

VARIABLES
    created, modules, modulesGen, globalGen, cache, mutations, answer, \* Unwinder
    walker,            \* the unwinder of the current sample
    state, regs, out,  \* the current sample's UnwindIterator
    yielded            \* the frames next() returned in the current walk (history)

unwinderVars == <<created, modules, modulesGen, globalGen, cache, mutations, answer>>
walkVars == <<walker, state, regs, out, yielded>>
vars == <<unwinderVars, walkVars>>

MD == INSTANCE ModuleUnwindData

\* Module::new: the unwind data is chosen once, from the section info, when
\* the module is built; base_svma comes from the section info.
Module_new(start, end, base_avma, si) ==
    [start |-> start, end |-> end, base |-> base_avma, base_svma |-> si.base_svma,
     unwind_data |-> MD!ModuleUnwindDataInternal_new(si)]

\* What with_cache receives from unwind_frame_impl for the module's data:
\* a rule, Uncacheable, or an error (Unwinder's AdapterError).
ModuleData(m, rel, first) ==
    LET r == CHOOSE x \in MD!unwind_frame_impl(m.unwind_data, m.base_svma, rel, first) : TRUE
    IN
    CASE r.tag = "Err" -> [kind |-> "AdapterError"]
      [] r = MD!UncacheableResult -> [kind |-> "Uncacheable"]
      [] OTHER -> r.rule

\* The modules the profiler builds for u's process, and for all.
ModulesOf(u) == {Module_new(a.start, a.end, a.base, a.si) : a \in ModuleArgs(u)}
Modules == UNION {ModulesOf(u) : u \in Unwinders}
AllPCs == UNION {SamplePCs(u) : u \in Unwinders}

UW == INSTANCE Unwinder WITH UnwindData <- ModuleData, PCs <- AllPCs,
                             fallback_rule <- MD!fallback_rule

IT == INSTANCE UnwindIterator WITH Rules <- {}, InitialPCs <- AllPCs

Idle == [tag |-> "none_yet"]

Init ==
    /\ UW!Init
    /\ walker = CHOOSE u \in Unwinders : TRUE
    /\ state = IT!Done
    /\ regs = SampleRegs(walker, CHOOSE pc \in SamplePCs(walker) : TRUE)
    /\ out = Idle
    /\ yielded = <<>>

\* No walk is in progress: an UnwindIterator borrows the unwinder, so the
\* borrow checker admits add_module and remove_module (which take &mut)
\* only between walks.
WalkIdle == state = IT!Done \/ IT!Stopped

\* The add_module calls still needed for every process to have its modules.
Missing == Cardinality(UNION {{<<u, m>> : m \in ModulesOf(u) \ Range(modules[u])} : u \in Unwinders})

\* UnwinderX86_64::new, add_module and remove_module, delegated to
\* UnwinderInternal, between walks.  The bound MaxMutations is spent only
\* where it leaves room to register every process's modules.
Setup ==
    /\ WalkIdle
    /\ \E u \in Unwinders :
          \/ UW!New(u)
          \/ \E m \in ModulesOf(u) : UW!add_module(u, m) \/ UW!remove_module(u, m.start)
    /\ MaxMutations - mutations' >= Missing'
    /\ UNCHANGED walkVars

AllRegistered(u) == u \in created /\ Range(modules[u]) = ModulesOf(u)

\* iter_frames / UnwindIterator::new, once the previous walk has ended, of a
\* thread whose code is in the registered modules.
Sample(u, pc) ==
    /\ AllRegistered(u)
    /\ WalkIdle
    /\ walker' = u
    /\ state' = IT!Initial(pc)
    /\ regs' = SampleRegs(u, pc)
    /\ out' = Idle
    /\ yielded' = <<>>
    /\ UNCHANGED unwinderVars

\* next() in state Initial.
WalkInitial ==
    /\ IT!NextInitial
    /\ yielded' = Append(yielded, out'.frame)
    /\ UNCHANGED <<unwinderVars, walker>>

\* The outcomes of unwind_frame once with_cache has the rule (or Uncacheable)
\* for lookup address la.
Executed(rule, la, r) ==
    IF rule = UW!Uncacheable THEN {DwarfInPlace(la, r)} ELSE IT!exec(rule, r)

\* next() in state Unwinding: unwind_first for the pc, unwind_next for a
\* return address, then the iterator acts on the result.
WalkUnwind ==
    /\ state.tag = "Unwinding"
    /\ ~IT!Stopped
    /\ IF state.frame.kind = "ip" THEN UW!unwind_first(walker, state.frame.addr)
                                  ELSE UW!unwind_next(walker, state.frame.addr)
    /\ \E o \in Executed(answer'[walker].rule, UW!address_for_lookup(state.frame), regs) :
          \/ IT!NextUnwindStep(o)
          \/ IT!NextUnwindRoot(o)
          \/ IT!NextUnwindFail(o)
    /\ yielded' = IF out'.tag = "frame" THEN Append(yielded, out'.frame) ELSE yielded
    /\ UNCHANGED walker

Next ==
    \/ Setup
    \/ \E u \in Unwinders : \E pc \in SamplePCs(u) : Sample(u, pc)
    \/ WalkInitial
    \/ WalkUnwind

\* next() can be called on a walk that has not ended.  This is exactly when
\* WalkInitial or WalkUnwind is enabled (unwind_frame and exec always have
\* an outcome, and every outcome changes out or state).
Walking == state.tag \in {"Initial", "Unwinding"} /\ ~IT!Stopped

\* The profiler calls next() until the walk ends or fails; registering
\* modules and taking samples are up to it.  This is weak fairness of the
\* walk's steps, with Walking for their enabledness.
WalkFairness == <>[]Walking => []<><<WalkInitial \/ WalkUnwind>>_vars

Spec == Init /\ [][Next]_vars /\ WalkFairness

(***************************************************************************)
(* Properties                                                              *)
(***************************************************************************)

\* Every frame a walk yields is the frame the thread really has at that
\* depth, and a walk that ends with Ok(None) has yielded the whole call
\* chain: module lookup, the ra - 1 lookup address, the compact unwind
\* opcodes and first-frame analysis, the cache shared across samples and
\* with the other processes' unwinders (whose code at the same address
\* differs), and the rule executor together recover each caller's return
\* address.
WalkYieldsCallChain ==
    yielded # <<>> =>
        /\ IsPrefix(yielded, CallChain(walker, yielded[1].addr))
        /\ state = IT!Done => yielded = CallChain(walker, yielded[1].addr)

\* Every walk started reaches the root: next() ends with Ok(None), never an
\* error, on the stacks of the program sampled.
WalkCompletes == state.tag = "Initial" ~> state = IT!Done

\* A call of next() that returns an error leaves the iterator's state and
\* registers as they were (spec 4.7: the iterator does not corrupt, a
\* further next returns the same error condition).
ErrorLeavesIteratorUnchanged ==
    [][out'.tag = "err" => UNCHANGED <<state, regs>>]_vars

=============================================================================
