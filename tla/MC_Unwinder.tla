----------------------------- MODULE MC_Unwinder -----------------------------
(***************************************************************************)
(* Two unwinders sharing a three-slot cache, two disjoint modules (one     *)
(* wider than the relative-address range), frames inside and outside the  *)
(* modules whose lookup addresses collide in the cache, and a 3-bit        *)
(* generation counter with no more calls than it has values.              *)
(***************************************************************************)
EXTENDS Unwinder, TLC

CONSTANTS u1, u2

MCUnwinders == {u1, u2}

\* Module A: avma 2..6 with base 2.  Module B: avma 6..14 with base 5, of
\* which 13 lies beyond the 3-bit relative range.
ModA == [start |-> 2, end |-> 6, base |-> 2]
ModB == [start |-> 6, end |-> 14, base |-> 5]
\* Module C overlaps both (a module mapped over stale ones).
ModC == [start |-> 4, end |-> 8, base |-> 4]

MCModules == {ModA, ModB}
MCModulesOverlapping == {ModA, ModB, ModC}

\* What each module's unwind data yields: A gives a prologue rule on the
\* first frame and DWARF's uncacheable result otherwise; B's data fails at
\* relative address 3 and gives a frameless rule elsewhere; C has none.
MCUnwindData(m, rel, first) ==
    CASE m = ModA /\ first -> [kind |-> "JustReturn"]
      [] m = ModA -> Uncacheable
      [] m = ModB /\ rel = 3 -> AdapterError
      [] m = ModB -> [kind |-> "OffsetSp", n |-> 2]
      [] OTHER -> AdapterError

\* Lookup addresses 3, 7, 13 (pcs) and 4, 8 (return addresses 5, 9) fall
\* in slots 0, 1, 1 and 1, 2; 13 is in module B but beyond its relative
\* range.
\* x86-64's fallback rule.
MCFallbackRule == [kind |-> "UseFramePointer"]

MCPCs == {3, 7, 13}
MCRAs == {5, 9}

\* Whether the generation counter can wrap: each unwinder's construction and
\* each mutation takes one of its 2^GenBits values.  The passing runs keep
\* within it; MC_Unwinder_wrap.cfg does not.
GenerationsSuffice == Cardinality(Unwinders) + MaxMutations <= 2 ^ GenBits

\* The state without answer, which no later step reads and the invariants of
\* MC_Unwinder.cfg do not mention: states differing only in the last
\* answers are explored once.
MCView == <<created, modules, modulesGen, globalGen, cache, mutations>>

(***************************************************************************)
(* Refinement: the cached dispatcher implements RuleDispatch.  Both share   *)
(* created, modules and answer, and the abstract constants of the same      *)
(* names; the generations, the cache and the mutation bound are hidden.     *)
(***************************************************************************)
Abs == INSTANCE RuleDispatch

\* Every behaviour of the unwinders sharing the cache is one of RuleDispatch:
\* each unwind_first/unwind_next answers with the rule the unwinder's modules
\* at that moment give for the frame, whatever the cache held, whichever
\* unwinder stored it and however the generations moved.
AbsSpec == Abs!Spec
=============================================================================
