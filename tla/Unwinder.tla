------------------------------- MODULE Unwinder -------------------------------
(***************************************************************************)
(* Unwinder instances (UnwinderInternal, src/unwinder.rs) sharing one rule *)
(* cache (RuleCache, src/rule_cache.rs): each keeps its modules sorted by  *)
(* start address and tags its state with a generation drawn from the      *)
(* process-wide counter GLOBAL_MODULES_GENERATION; unwind_frame looks the  *)
(* frame's address up in the shared cache under its generation and, on a  *)
(* miss, finds the module, asks the module's unwind data for a rule and    *)
(* caches it.  What the unwind data yields for an address is the constant  *)
(* UnwindData; executing the rule is UnwindIterator's business.            *)
(***************************************************************************)
EXTENDS Integers, Sequences, SequencesExt, FiniteSets

CONSTANTS
    Unwinders,        \* unwinder instances sharing the cache
    Modules,          \* modules: [start, end, base] (avma_range, base_avma)
    UnwindData(_, _, _), \* (module, relative address, is_first_frame) ->
                         \*   a rule, Uncacheable or AdapterError
    PCs, RAs,         \* instruction pointers and return addresses unwound
    Slots,            \* number of cache slots (509 in the code)
    GenBits,          \* width of the generation counter (16 in the code)
    RelBits,          \* width of a relative address (32 in the code)
    MaxMutations,     \* bound on add_module/remove_module calls
    fallback_rule     \* A::UnwindRule::fallback_rule() of the architecture

ASSUME /\ Slots \in Nat \ {0}
       /\ \A m \in Modules : m.start < m.end
       \* A return address points after a call instruction, so ra - 1 is
       \* never the start of an instruction a thread can be stopped at.
       /\ \A ra \in RAs : ra # 0 /\ ra - 1 \notin PCs

Uncacheable == [kind |-> "Uncacheable"]
AdapterError == [kind |-> "AdapterError"]
Empty == [kind |-> "empty"]
NoAnswer == [kind |-> "NoAnswer"]
Answer(la, rule) == [at |-> la, rule |-> rule]

GenMod == 2 ^ GenBits

VARIABLES
    created,     \* unwinders constructed so far
    modules,     \* modules[u]: u's module list, sorted by start
    modulesGen,  \* modulesGen[u]: u's modules_generation
    globalGen,   \* GLOBAL_MODULES_GENERATION
    cache,       \* cache[s]: Empty or [address, gen, rule]
    mutations,   \* add/remove calls so far (bounded)
    answer       \* answer[u]: the lookup address of u's last unwind_frame
                 \*   and the rule with_cache executed (or Uncacheable)

vars == <<created, modules, modulesGen, globalGen, cache, mutations, answer>>

SlotIds == 0 .. (Slots - 1)

(***************************************************************************)
(* FrameAddress and its lookup address.                                    *)
(***************************************************************************)
Frames == {[kind |-> "ip", addr |-> a] : a \in PCs} \cup {[kind |-> "ra", addr |-> a] : a \in RAs}
address_for_lookup(f) == IF f.kind = "ra" THEN f.addr - 1 ELSE f.addr
is_first_frame(f) == f.kind = "ip"
LookupAddresses == {address_for_lookup(f) : f \in Frames}

(***************************************************************************)
(* The module list (sorted by avma_range.start) and its binary search.     *)
(***************************************************************************)
\* binary_search_by_key(&key, |m| m.avma_range.start): Ok(i) for any i whose
\* start is key (which one is unspecified), else Err(insertion index).
\* Indices are 1-based here.
SearchOk(mods, key) == {i \in 1..Len(mods) : mods[i].start = key}
SearchErr(mods, key) == Cardinality({i \in 1..Len(mods) : mods[i].start < key}) + 1

NoModule == [found |-> FALSE]

\* Mutant: the end of the range treated as inclusive.
after_module_Inclusive(m, address) == m.end < address

\* The address is at or after the end of module m's range.
after_module(m, address) == m.end <= address

\* find_module_for_address: the module whose range holds the address and
\* the address relative to its base, if it fits in RelBits bits.
find_module_for_address(u, address) ==
    LET mods == modules[u]
        i == IF SearchOk(mods, address) # {} THEN CHOOSE j \in SearchOk(mods, address) : TRUE
             ELSE SearchErr(mods, address) - 1
    IN
    IF i = 0 THEN NoModule                                  \* before the first module
    ELSE IF SearchOk(mods, address) = {} /\ after_module(mods[i], address) THEN NoModule
    ELSE IF address < mods[i].base THEN NoModule            \* invalid base address
    ELSE IF address - mods[i].base >= 2 ^ RelBits THEN NoModule  \* u32::try_from fails
    ELSE [found |-> TRUE, module |-> mods[i], rel |-> address - mods[i].base]

\* Mutant: an Uncacheable result treated like a failure, its fallback cached.
RuleOnMiss_UncacheableAsFallback(u, la, first) ==
    LET r == find_module_for_address(u, la) IN
    IF ~r.found THEN fallback_rule
    ELSE LET res == UnwindData(r.module, r.rel, first) IN
         IF res \in {AdapterError, Uncacheable} THEN fallback_rule ELSE res

(***************************************************************************)
(* The rule with_cache computes on a cache miss for lookup address la, or  *)
(* Uncacheable.  An adapter error is replaced by the fallback rule.        *)
(***************************************************************************)
RuleOnMiss(u, la, first) ==
    LET r == find_module_for_address(u, la) IN
    IF ~r.found THEN fallback_rule
    ELSE LET res == UnwindData(r.module, r.rel, first) IN
         IF res = AdapterError THEN fallback_rule ELSE res

(***************************************************************************)
(* Operations                                                              *)
(***************************************************************************)

\* Mutant: a per-unwinder counter instead of the process-wide one.
NextGenerationVars_Local(u) ==
    /\ modulesGen' = [modulesGen EXCEPT ![u] = (@ + 1) % GenMod]
    /\ UNCHANGED globalGen

\* next_global_modules_generation: fetch_add(1) returns the old value; the
\* u16 counter wraps.
NextGenerationVars(u) ==
    /\ modulesGen' = [modulesGen EXCEPT ![u] = globalGen]
    /\ globalGen' = (globalGen + 1) % GenMod

\* UnwinderInternal::new
New(u) ==
    /\ u \notin created
    /\ created' = created \cup {u}
    /\ NextGenerationVars(u)
    /\ UNCHANGED <<modules, cache, mutations, answer>>

\* add_module: insert at the binary-search position (before an equal start,
\* after printing a warning), then take a new generation.
add_module(u, m) ==
    /\ u \in created
    /\ mutations < MaxMutations
    /\ \E i \in IF SearchOk(modules[u], m.start) # {} THEN SearchOk(modules[u], m.start)
                 ELSE {SearchErr(modules[u], m.start)} :
          modules' = [modules EXCEPT ![u] = InsertAt(@, i, m)]
    /\ NextGenerationVars(u)
    /\ mutations' = mutations + 1
    /\ UNCHANGED <<created, cache, answer>>

\* remove_module: remove the module starting exactly at start, if any, and
\* take a new generation; otherwise nothing changes (a stuttering step).
remove_module(u, start) ==
    /\ u \in created
    /\ mutations < MaxMutations
    /\ \E i \in SearchOk(modules[u], start) :
          modules' = [modules EXCEPT ![u] = RemoveAt(@, i)]
    /\ NextGenerationVars(u)
    /\ mutations' = mutations + 1
    /\ UNCHANGED <<created, cache, answer>>

\* Mutant: a lookup that does not compare the stored address.
IsHit_NoAddressCheck(la, gen) ==
    LET e == cache[la % Slots] IN
    e # Empty /\ e.gen = gen

\* RuleCache::lookup: a hit needs the slot's generation and address to match.
IsHit(la, gen) ==
    LET e == cache[la % Slots] IN
    e # Empty /\ e.gen = gen /\ e.address = la

\* RuleCache::insert: the handle's slot gets the handle's address and
\* generation (those of the lookup) with the rule.
insert(la, gen, rule) ==
    cache' = [cache EXCEPT ![la % Slots] = [address |-> la, gen |-> gen, rule |-> rule]]

\* with_cache returns an Uncacheable result at once, without inserting.
returns_uncached(rule) == rule = Uncacheable

\* unwind_frame / with_cache: a hit executes the cached rule; a miss
\* computes the rule and, unless it is uncacheable (returned at once),
\* inserts it with the address and generation of the lookup before
\* executing it.
unwind_frame(u, f) ==
    LET la == address_for_lookup(f)
        rule == RuleOnMiss(u, la, is_first_frame(f))
    IN
    /\ u \in created
    /\ \/ /\ IsHit(la, modulesGen[u])
          /\ answer' = [answer EXCEPT ![u] = Answer(la, cache[la % Slots].rule)]
          /\ UNCHANGED cache
       \/ /\ ~IsHit(la, modulesGen[u])
          /\ returns_uncached(rule)
          /\ answer' = [answer EXCEPT ![u] = Answer(la, Uncacheable)]
          /\ UNCHANGED cache
       \/ /\ ~IsHit(la, modulesGen[u])
          /\ ~returns_uncached(rule)
          /\ insert(la, modulesGen[u], rule)
          /\ answer' = [answer EXCEPT ![u] = Answer(la, rule)]
    /\ UNCHANGED <<created, modules, modulesGen, globalGen, mutations>>

\* Unwinder::unwind_first / unwind_next (UnwinderX86_64 delegates them):
\* the first frame is the pc, later ones are return addresses.
unwind_first(u, pc) == unwind_frame(u, [kind |-> "ip", addr |-> pc])
unwind_next(u, ra) == unwind_frame(u, [kind |-> "ra", addr |-> ra])

Init ==
    /\ created = {}
    /\ modules = [u \in Unwinders |-> <<>>]
    /\ modulesGen = [u \in Unwinders |-> 0]
    /\ globalGen = 0
    /\ cache = [s \in SlotIds |-> Empty]
    /\ mutations = 0
    /\ answer = [u \in Unwinders |-> NoAnswer]

Next ==
    \/ \E u \in Unwinders : New(u)
    \/ \E u \in Unwinders, m \in Modules : add_module(u, m)
    \/ \E u \in Unwinders, m \in Modules : remove_module(u, m.start)
    \/ \E u \in Unwinders, pc \in PCs : unwind_first(u, pc)
    \/ \E u \in Unwinders, ra \in RAs : unwind_next(u, ra)

Spec == Init /\ [][Next]_vars

\* max_known_code_address: the end of the last module in start order.
max_known_code_address(u) == IF modules[u] = <<>> THEN 0 ELSE Last(modules[u]).end

(***************************************************************************)
(* Properties                                                              *)
(***************************************************************************)

\* Whether a lookup address comes from an instruction pointer (first frame);
\* the assumption on PCs and RAs makes this a function of the address.
FirstForLookup(la) == la \in PCs

\* A lookup that hits in the shared cache returns exactly the rule the
\* unwinder would compute for that address from its current modules: no
\* add_module or remove_module of any unwinder sharing the cache, nor a rule
\* stored by another unwinder or for a colliding address, makes a hit stale.
CacheHitsAreFresh ==
    \A u \in created, la \in LookupAddresses :
        IsHit(la, modulesGen[u])
            => cache[la % Slots].rule = RuleOnMiss(u, la, FirstForLookup(la))

\* Every address of the modules' span and one past it.
ProbeAddresses == 0 .. Max({m.end : m \in Modules})

\* The reference lookup: a module whose range holds the address, if the
\* address is at or above its base and within the relative range.
FindModuleRef(u, a) ==
    LET holding == {i \in 1 .. Len(modules[u]) : modules[u][i].start <= a /\ a < modules[u][i].end}
        m == modules[u][CHOOSE i \in holding : TRUE]
    IN
    IF holding = {} \/ a < m.base \/ a - m.base >= 2 ^ RelBits THEN NoModule
    ELSE [found |-> TRUE, module |-> m, rel |-> a - m.base]

\* The binary search of find_module_for_address finds, for every address,
\* the module that holds it (with its relative address) and no module for
\* addresses outside every range, below a base or too far from it, after
\* any sequence of additions (duplicates included) and removals.
FindModuleCorrect ==
    \A u \in created, a \in ProbeAddresses :
        find_module_for_address(u, a) = FindModuleRef(u, a)

\* The address ranges of registered modules that do not share a start
\* address never overlap.
ModulesDisjoint ==
    \A u \in created : \A i, j \in 1 .. Len(modules[u]) :
        (i # j /\ modules[u][i].start # modules[u][j].start)
            => (modules[u][i].end <= modules[u][j].start \/ modules[u][j].end <= modules[u][i].start)

=============================================================================
