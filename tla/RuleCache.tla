------------------------------- MODULE RuleCache -------------------------------
(***************************************************************************)
(* RuleCache (src/rule_cache.rs) on its own: a direct-mapped table of      *)
(* Slots entries (509 in the code) keyed by address and modules           *)
(* generation, with usage statistics.  lookup returns a hit or a handle    *)
(* for the slot, which the client (with_cache) passes to insert, or drops  *)
(* when the unwind data answered Uncacheable.  A rule is a model value.     *)
(***************************************************************************)
EXTENDS Integers, FiniteSets

CONSTANTS
    Addresses, Gens, Rules,
    Slots,       \* 509 in the code
    MaxLookups   \* bound on lookup calls (the statistics are counters)

VARIABLES
    entries,  \* entries[s]: None or [address, modules_generation, unwind_rule]
    stats,    \* CacheStats
    handles,  \* the CacheHandles lookup handed out and not yet consumed
    result    \* the last lookup: its arguments and what it returned

vars == <<entries, stats, handles, result>>

None == [tag |-> "None"]
SlotIds == 0 .. (Slots - 1)

\* CacheStats::new (Default) and its accessors.
CacheStats_new == [hit_count |-> 0, miss_empty_slot_count |-> 0,
                   miss_wrong_modules_count |-> 0, miss_wrong_address_count |-> 0]
hits(s) == s.hit_count
misses(s) == s.miss_empty_slot_count + s.miss_wrong_modules_count + s.miss_wrong_address_count
total(s) == hits(s) + misses(s)

\* RuleCache::new
Init ==
    /\ entries = [s \in SlotIds |-> None]
    /\ stats = CacheStats_new
    /\ handles = {}
    /\ result = None

\* CacheResult: a hit carries the rule, a miss the handle; here with the
\* key the lookup was called with.
HitResult(address, gen, rule) == [tag |-> "Hit", key |-> <<address, gen>>, rule |-> rule]
MissResult(h) == [tag |-> "Miss", handle |-> h]

Handle(address, gen) == [slot |-> address % Slots, address |-> address, modules_generation |-> gen]
Count(field) == stats' = [stats EXCEPT ![field] = @ + 1]
MissWith(address, gen) ==
    /\ result' = MissResult(Handle(address, gen))
    /\ handles' = handles \cup {Handle(address, gen)}

\* Mutant: a filled slot of the right generation is a hit whatever address
\* it was stored for.
same_address_Ignored(e, address) == TRUE

\* The entry was stored for this address (not one sharing its slot).
same_address(e, address) == e.address = address

\* RuleCache::lookup: an empty slot, a slot of another generation and a slot
\* of another address are misses, each counted apart; a hit returns the
\* stored rule.
lookup(address, gen) ==
    LET e == entries[address % Slots] IN
    /\ total(stats) < MaxLookups
    /\ CASE e = None -> Count("miss_empty_slot_count") /\ MissWith(address, gen)
         [] e.modules_generation = gen /\ same_address(e, address) ->
               /\ Count("hit_count")
               /\ result' = HitResult(address, gen, e.unwind_rule)
               /\ UNCHANGED handles
         [] e.modules_generation = gen ->
               Count("miss_wrong_address_count") /\ MissWith(address, gen)
         [] OTHER -> Count("miss_wrong_modules_count") /\ MissWith(address, gen)
    /\ UNCHANGED entries

\* RuleCache::insert: the handle's slot gets the handle's key and the rule.
insert(h, unwind_rule) ==
    /\ h \in handles
    /\ entries' = [entries EXCEPT ![h.slot] =
                      [address |-> h.address, modules_generation |-> h.modules_generation,
                       unwind_rule |-> unwind_rule]]
    /\ handles' = handles \ {h}
    /\ UNCHANGED <<stats, result>>

\* with_cache returning UnwindResult::Uncacheable: the handle is dropped.
drop(h) ==
    /\ h \in handles
    /\ handles' = handles \ {h}
    /\ UNCHANGED <<entries, stats, result>>

Next ==
    \/ \E a \in Addresses, g \in Gens : lookup(a, g)
    \/ \E h \in handles : drop(h) \/ \E r \in Rules : insert(h, r)

Spec == Init /\ [][Next]_vars

(***************************************************************************)
(* Refinement: the keys the slots hold, with their rules, are the abstract *)
(* store; stats() gives the abstract counts.                               *)
(***************************************************************************)
\* RuleCache::stats: a snapshot of the counters.
snapshot == stats

Filled == {s \in SlotIds : entries[s] # None}
Key(e) == <<e.address, e.modules_generation>>
AbsResult ==
    CASE result.tag = "Hit" -> result
      [] result.tag = "Miss" -> [tag |-> "Miss", key |-> Key(result.handle)]
      [] OTHER -> result

Abs == INSTANCE RuleCacheSpec WITH
    Keys <- Addresses \X Gens,
    store <- [k \in {Key(entries[s]) : s \in Filled} |->
                 entries[CHOOSE s \in Filled : Key(entries[s]) = k].unwind_rule],
    outstanding <- {Key(h) : h \in handles},
    result <- AbsResult,
    nHits <- hits(snapshot),
    nMisses <- misses(snapshot)

\* The direct-mapped table with its generation tags behaves as a lossy map:
\* a hit returns the rule last inserted for exactly that address and
\* generation, an insert evicts at most the one entry of its slot, and
\* stats() counts every lookup once, as a hit or as a miss.
RefinesRuleCacheSpec == Abs!Spec

=============================================================================
