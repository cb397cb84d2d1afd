---------------------------- MODULE RuleCacheSpec ----------------------------
(***************************************************************************)
(* What the rule cache promises its client (with_cache): a lossy map from  *)
(* (address, modules generation) keys to rules.  A lookup of a key the map *)
(* holds is a hit with that key's rule; any other lookup is a miss that    *)
(* hands out the key for one later insert, which may evict at most one    *)
(* other key.  It counts its hits and misses.                              *)
(***************************************************************************)
EXTENDS Integers, FiniteSets, Functions, TLC

CONSTANTS Keys, Rules, MaxLookups

VARIABLES
    store,        \* the keys the cache holds, with their rules
    outstanding,  \* keys of misses not yet inserted or dropped
    result,       \* the last lookup: its key and what it returned
    nHits, nMisses  \* lookups counted so far

vars == <<store, outstanding, result, nHits, nMisses>>

Hit(k, r) == [tag |-> "Hit", key |-> k, rule |-> r]
Miss(k) == [tag |-> "Miss", key |-> k]
NoResult == [tag |-> "None"]

Init ==
    /\ store = [k \in {} |-> CHOOSE r \in Rules : TRUE]
    /\ outstanding = {}
    /\ result = NoResult
    /\ nHits = 0
    /\ nMisses = 0

Lookup(k) ==
    /\ nHits + nMisses < MaxLookups
    /\ IF k \in DOMAIN store
       THEN /\ result' = Hit(k, store[k])
            /\ nHits' = nHits + 1
            /\ UNCHANGED <<outstanding, nMisses>>
       ELSE /\ result' = Miss(k)
            /\ outstanding' = outstanding \cup {k}
            /\ nMisses' = nMisses + 1
            /\ UNCHANGED nHits
    /\ UNCHANGED store

Insert(k, r) ==
    /\ k \in outstanding
    /\ outstanding' = outstanding \ {k}
    /\ \E kept \in SUBSET (DOMAIN store \ {k}) :
          /\ Cardinality((DOMAIN store \ {k}) \ kept) <= 1
          /\ store' = (k :> r) @@ Restrict(store, kept)
    /\ UNCHANGED <<result, nHits, nMisses>>

Drop(k) ==
    /\ k \in outstanding
    /\ outstanding' = outstanding \ {k}
    /\ UNCHANGED <<store, result, nHits, nMisses>>

Next ==
    \/ \E k \in Keys : Lookup(k) \/ Drop(k)
    \/ \E k \in Keys, r \in Rules : Insert(k, r)

Spec == Init /\ [][Next]_vars

=============================================================================
