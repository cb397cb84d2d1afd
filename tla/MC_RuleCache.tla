---------------------------- MODULE MC_RuleCache ----------------------------
(***************************************************************************)
(* Three slots; addresses 1 and 4 share slot 1, 2 has slot 2; two          *)
(* generations, two rules, five lookups: enough for every kind of miss, for *)
(* an eviction and for a stale handle inserted after its slot was reused.  *)
(***************************************************************************)
EXTENDS RuleCache

CONSTANTS r1, r2

MCAddresses == {1, 2, 4}
MCGens == {0, 1}
MCRules == {r1, r2}
=============================================================================
