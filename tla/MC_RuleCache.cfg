CONSTANTS
    r1 = r1
    r2 = r2
    Addresses <- MCAddresses
    Gens <- MCGens
    Rules <- MCRules
    Slots = 3
    MaxLookups = 5

SPECIFICATION Spec

\* The bound on lookups ends every behaviour once the last handle is used.
CHECK_DEADLOCK FALSE

PROPERTY RefinesRuleCacheSpec
