----------------------------- MODULE RuleDispatch -----------------------------
(***************************************************************************)
(* What an unwinder promises about the rule it uses for a frame, with no   *)
(* cache and no binary search: each unwinder holds its modules in start    *)
(* order, and every unwind_frame call answers from the modules it holds at *)
(* that moment -- the module whose range holds the lookup address, the     *)
(* unwind data of that module, the fallback rule where there is no module  *)
(* or the data fails.  Unwinder (shared cache, generations, binary search) *)
(* is checked to implement this specification.                            *)
(***************************************************************************)
EXTENDS Integers, Sequences, SequencesExt

CONSTANTS
    Unwinders, Modules, UnwindData(_, _, _), PCs, RAs, RelBits,
    Uncacheable,    \* the data answered by unwinding in place
    AdapterError,   \* the data failed
    fallback_rule,  \* the architecture's fallback rule
    NoAnswer        \* no unwind_frame call yet

VARIABLES
    created,   \* unwinders constructed so far
    modules,   \* modules[u]: the modules u holds, in start order
    answer     \* answer[u]: the address of u's last unwind_frame and its rule

vars == <<created, modules, answer>>

InStartOrder(s) == \A i, j \in 1 .. Len(s) : i < j => s[i].start <= s[j].start

\* The module of u holding address a, if a is at or above its base and
\* within the relative range; the data's answer for it; the fallback.
RuleFor(u, a, first) ==
    LET holding == {i \in 1 .. Len(modules[u]) :
                        modules[u][i].start <= a /\ a < modules[u][i].end}
        m == modules[u][CHOOSE i \in holding : TRUE]
        res == UnwindData(m, a - m.base, first)
    IN
    IF holding = {} \/ a < m.base \/ a - m.base >= 2 ^ RelBits THEN fallback_rule
    ELSE IF res = AdapterError THEN fallback_rule
    ELSE res

Init ==
    /\ created = {}
    /\ modules = [u \in Unwinders |-> <<>>]
    /\ answer = [u \in Unwinders |-> NoAnswer]

Create(u) ==
    /\ u \notin created
    /\ created' = created \cup {u}
    /\ UNCHANGED <<modules, answer>>

\* A module joins u's modules anywhere that keeps the start order.
AddModule(u, m) ==
    /\ u \in created
    /\ \E i \in 1 .. (Len(modules[u]) + 1) :
          /\ InStartOrder(InsertAt(modules[u], i, m))
          /\ modules' = [modules EXCEPT ![u] = InsertAt(@, i, m)]
    /\ UNCHANGED <<created, answer>>

\* A module starting at start leaves u's modules.
RemoveModule(u, start) ==
    /\ u \in created
    /\ \E i \in 1 .. Len(modules[u]) :
          /\ modules[u][i].start = start
          /\ modules' = [modules EXCEPT ![u] = RemoveAt(@, i)]
    /\ UNCHANGED <<created, answer>>

\* The rule for the frame at pc (first frame) or return address ra,
\* looked up at ra - 1, from u's current modules.
Unwind(u, a, first) ==
    /\ u \in created
    /\ answer' = [answer EXCEPT ![u] = [at |-> a, rule |-> RuleFor(u, a, first)]]
    /\ UNCHANGED <<created, modules>>

Next ==
    \/ \E u \in Unwinders : Create(u)
    \/ \E u \in Unwinders, m \in Modules : AddModule(u, m) \/ RemoveModule(u, m.start)
    \/ \E u \in Unwinders, pc \in PCs : Unwind(u, pc, TRUE)
    \/ \E u \in Unwinders, ra \in RAs : Unwind(u, ra - 1, FALSE)

Spec == Init /\ [][Next]_vars

=============================================================================
