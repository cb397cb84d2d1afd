---------------------------- MODULE UnwindIterator ----------------------------
(***************************************************************************)
(* The frame-by-frame walker UnwindIterator (src/unwinder.rs) driving the  *)
(* x86-64 rule executor.  Each call of next() in state Unwinding asks the  *)
(* unwinder for the rule of the current frame address (from the cache or   *)
(* from the module's unwind data; here any rule of Rules, the vocabulary   *)
(* the dispatcher can produce) and executes it against the registers.      *)
(* The caller stops calling next() after an error.                         *)
(***************************************************************************)
EXTENDS UnwindRuleX86_64

CONSTANTS
    Rules,       \* the rules the dispatcher may return for a frame address
    InitialPCs   \* the pcs a sampled thread may be stopped at

ASSUME InitialPCs \subseteq Addr

VARIABLES
    state,   \* UnwindIteratorState: Initial(pc) | Unwinding(frame) | Done
    regs,    \* UnwindRegsX86_64 {ip, sp, bp} owned by the iterator
    out      \* the value the last call of next() returned

vars == <<state, regs, out>>

\* FrameAddress::InstructionPointer / FrameAddress::ReturnAddress
InstructionPointer(a) == [kind |-> "ip", addr |-> a]
ReturnAddress(a) == [kind |-> "ra", addr |-> a]
\* FrameAddress::from_return_address: a null return address has no frame.
NoFrame == [kind |-> "none"]
from_return_address(ra) == IF ra = 0 THEN NoFrame ELSE ReturnAddress(ra)

Initial(pc) == [tag |-> "Initial", pc |-> pc]
Unwinding(f) == [tag |-> "Unwinding", frame |-> f]
Done == [tag |-> "Done"]

Frames == {InstructionPointer(a) : a \in Addr} \cup {ReturnAddress(a) : a \in Addr \ {0}}
Regs == [ip : Addr, sp : Addr, bp : Addr]
NextResults == {[tag |-> "frame", frame |-> f] : f \in Frames}
               \cup {OkNone, Panic, [tag |-> "none_yet"]} \cup {Err(e) : e \in Errors}

TypeOK ==
    /\ state \in {Initial(pc) : pc \in InitialPCs} \cup {Unwinding(f) : f \in Frames} \cup {Done}
    /\ regs \in Regs
    /\ out \in NextResults

\* UnwindIterator::new: the walk starts from a stopped thread's registers.
Init ==
    /\ \E pc \in InitialPCs :
          /\ state = Initial(pc)
          /\ \E sp, bp \in Addr : regs = [ip |-> pc, sp |-> sp, bp |-> bp]
    /\ out = [tag |-> "none_yet"]

Stopped == out.tag \in {"err", "panic"}

\* next() in state Initial: yield the instruction pointer without unwinding.
NextInitial ==
    /\ state.tag = "Initial"
    /\ state' = Unwinding(InstructionPointer(state.pc))
    /\ out' = [tag |-> "frame", frame |-> InstructionPointer(state.pc)]
    /\ UNCHANGED regs

\* next() in state Unwinding: unwind_frame, then act on its result.
\* Ok(Some(ra)) moves to the caller's frame, or fails if ra is null.
NextUnwindStep(o) ==
    /\ o.res.tag = "ok"
    /\ regs' = o.regs
    /\ IF from_return_address(o.res.ra) = NoFrame
          THEN /\ out' = Err("ReturnAddressIsNull")
               /\ UNCHANGED state
          ELSE /\ state' = Unwinding(from_return_address(o.res.ra))
               /\ out' = [tag |-> "frame", frame |-> from_return_address(o.res.ra)]

\* Ok(None): the root was found; the walk is done.
NextUnwindRoot(o) ==
    /\ o.res.tag = "none"
    /\ state' = Done
    /\ out' = OkNone
    /\ regs' = o.regs

\* Err(e) is returned by `?` without touching the iterator state; a panic
\* ends the process.
NextUnwindFail(o) ==
    /\ o.res.tag \in {"err", "panic"}
    /\ out' = o.res
    /\ regs' = o.regs
    /\ UNCHANGED state

NextUnwinding ==
    /\ state.tag = "Unwinding"
    /\ ~Stopped
    /\ \E rule \in Rules : \E o \in exec(rule, regs) :
          \/ NextUnwindStep(o)
          \/ NextUnwindRoot(o)
          \/ NextUnwindFail(o)

Next == NextInitial \/ NextUnwinding

Spec == Init /\ [][Next]_vars

(***************************************************************************)
(* Properties                                                              *)
(***************************************************************************)

\* A call of next() that returns an error leaves the iterator's state and
\* its registers exactly as they were (exec commits the registers only
\* after every read succeeded), so a walk that failed can be reported up to
\* the last good frame and a retry sees the same frame.
ErrorLeavesStateUnchanged ==
    [][out'.tag = "err" => UNCHANGED <<state, regs>>]_vars

\* Every frame the walk steps to has a strictly higher stack pointer than
\* the frame it came from: the rules only pop the stack, and frame-pointer
\* unwinding refuses a bp that would move sp backwards.
StackProgress ==
    [][(state.tag = "Unwinding" /\ out'.tag = "frame") => regs'.sp > regs.sp]_vars

\* No register state and stack contents make unwinding panic (the arithmetic
\* on sp and bp is checked).
NeverPanics == out.tag # "panic"

=============================================================================
