--------------------------- MODULE UnwindRuleX86_64 ---------------------------
(***************************************************************************)
(* The x86-64 unwind rules and their execution (src/x86_64/unwind_rule.rs).*)
(* A rule says how to recover the caller's sp and bp; every rule then      *)
(* reads the return address at new_sp - 8.  Addresses are AddrBits wide    *)
(* (64 in the code) so that the checked additions overflow exactly where   *)
(* the code's do.  The stack is read through ReadStack, the read_stack     *)
(* callback, which returns a word or ReadFail.                             *)
(***************************************************************************)
EXTENDS Integers

CONSTANTS
    AddrBits,      \* width of u64 in the model
    ReadStack(_),  \* the read_stack callback: address -> word or ReadFail
    ReadFail       \* model value: the callback returned Err(())

ASSUME AddrBits \in Nat \ {0}

U64 == 2 ^ AddrBits
Addr == 0 .. (U64 - 1)
\* i64 values the model can form: signed numbers of the same width.
I64 == (-(U64 \div 2)) .. ((U64 \div 2) - 1)

Overflow == -1   \* None of checked_add

\* Mutant of checked_add: the overflow check dropped.
CheckedAdd_NoCheck(a, b) == a + b

\* u64::checked_add
CheckedAdd(a, b) == IF a + b < U64 THEN a + b ELSE Overflow

\* lhs.wrapping_add(rhs as u64): two's complement addition modulo 2^64.
wrapping_add_signed(lhs, rhs) == (lhs + rhs) % U64

\* Mutant: the non-negative direction compared strictly.
checked_add_signed_Strict(lhs, rhs) ==
    LET res == wrapping_add_signed(lhs, rhs) IN
    IF (rhs >= 0 /\ res > lhs) \/ (rhs < 0 /\ res < lhs) THEN res ELSE Overflow

\* The hand-written signed checked addition: wrap, then check the direction.
checked_add_signed(lhs, rhs) ==
    LET res == wrapping_add_signed(lhs, rhs) IN
    IF (rhs >= 0 /\ res >= lhs) \/ (rhs < 0 /\ res < lhs) THEN res ELSE Overflow

(***************************************************************************)
(* The rule vocabulary (enum UnwindRuleX86_64).                            *)
(***************************************************************************)
JustReturn == [kind |-> "JustReturn"]
OffsetSp(n) == [kind |-> "OffsetSp", n |-> n]
OffsetSpAndRestoreBp(n, k) == [kind |-> "OffsetSpAndRestoreBp", n |-> n, k |-> k]
UseFramePointer == [kind |-> "UseFramePointer"]

rule_for_stub_functions == JustReturn
rule_for_function_start == JustReturn
fallback_rule == UseFramePointer

(***************************************************************************)
(* Results of exec: Ok(Some(ra)), Ok(None), Err(e), and Panic for an       *)
(* arithmetic overflow that a debug build traps.  exec takes the registers *)
(* by &mut; an outcome pairs its result with the registers it leaves.      *)
(***************************************************************************)
OkSome(ra) == [tag |-> "ok", ra |-> ra]
OkNone == [tag |-> "none"]
Err(e) == [tag |-> "err", err |-> e]
Panic == [tag |-> "panic"]
Errors == {"IntegerOverflow", "CouldNotReadStack", "FramepointerUnwindingMovedBackwards",
           "ReturnAddressIsNull"}
Outcome(res, regs) == [res |-> res, regs |-> regs]

SpBp(nsp, nbp) == [tag |-> "spbp", sp |-> nsp, bp |-> nbp]

\* Mutant: frame-pointer unwinding without the moved-backwards check.
UseFramePointerSpBp_NoBackwardsCheck(sp, bp) ==
    LET nsp == CheckedAdd(bp, 16) IN
    IF bp = 0 THEN OkNone
    ELSE IF nsp = Overflow THEN Err("IntegerOverflow")
    ELSE IF ReadStack(bp) = ReadFail THEN Err("CouldNotReadStack")
    ELSE SpBp(nsp, ReadStack(bp))

\* UseFramePointer: walk the linked list of saved frame pointers, where
\* *bp is the caller's bp and the return address sits above it.  A zero bp
\* is the root; a bp that would not move sp up is garbage.
UseFramePointerSpBp(sp, bp) ==
    LET nsp == CheckedAdd(bp, 16) IN
    IF bp = 0 THEN OkNone
    ELSE IF nsp = Overflow THEN Err("IntegerOverflow")
    ELSE IF nsp <= sp THEN Err("FramepointerUnwindingMovedBackwards")
    ELSE IF ReadStack(bp) = ReadFail THEN Err("CouldNotReadStack")
    ELSE SpBp(nsp, ReadStack(bp))

\* The first half of exec: the caller's (new_sp, new_bp), or an early return.
CallerSpBp(rule, regs) ==
    LET sp == regs.sp
        bp == regs.bp
        OffsetBy(n) == CheckedAdd(sp, n * 8)
    IN
    CASE rule.kind = "JustReturn" ->
            IF OffsetBy(1) = Overflow THEN Err("IntegerOverflow")
            ELSE SpBp(OffsetBy(1), bp)
      [] rule.kind = "OffsetSp" ->
            IF OffsetBy(rule.n) = Overflow THEN Err("IntegerOverflow")
            ELSE SpBp(OffsetBy(rule.n), bp)
      [] rule.kind = "OffsetSpAndRestoreBp" ->
            LET loc == checked_add_signed(sp, rule.k * 8) IN
            IF OffsetBy(rule.n) = Overflow \/ loc = Overflow THEN Err("IntegerOverflow")
            ELSE IF ReadStack(loc) = ReadFail THEN Err("CouldNotReadStack")
            ELSE SpBp(OffsetBy(rule.n), ReadStack(loc))
      [] rule.kind = "UseFramePointer" -> UseFramePointerSpBp(sp, bp)

\* The address of the return address, new_sp - 8.  The subtraction is
\* unchecked: below 8 a debug build panics and a release build wraps.
ReturnAddressLocations(nsp) ==
    IF nsp >= 8 THEN {[trap |-> FALSE, loc |-> nsp - 8]}
    ELSE {[trap |-> TRUE, loc |-> 0], [trap |-> FALSE, loc |-> (nsp - 8) % U64]}

\* Mutant: the registers committed before the return address is read.
ReturnAddressStep_CommitFirst(s, regs) ==
    LET new == [ip |-> regs.ip, sp |-> s.sp, bp |-> s.bp] IN
    { IF r.trap THEN Outcome(Panic, new)
      ELSE IF ReadStack(r.loc) = ReadFail THEN Outcome(Err("CouldNotReadStack"), new)
      ELSE IF ReadStack(r.loc) = 0 THEN Outcome(OkNone, new)
      ELSE Outcome(OkSome(ReadStack(r.loc)), [new EXCEPT !.ip = ReadStack(r.loc)])
    : r \in ReturnAddressLocations(s.sp) }

\* Mutant: a zero return address taken for a caller, not for the root.
ReturnAddressStep_NoRootCheck(s, regs) ==
    { IF r.trap THEN Outcome(Panic, regs)
      ELSE IF ReadStack(r.loc) = ReadFail THEN Outcome(Err("CouldNotReadStack"), regs)
      ELSE Outcome(OkSome(ReadStack(r.loc)),
                   [ip |-> ReadStack(r.loc), sp |-> s.sp, bp |-> s.bp])
    : r \in ReturnAddressLocations(s.sp) }

\* The second half of exec: read the return address at new_sp - 8; a zero
\* return address is the root.  The registers are committed only after the
\* read succeeded and found a non-zero return address.
ReturnAddressStep(s, regs) ==
    { IF r.trap THEN Outcome(Panic, regs)
      ELSE IF ReadStack(r.loc) = ReadFail THEN Outcome(Err("CouldNotReadStack"), regs)
      ELSE IF ReadStack(r.loc) = 0 THEN Outcome(OkNone, regs)
      ELSE Outcome(OkSome(ReadStack(r.loc)),
                   [ip |-> ReadStack(r.loc), sp |-> s.sp, bp |-> s.bp])
    : r \in ReturnAddressLocations(s.sp) }

\* exec: the outcomes the builds of the code can produce.
exec(rule, regs) ==
    LET s == CallerSpBp(rule, regs) IN
    IF s.tag # "spbp" THEN {Outcome(s, regs)} ELSE ReturnAddressStep(s, regs)

=============================================================================
