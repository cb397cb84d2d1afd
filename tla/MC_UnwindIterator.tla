-------------------------- MODULE MC_UnwindIterator --------------------------
(***************************************************************************)
(* Model of UnwindIterator for TLC: 7-bit addresses (128 bytes, 16 stack   *)
(* words), the stack image of the unit test test_basic scaled to that      *)
(* space with an unreadable hole and a self-referencing frame pointer, and *)
(* every initial sp and bp.                                                *)
(***************************************************************************)
EXTENDS UnwindIterator, Sequences, TLC

\* Word i of the stack holds StackWords[i+1]; test_basic's layout, with code
\* addresses 99 .. 94 and a frame-pointer chain 32 -> 64 -> 96 -> 0.
\* Words 6 and 7 are unmapped; word 10 (address 80) points to itself.
StackWords == <<1, 2, 99, 4, 64, 98, ReadFail, ReadFail, 96, 97, 80, 95, 0, 94, 0, 93>>

\* read_stack as in test_basic: the word containing the address; nothing
\* is mapped beyond the last word.
MCReadStack(a) ==
    IF a \div 8 < Len(StackWords) THEN StackWords[(a \div 8) + 1] ELSE ReadFail

MCAddrBits == 7

\* The rules the dispatcher produces from well-formed unwind data: every
\* frame pops at least its return address.
MCRules == {JustReturn, OffsetSp(1), OffsetSp(2), OffsetSpAndRestoreBp(2, 0),
            OffsetSpAndRestoreBp(1, -1), UseFramePointer}

\* Malformed compact unwind info (a frameless stack size below 8) also
\* produces rules that pop nothing.
MCRulesMalformed == MCRules \cup {OffsetSp(0)}

MCInitialPCs == {99}

\* The reference for checked_add_signed: the sum when it is a u64, None when
\* it leaves the range.
CheckedAddSignedRef(a, b) == IF a + b \in Addr THEN a + b ELSE Overflow

\* The wrap-then-compare-direction implementation of checked_add_signed,
\* which exec uses to offset sp and bp, returns exactly the mathematical sum
\* when it fits in a u64 and None otherwise, for the registers of every
\* state (every u64, as walks start from every sp and bp) and every i64
\* offset of the model's width, including 0 and the extremes.
CheckedAddSignedCorrect ==
    \A a \in {regs.sp, regs.bp}, b \in I64 :
        checked_add_signed(a, b) = CheckedAddSignedRef(a, b)
=============================================================================
