--------------------------- MODULE TrimmedAmount ---------------------------
(***************************************************************************)
(* NTT's wire amounts (trimmed.rs): at most TrimmedDecimals decimals, and  *)
(* at most MaxTrimmed (u64::MAX), scaled down by truncation.               *)
(***************************************************************************)
EXTENDS Integers

CONSTANTS
    TrimmedDecimals,  \* TRIMMED_DECIMALS, NTT's wire precision ceiling
    MaxTrimmed,       \* u64::MAX
    MaxDecimals       \* the largest precision a u128 power of ten holds

Decimals == 0..MaxDecimals

ASSUME TrimmedAssumption ==
    /\ TrimmedDecimals \in Nat /\ MaxTrimmed \in Nat /\ MaxDecimals \in Nat
    /\ \A n \in Decimals : 10^n \in Nat \ {0}

Least(m, n) == IF m < n THEN m ELSE n

\* scale: truncates going down, multiplies going up.
Scale(amount, from, to) ==
    IF from = to THEN amount
    ELSE IF from > to THEN amount \div 10^(from - to)
    ELSE amount * 10^(to - from)

Untrim(trimmed, to) == Scale(trimmed.amount, trimmed.decimals, to)

TrimmedOf(amount, from, to) ==
    LET decimals == Least(TrimmedDecimals, Least(to, from))
    IN  [amount |-> Scale(amount, from, decimals), decimals |-> decimals]

\* trim fails with AmountTooLarge on a scaled amount that is no u64.
Trims(amount, from, to) == TrimmedOf(amount, from, to).amount <= MaxTrimmed

Dust(amount, from, to) == amount - Untrim(TrimmedOf(amount, from, to), from)
=============================================================================
