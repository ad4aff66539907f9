-------------------------------- MODULE Stats --------------------------------
(***************************************************************************)
(* The order statistics of lib/insights/stats.ts, on sequences of whole    *)
(* numbers.  The middle of an even number of values is the mean of two, so *)
(* a median is returned TWICE its size, and compared with twice the rest.  *)
(***************************************************************************)
EXTENDS Integers, Sequences, SequencesExt

abs(n) == IF n < 0 THEN -n ELSE n
larger(a, b) == IF a < b THEN b ELSE a
smaller(a, b) == IF a < b THEN a ELSE b

ascending(s) == SortSeq(s, LAMBDA a, b : a < b)

median2(values) ==
    LET sorted == ascending(values)
        mid == Len(sorted) \div 2
    IN IF Len(sorted) % 2 = 0 THEN sorted[mid] + sorted[mid + 1] ELSE 2 * sorted[mid + 1]

\* Twice the median absolute deviation, from twice the median.
mad2(values) ==
    median2([i \in DOMAIN values |-> abs(2 * values[i] - median2(values))]) \div 2

total(s) == FoldLeft(+, 0, s)

\* Math.ceil and Math.round of a quotient of whole numbers.
ceilOf(a, b) == -((-a) \div b)
roundOf(a, b) == (2 * a + b) \div (2 * b)
=============================================================================
