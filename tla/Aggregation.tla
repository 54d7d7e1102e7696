----------------------------- MODULE Aggregation -----------------------------
(***************************************************************************)
(* What a Query may ask for and what its aggregates are                      *)
(* (goimpl/internal/query: ValidateQuery, the tickers of a Runner, and       *)
(* aggregate.go).  The code computes in float64; here numbers are exact      *)
(* fractions [num, den] with den > 0, and the deviation is its square.       *)
(***************************************************************************)
EXTENDS Ber

CONSTANT Second     \* nanoseconds of a second (10^9)

ASSUME SecondAssumption == Second \in Nat \ {0}

\* Mutant: a recurring query may leave its transferInterval out.
ValidateQueryLax(q) ==
    /\ q.transferInterval >= 0
    /\ q.mode.kind = "interval" => q.mode.interval > 0
    /\ (q.aggregationInterval = {}) = (q.aggregationMethod = {})
    /\ \A n \in q.aggregationInterval : n > 0
\* ValidateQuery; the aggregation method is not looked at.
ValidateQuery(q) ==
    /\ q.transferInterval >= 0
    /\ q.mode.kind = "interval" => q.mode.interval > 0
    /\ q.mode.kind # "once" => q.transferInterval > 0
    /\ (q.aggregationInterval = {}) = (q.aggregationMethod = {})
    /\ \A n \in q.aggregationInterval : n > 0

\* The seconds a Runner's goroutine makes tickers of.
Tickers(q) ==
    IF q.mode.kind = "once" THEN {}
    ELSE q.aggregationInterval \cup {q.transferInterval}
           \cup (IF q.mode.kind = "interval" THEN {q.mode.interval} ELSE {})

\* A ticker's period, time.Duration(n) * time.Second: a product of two int64s.
\* NewTicker panics for one that is not positive.
Duration(n) == Wrapped(n * Second)

\* The longest period in seconds that a Duration holds: 292 years.
LongestPeriod == MaxLong \div Second

-----------------------------------------------------------------------------
IsNumeric(value) == value.kind \notin {"octetString", "noValue"}

Fraction(n, d) == [num |-> n, den |-> d]
LessEq(a, b) == a.num * b.den <= b.num * a.den

SumOf(v) == FoldLeft(LAMBDA total, x : total + x, 0, v)

MinOf(v) == Fraction(Min(ToSet(v)), 1)
MaxOf(v) == Fraction(Max(ToSet(v)), 1)
Mean(v)  == Fraction(SumOf(v), Len(v))

\* Mutant: the sample deviation, divided by N - 1.
SampleVariance(v) ==
    IF Len(v) < 2 THEN Fraction(0, 1)
    ELSE Fraction(FoldLeft(LAMBDA total, x : total + (Len(v) * x - SumOf(v))^2, 0, v),
                  Len(v)^2 * (Len(v) - 1))
\* The square of stdDev: the mean square of Len(v) * (x - mean), by Len(v)^2.
Variance(v) ==
    IF Len(v) < 2 THEN Fraction(0, 1)
    ELSE Fraction(FoldLeft(LAMBDA total, x : total + (Len(v) * x - SumOf(v))^2, 0, v),
                  Len(v)^3)

\* The two closest ranks, 1 for the smallest sample; the code indexes the
\* sorted samples with them.
Rank(v, p) == p * (Len(v) - 1)
Ranks(v, p) == LET lo == 1 + Rank(v, p) \div 100
               IN  IF Rank(v, p) % 100 = 0 THEN {lo} ELSE {lo, lo + 1}

\* Linear interpolation between the closest ranks.
Percentile(v, p) ==
    LET sorted == SortSeq(v, <)
        lo == sorted[Min(Ranks(v, p))]
        hi == sorted[Max(Ranks(v, p))]
    IN  IF Len(v) = 1 THEN Fraction(v[1], 1)
        ELSE Fraction(100 * lo + (Rank(v, p) % 100) * (hi - lo), 100)

\* Aggregate: none for no samples or for one that is not numeric.
Aggregate(method, samples) ==
    LET v == [i \in DOMAIN samples |-> samples[i].number]
    IN  IF samples = <<>> \/ \E i \in DOMAIN samples : ~ IsNumeric(samples[i]) THEN {}
        ELSE {CASE method.kind = "min"    -> MinOf(v)
                [] method.kind = "max"    -> MaxOf(v)
                [] method.kind = "mean"   -> Mean(v)
                [] method.kind = "stdDev" -> Variance(v)
                [] method.kind = "percentile" -> Percentile(v, method.percentile)}
=============================================================================
