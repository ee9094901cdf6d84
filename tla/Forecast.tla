------------------------------ MODULE Forecast ------------------------------
(***************************************************************************)
(* From a city's weather data to fair probabilities: the daily maxima of   *)
(* the ensemble's members (weather/openmeteo.py), the highs of the NWS     *)
(* point forecast (weather/nws.py) and the probability of a contract       *)
(* (probability/distributions.py, probability/threshold.py).               *)
(*                                                                         *)
(* Temperatures are whole degrees Fahrenheit, probabilities hundredths of  *)
(* a percent, rounded down.  The normal distribution at the bandwidth that *)
(* Silverman's rule gives is a parameter, the kernel: kernel[d] is its     *)
(* value d degrees above the middle, 1 beyond the last.                    *)
(***************************************************************************)
EXTENDS Integers, Sequences, FiniteSets, Functions, FiniteSetsExt

\* No reading, price or time: a number that none of them can be.
None == -1000
One == 10000

Abs(n) == IF n < 0 THEN -n ELSE n

-----------------------------------------------------------------------------
\* The readings of a column, a member's hourly series, on a date; nulls are
\* passed over.
Readings(column, day) == {r.temp : r \in {x \in Range(column) : x.day = day /\ x.temp # None}}

\* parse_daily_max: a sample from every column with a reading of that date, of
\* whatever model.  A column with some of its readings is a sample like any other.
Samples(columns, day) ==
  [m \in {m \in DOMAIN columns : Readings(columns[m], day) # {}} |->
     Max(Readings(columns[m], day))]

Fahrenheit(p) == IF p.unit = "C" THEN (2 * (9 * p.temp + 160) + 5) \div 10 ELSE p.temp

\* Mutant: the nights count too.
DailyHighOrLow(periods, day) ==
  LET found == {i \in DOMAIN periods : periods[i].day = day /\ periods[i].temp # None}
  IN IF found = {} THEN None ELSE Fahrenheit(periods[Max(found)])

\* extract_daily_highs_f: the last daytime period of the date that has a temperature.
DailyHigh(periods, day) ==
  LET own(p) == p.daytime /\ p.day = day /\ p.temp # None
      found == {i \in DOMAIN periods : own(periods[i])}
  IN IF found = {} THEN None ELSE Fahrenheit(periods[Max(found)])

-----------------------------------------------------------------------------
\* How many members there are, how many of their samples pass a test, and the
\* total of what each has.
Size(xs) == Cardinality(DOMAIN xs)
Count(Test(_), xs) == Cardinality({m \in DOMAIN xs : Test(xs[m])})
Total(f) == MapThenSumSet(LAMBDA m : f[m], DOMAIN f)

\* Twice the median: the least sample with half of them at or below it and the
\* greatest with half of them at or above it.
LowerMedian(xs) == Min({v \in Range(xs) : 2 * Count(LAMBDA x : x <= v, xs) >= Size(xs)})
UpperMedian(xs) == Max({v \in Range(xs) : 2 * Count(LAMBDA x : x >= v, xs) >= Size(xs)})
Median2(xs) == LowerMedian(xs) + UpperMedian(xs)

\* n(n - 1) times the sample variance.
Spread(xs) ==
  Size(xs) * Total([m \in DOMAIN xs |-> xs[m] * xs[m]]) - Total(xs) * Total(xs)

\* The regime: |median - strike| > 2 sigma, squared and multiplied out.
Far(xs, strike) ==
  LET gap2 == Median2(xs) - 2 * strike
      n == Size(xs)
  IN Spread(xs) > 0 /\ gap2 * gap2 * n * (n - 1) > 16 * Spread(xs)

\* Mutant: one is added instead of one half.
LaplaceByOne(k, n) == (One * (k + 1)) \div (n + 1)

\* Laplace smoothing of k samples out of n.
Laplace(k, n) == (One * (2 * k + 1)) \div (2 * (n + 1))

EcdfGreater(xs, strike) == Laplace(Count(LAMBDA x : x > strike, xs), Size(xs))

Phi(kernel, d) ==
  LET upper == IF Abs(d) \in DOMAIN kernel THEN kernel[Abs(d)] ELSE One
  IN CASE d > 0 -> upper [] d = 0 -> One \div 2 [] d < 0 -> One - upper

KdeCdf(kernel, xs, strike) ==
  Total([m \in DOMAIN xs |-> Phi(kernel, strike - xs[m])]) \div Size(xs)

\* Mutant: the formula of PLAN.md:171, from one degree below the floor.
KdeBetweenFromBelow(kernel, xs, low, high) ==
  KdeCdf(kernel, xs, high) - KdeCdf(kernel, xs, low - 1)

\* kde_prob_between, whatever the order of the bounds.
KdeBetween(kernel, xs, low, high) ==
  Abs(KdeCdf(kernel, xs, high) - KdeCdf(kernel, xs, low))

ProbGreater(kernel, xs, strike) ==
  IF Far(xs, strike) THEN EcdfGreater(xs, strike) ELSE One - KdeCdf(kernel, xs, strike)

ProbLess(kernel, xs, strike) == One - ProbGreater(kernel, xs, strike)

\* The empirical regime only when both bounds are far.
ProbBetween(kernel, xs, low, high) ==
  IF Far(xs, low) /\ Far(xs, high)
  THEN Laplace(Count(LAMBDA x : low <= x /\ x <= high, xs), Size(xs))
  ELSE KdeBetween(kernel, xs, low, high)

\* The strike of a one-sided contract, None where the metadata is missing: a
\* "less" contract has it in cap_strike, in floor_strike in legacy payloads.
Strike(c) == IF c.type = "less" /\ c.cap # None THEN c.cap ELSE c.floor

\* contract_probability; None where it raises ThresholdError.
ContractProbability(c, kernel, xs) ==
  CASE c.type = "greater" /\ Strike(c) # None -> ProbGreater(kernel, xs, Strike(c))
    [] c.type = "less" /\ Strike(c) # None -> ProbLess(kernel, xs, Strike(c))
    [] c.type = "between" /\ c.floor # None /\ c.cap # None ->
         ProbBetween(kernel, xs, c.floor, c.cap)
    [] OTHER -> None
=============================================================================
