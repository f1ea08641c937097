------------------------- MODULE FeatureCalculators -------------------------
(***************************************************************************)
(* The feature calculators (features/calculators.py) over a series of       *)
(* closes that grows bar by bar.  Every number is an integer count of       *)
(* quanta; quantize rounds half to even, and working precision is exact.    *)
(* Bars are counted from 1, and a calculator is the function from the bars  *)
(* that have a value to their values.                                       *)
(***************************************************************************)
EXTENDS Integers, Sequences, SequencesExt

CONSTANTS
  Price,         \* closes, in quanta
  MaxBars,       \* bound: length of the series
  Unit,          \* quanta in one; 10^8 in the code
  Window, Lag, Period, FastPeriod, SlowPeriod, SignalPeriod

ASSUME CalculatorAssumption ==
  /\ Price \subseteq Nat \ {0} /\ {MaxBars, Unit, Window, Lag} \subseteq Nat \ {0}
  /\ {Window, Period, FastPeriod, SlowPeriod, SignalPeriod} \subseteq Nat \ {0, 1}
  /\ FastPeriod < SlowPeriod

VARIABLE closes
calculatorVars == <<closes>>

CalculatorInit == closes = <<>>
NewBar == /\ Len(closes) < MaxBars
          /\ \E p \in Price : closes' = Append(closes, p)
CalculatorNext == NewBar
CalculatorSpec == CalculatorInit /\ [][CalculatorNext]_calculatorVars

-----------------------------------------------------------------------------
(* Mutant: quantize truncates.                                              *)
Truncated(num, den) == num \div den
(* num / den, to the nearest quantum, a tie to the even one.                *)
Quantize(num, den) ==
  LET below == num \div den  rest == 2 * (num % den)
  IN IF rest < den \/ (rest = den /\ below % 2 = 0) THEN below ELSE below + 1

Total(s, from, to) == FoldLeft(LAMBDA sum, x : sum + x, 0, SubSeq(s, from, to))
Mean(s, from, to) == Quantize(Total(s, from, to), to - from + 1)

SimpleMovingAverage(s, window) == [i \in window .. Len(s) |-> Mean(s, i - window + 1, i)]

(* Seeded with the mean of the first window, then alpha = 2 / (window + 1). *)
EmaSeries(s, window) ==
  LET ema[i \in window .. Len(s)] ==
        IF i = window THEN Mean(s, 1, window)
        ELSE Quantize(ema[i - 1] * (window - 1) + 2 * s[i], window + 1)
  IN ema

ExponentialMovingAverage(s, window) == EmaSeries(s, window)

ReturnPercent(s, lag) ==
  [i \in lag + 1 .. Len(s) |-> Quantize((s[i] - s[i - lag]) * 100 * Unit, s[i - lag])]

(* Wilder: seeded with the mean of the first period changes, then 1/period. *)
Gains(s) == [i \in 1 .. Len(s) - 1 |-> IF s[i + 1] > s[i] THEN s[i + 1] - s[i] ELSE 0]
Losses(s) == [i \in 1 .. Len(s) - 1 |-> IF s[i + 1] < s[i] THEN s[i] - s[i + 1] ELSE 0]
WilderAverage(changes, period) ==
  LET avg[i \in period .. Len(changes)] ==
        IF i = period THEN Mean(changes, 1, period)
        ELSE Quantize(avg[i - 1] * (period - 1) + changes[i], period)
  IN avg
Index(gain, loss) ==
  IF gain = 0 /\ loss = 0 THEN 50 * Unit
  ELSE IF loss = 0 THEN 100 * Unit
  ELSE Quantize(100 * Unit * gain, gain + loss)
RelativeStrengthIndex(s, period) ==
  LET gain == WilderAverage(Gains(s), period)
      loss == WilderAverage(Losses(s), period)
  IN [i \in period + 1 .. Len(s) |-> Index(gain[i - 1], loss[i - 1])]

(* The signal line is the average of the MACD line, which starts with the   *)
(* slow leg.                                                                *)
MacdLine(s) ==
  LET fast == EmaSeries(s, FastPeriod)  slow == EmaSeries(s, SlowPeriod)
  IN [p \in 1 .. Len(s) - SlowPeriod + 1 |->
        fast[p + SlowPeriod - 1] - slow[p + SlowPeriod - 1]]
Macd(s, line) ==
  LET macd == MacdLine(s)
      signal == EmaSeries(macd, SignalPeriod)
      at == SlowPeriod - 1
  IN IF line = "MACD" THEN [i \in SlowPeriod .. Len(s) |-> macd[i - at]]
     ELSE [i \in SlowPeriod + SignalPeriod - 1 .. Len(s) |->
             IF line = "SIGNAL" THEN signal[i - at] ELSE macd[i - at] - signal[i - at]]

Feature == {"SMA", "EMA", "RETURN_PCT", "RSI", "MACD", "SIGNAL", "HISTOGRAM"}
RequiredHistory(f) ==
  CASE f \in {"SMA", "EMA"} -> Window
    [] f = "RETURN_PCT" -> Lag + 1
    [] f = "RSI" -> Period + 1
    [] f = "MACD" -> SlowPeriod
    [] OTHER -> SlowPeriod + SignalPeriod - 1
(* A series that is too short is refused: it has no values.                 *)
FeatureValues(f, s) ==
  IF Len(s) < RequiredHistory(f) THEN <<>>
  ELSE CASE f = "SMA" -> SimpleMovingAverage(s, Window)
         [] f = "EMA" -> ExponentialMovingAverage(s, Window)
         [] f = "RETURN_PCT" -> ReturnPercent(s, Lag)
         [] f = "RSI" -> RelativeStrengthIndex(s, Period)
         [] OTHER -> Macd(s, f)

-----------------------------------------------------------------------------
(* The closes are prices.                                                   *)
CalculatorTypeOK == closes \in Seq(Price) /\ Len(closes) <= MaxBars

(* The averages without rounding, as fractions: what the recursions of the  *)
(* code are meant to be.                                                    *)
Fraction(num, den) == [num |-> num, den |-> den]
ExactEma(s, w) ==
  LET x[i \in w .. Len(s)] ==
        IF i = w THEN Fraction(Total(s, 1, w), w)
        ELSE Fraction(x[i - 1].num * (w - 1) + 2 * s[i] * x[i - 1].den, x[i - 1].den * (w + 1))
  IN x
ExactWilder(changes, n) ==
  LET y[i \in n .. Len(changes)] ==
        IF i = n THEN Fraction(Total(changes, 1, n), n)
        ELSE Fraction(y[i - 1].num * (n - 1) + changes[i] * y[i - 1].den, y[i - 1].den * n)
  IN y
(* The value is within bound / per quanta of the fraction.                  *)
Near(value, exact, bound, per) ==
  /\ per * (value * exact.den - exact.num) <= bound * exact.den
  /\ per * (exact.num - value * exact.den) <= bound * exact.den

(* A published value never moves: every calculator has a value for exactly  *)
(* the bars from required_history_points on, and the bars that come later   *)
(* change none of them, so a longer series extends a shorter one.  Rounding *)
(* at every step does not accumulate: an average stays within (w+1)/4 resp. *)
(* n/2 quanta of the exact one however long the series is (calculators.py,  *)
(* "cannot drift with accumulation order"), and the RSI within 0 .. 100.    *)
ValuesAreFinal ==
  LET n == Len(closes) IN
  /\ \A f \in Feature :
       LET now == FeatureValues(f, closes)
       IN /\ DOMAIN now = RequiredHistory(f) .. n
          /\ n > 0 => \A i \in DOMAIN FeatureValues(f, Front(closes)) :
                        now[i] = FeatureValues(f, Front(closes))[i]
  /\ n >= Window =>
       Near(EmaSeries(closes, Window)[n], ExactEma(closes, Window)[n], Window + 1, 4)
  /\ n > Period =>
       \A changes \in {Gains(closes), Losses(closes)} :
         Near(WilderAverage(changes, Period)[n - 1], ExactWilder(changes, Period)[n - 1], Period, 2)
  /\ n > Period => RelativeStrengthIndex(closes, Period)[n] \in 0 .. 100 * Unit
=============================================================================
