------------------------ MODULE MarketAnalysisProofs ------------------------
(***************************************************************************)
(* Proofs about the operators of MarketAnalysis, for every snapshot with     *)
(* numbers in its fields: each of the seven signals is in its range, and so  *)
(* are the scores made of them.  Ranges of ten thousands are written as two  *)
(* inequalities (Within, ShareOf).                                           *)
(***************************************************************************)
EXTENDS MarketAnalysis, TLAPS

(* x is a number between -n and n.                                           *)
Within(x, n) == x \in Int /\ -n <= x /\ x <= n

(* Bounds as a range of numbers.                                             *)
LEMMA WithinRange == ASSUME NEW n \in Nat, NEW x, Within(x, n) PROVE x \in -n..n
  BY DEF Within

(* The range QuantSignalsPackage checks.                                     *)
LEMMA SignalRange == ASSUME NEW x, Within(x, 10000) PROVE x \in -One..One
<1>1. One \in Nat /\ Within(x, One)
  BY DEF One
<1>2. QED
  BY <1>1, WithinRange

(* The sign of a number, and its magnitude.                                  *)
LEMMA SignTypes == \A x : Sign(x) \in {-1, 0, 1}
  BY DEF Sign

(* A magnitude is no negative number.                                        *)
LEMMA MagnitudeTypes == \A x \in Int : Magnitude(x) \in Nat
  BY DEF Magnitude

(* A share of up to n keeps its bounds under a sign.                         *)
LEMMA Signed ==
    ASSUME NEW x, NEW n \in Nat, NEW m \in 0..n
    PROVE  Within(Sign(x) * m, n)
<1>1. CASE Sign(x) = 1
  BY <1>1 DEF Within
<1>2. CASE Sign(x) = -1
  BY <1>2 DEF Within
<1>3. CASE Sign(x) = 0
  BY <1>3 DEF Within
<1>4. QED
  BY <1>1, <1>2, <1>3, SignTypes

(* tanh is between -100 and 100 wherever it is asked.                        *)
LEMMA TanhRange ==
    ASSUME NEW p \in Int, NEW q \in Int
    PROVE  Within(tanh(p, q), 100)
<1> DEFINE a == Magnitude(p)
           size == CASE a >= 3 * q -> 100 [] a >= q /\ a < 3 * q -> 76
                     [] 2 * a >= q /\ a < q -> 46 [] a > 0 /\ 2 * a < q -> 10 [] a = 0 -> 0
<1>1. a \in Nat
  BY MagnitudeTypes
<1> HIDE DEF a
<1>2. \/ a >= 3 * q \/ (a >= q /\ a < 3 * q) \/ (2 * a >= q /\ a < q)
      \/ (a > 0 /\ 2 * a < q) \/ a = 0
  BY <1>1
<1>3. size \in 0..100
  BY <1>1, <1>2
<1> HIDE DEF size
<1>4. tanh(p, q) = Sign(p) * size
  BY DEF tanh, size, a
<1>5. QED
  BY <1>3, <1>4, Signed

(* The four timeframes' shares weigh a hundred together.                     *)
LEMMA WeightedRange ==
    ASSUME NEW n \in Nat, NEW f, \A tf \in Timeframes : Within(f[tf], n)
    PROVE  Within(Weighted(f), 100 * n)
<1>1. /\ Within(f["5m"], n) /\ Within(f["15m"], n) /\ Within(f["1h"], n) /\ Within(f["4h"], n)
  BY DEF Timeframes
<1>2. Weighted(f) = 10 * f["5m"] + 20 * f["15m"] + 30 * f["1h"] + 40 * f["4h"]
  BY DEF Weighted, Sum4, _TF_WEIGHTS, Timeframes
<1>3. QED
  BY <1>1, <1>2 DEF Within

(* A quotient of what is at most n divisors is at most n.                    *)
LEMMA QuotientRange ==
    ASSUME NEW n \in Nat, NEW q \in Nat \ {0}, NEW p \in Int, Magnitude(p) <= n * q
    PROVE  Within(Quotient(p, q), n)
<1>1. Magnitude(p) \in Nat
  BY MagnitudeTypes
<1>2. Magnitude(p) \div q \in 0..n
  <2>1. PICK d \in Nat : d = Magnitude(p) \div q
    BY <1>1
  <2>2. q * d <= Magnitude(p)
    BY <1>1, <2>1
  <2>3. q * d <= n * q
    BY <1>1, <2>2
  <2>4. d <= n
    BY <2>3
  <2>5. QED
    BY <2>1, <2>4
<1>3. QED
  BY <1>2, Signed DEF Quotient
-----------------------------------------------------------------------------
(* The other way round: a number ...                                         *)
LEMMA Negated == \A x \in Int : -x = 0 - x
  OBVIOUS

(* ... its sign and magnitude ...                                            *)
LEMMA SignOdd == \A x \in Int : Sign(-x) = -Sign(x) /\ Magnitude(-x) = Magnitude(x)
  BY DEF Sign, Magnitude

(* ... and square ...                                                        *)
LEMMA SquareEven == \A x \in Int : Square(-x) = Square(x)
  BY DEF Square

(* ... tanh ...                                                              *)
LEMMA TanhOdd ==
    ASSUME NEW p \in Int, NEW q \in Int
    PROVE  tanh(-p, q) = -tanh(p, q)
<1> DEFINE size(a) == CASE a >= 3 * q -> 100 [] a >= q /\ a < 3 * q -> 76
                        [] 2 * a >= q /\ a < q -> 46 [] a > 0 /\ 2 * a < q -> 10 [] a = 0 -> 0
<1>1. Magnitude(p) \in Nat /\ Magnitude(-p) = Magnitude(p)
  BY MagnitudeTypes, SignOdd
<1>2. \/ Magnitude(p) >= 3 * q \/ (Magnitude(p) >= q /\ Magnitude(p) < 3 * q)
      \/ (2 * Magnitude(p) >= q /\ Magnitude(p) < q)
      \/ (Magnitude(p) > 0 /\ 2 * Magnitude(p) < q) \/ Magnitude(p) = 0
  BY <1>1
<1>3. size(Magnitude(p)) \in 0..100
  BY <1>1, <1>2
<1>4. /\ tanh(p, q) = Sign(p) * size(Magnitude(p))
      /\ tanh(-p, q) = Sign(-p) * size(Magnitude(-p))
  BY DEF tanh
<1> HIDE DEF size
<1>5. QED
  BY <1>1, <1>3, <1>4, SignOdd, SignTypes

(* ... division ...                                                          *)
LEMMA QuotientOdd ==
    ASSUME NEW p \in Int, NEW q \in Nat \ {0}
    PROVE  Quotient(p, q) \in Int /\ Quotient(-p, q) = -Quotient(p, q)
<1>1. Magnitude(p) \in Nat /\ Magnitude(-p) = Magnitude(p)
  BY MagnitudeTypes, SignOdd
<1>2. PICK d \in Int : d = Magnitude(p) \div q
  BY <1>1
<1>3. Quotient(p, q) = Sign(p) * d /\ Quotient(-p, q) = Sign(-p) * d
  BY <1>1, <1>2 DEF Quotient
<1>4. QED
  BY <1>2, <1>3, SignOdd, SignTypes

(* ... and the weighed sum.                                                  *)
LEMMA WeightedOdd ==
    ASSUME NEW f, NEW g, \A tf \in Timeframes : f[tf] \in Int /\ g[tf] = -f[tf]
    PROVE  Weighted(f) \in Int /\ Weighted(g) = -Weighted(f)
<1>1. /\ f["5m"] \in Int /\ f["15m"] \in Int /\ f["1h"] \in Int /\ f["4h"] \in Int
      /\ g["5m"] = -f["5m"] /\ g["15m"] = -f["15m"] /\ g["1h"] = -f["1h"] /\ g["4h"] = -f["4h"]
  BY DEF Timeframes
<1>2. /\ Weighted(f) = 10 * f["5m"] + 20 * f["15m"] + 30 * f["1h"] + 40 * f["4h"]
      /\ Weighted(g) = 10 * g["5m"] + 20 * g["15m"] + 30 * g["1h"] + 40 * g["4h"]
  BY DEF Weighted, Sum4, _TF_WEIGHTS, Timeframes
<1>3. QED
  BY <1>1, <1>2
-----------------------------------------------------------------------------
(***************************************************************************)
(* The signals.                                                              *)
(***************************************************************************)
(* A snapshot's numbers, as the signals read them.                           *)
LEMMA SnapshotTypes ==
    ASSUME NEW s \in SnapshotFields
    PROVE  /\ s.last \in Int /\ s.volume \in Int
           /\ s.funding # None => s.funding \in Int
           /\ s.interest # None => s.interest \in Int
           /\ \A tf \in Timeframes :
                 /\ s.candles[tf] \in CandleData /\ s.volumes[tf] \in Int
                 /\ s.candles[tf].open \in Int /\ s.candles[tf].close \in Int
                 /\ s.candles[tf].high \in Int /\ s.candles[tf].low \in Int
  BY DEF SnapshotFields, CandleData

(* momentum.py: the four timeframes' changes, weighed.                       *)
LEMMA MomentumRange ==
    ASSUME NEW s \in SnapshotFields
    PROVE  Within(calculate_momentum(s), 10000)
<1> DEFINE f == [tf \in Timeframes |->
                    tanh((s.candles[tf].close - s.candles[tf].open) * 1000,
                         s.candles[tf].open * _TF_ROC_THRESHOLD[tf])]
<1>1. ASSUME NEW tf \in Timeframes PROVE _TF_ROC_THRESHOLD[tf] \in Int
  BY DEF _TF_ROC_THRESHOLD, Timeframes
<1>2. ASSUME NEW tf \in Timeframes PROVE Within(f[tf], 100)
  <2>1. /\ (s.candles[tf].close - s.candles[tf].open) * 1000 \in Int
        /\ s.candles[tf].open * _TF_ROC_THRESHOLD[tf] \in Int
    BY <1>1, SnapshotTypes
  <2>2. QED
    BY <2>1, TanhRange
<1>3. 100 \in Nat
  OBVIOUS
<1>4. calculate_momentum(s) = Weighted(f)
  BY DEF calculate_momentum
<1> HIDE DEF f
<1>5. Within(Weighted(f), 100 * 100)
  BY <1>2, <1>3, WeightedRange
<1>6. 100 * 100 = 10000
  OBVIOUS
<1>7. QED
  BY <1>4, <1>5, <1>6

(* mean_reversion.py, whatever the closes are.                               *)
LEMMA MeanReversionRange ==
    ASSUME NEW s
    PROVE  Within(compute_mean_reversion_signal(s), 10000)
<1> DEFINE sum == Sum4([tf \in Timeframes |-> s.candles[tf].close])
           variance == Sum4([tf \in Timeframes |-> Square(4 * s.candles[tf].close - sum)])
           distance == sum - 4 * s.last
           a == 4 * Square(distance)
           size == IF a >= 9 * variance THEN 100 ELSE IF a >= variance THEN 76
                   ELSE IF 4 * a >= variance THEN 46 ELSE IF a > 0 THEN 10 ELSE 0
<1>1. size \in 0..100
  OBVIOUS
<1>2. compute_mean_reversion_signal(s) =
          IF variance = 0 THEN 0 ELSE 100 * Sign(distance) * size
  BY DEF compute_mean_reversion_signal
<1> HIDE DEF size, distance, variance
<1>3. Sign(distance) \in {-1, 0, 1}
  BY SignTypes
<1>4. Within(0, 10000) /\ Within(100 * Sign(distance) * size, 10000)
  BY <1>1, <1>3 DEF Within
<1>5. QED
  BY <1>2, <1>4

(* The factor that dampens a breakout.                                       *)
LEMMA VolumeFactorRange ==
    ASSUME NEW s \in SnapshotFields, \A tf \in Timeframes : s.volumes[tf] >= 0
    PROVE  volume_factor(s) \in 0..100
<1> DEFINE baseline == 4 * s.volumes["1h"] + s.volumes["4h"]
           ratio == (9600 * s.volumes["5m"]) \div baseline
<1>1. baseline \in Nat /\ 9600 * s.volumes["5m"] \in Nat
  BY SnapshotTypes DEF Timeframes
<1>2. volume_factor(s) =
          IF baseline = 0 \/ ratio > 100 THEN 100 ELSE IF ratio < 20 THEN 20 ELSE ratio
  BY DEF volume_factor
<1>3. CASE baseline = 0
  BY <1>2, <1>3
<1>4. CASE baseline # 0
  <2>1. ratio \in Int
    BY <1>1, <1>4
  <2> HIDE DEF ratio
  <2>2. QED
    BY <1>2, <1>4, <2>1
<1>5. QED
  BY <1>3, <1>4

(* breakout.py: near, above and below the range of the 4h candle.            *)
LEMMA BreakoutRange ==
    ASSUME NEW s \in SnapshotFields, \A tf \in Timeframes : s.volumes[tf] >= 0
    PROVE  Within(calculate_breakout(s), 10000)
<1> DEFINE top == s.candles["4h"].high
           bottom == s.candles["4h"].low
           above == tanh(100 * (s.last - top), top)
           below == tanh(100 * (s.last - bottom), bottom)
           inside == tanh(100 * (2 * s.last - top - bottom), top + bottom)
           raw == CASE s.last > top -> 100 * above [] s.last < bottom -> 100 * below
                    [] s.last \in bottom..top -> 10 * inside
<1>1. top \in Int /\ bottom \in Int /\ s.last \in Int
  BY SnapshotTypes DEF Timeframes
<1> HIDE DEF top, bottom
<1>2. Within(above, 100) /\ Within(below, 100) /\ Within(inside, 100)
  BY <1>1, TanhRange
<1> HIDE DEF above, below, inside
<1>3. Within(raw, 10000)
  BY <1>1, <1>2 DEF Within
<1>4. calculate_breakout(s) = Quotient(raw * volume_factor(s), 100)
  BY DEF calculate_breakout, raw, above, below, inside, top, bottom
<1> HIDE DEF raw
<1>5. PICK v \in 0..100 : v = volume_factor(s)
  BY VolumeFactorRange
<1>6. PICK x \in Int : x = raw * v
  BY <1>3, <1>5 DEF Within
<1>7. -1000000 <= x /\ x <= 1000000
  BY <1>3, <1>5, <1>6 DEF Within
<1>8. Magnitude(x) <= 10000 * 100
  BY <1>6, <1>7 DEF Magnitude
<1>9. 10000 \in Nat /\ 100 \in Nat \ {0}
  OBVIOUS
<1>10. Within(Quotient(x, 100), 10000)
  BY <1>8, <1>9, QuotientRange
<1>11. calculate_breakout(s) = Quotient(x, 100)
  BY <1>4, <1>5, <1>6
<1>12. QED
  BY <1>10, <1>11

(* funding.py, with and without a rate.                                      *)
LEMMA FundingRange ==
    ASSUME NEW s \in SnapshotFields
    PROVE  Within(compute_funding_signal(s), 10000)
<1>1. CASE s.funding = None
  BY <1>1 DEF compute_funding_signal, Within
<1>2. CASE s.funding # None
  <2>1. Within(tanh(s.funding, 3), 100)
    BY <1>2, SnapshotTypes, TanhRange
  <2>2. compute_funding_signal(s) = -100 * tanh(s.funding, 3)
    BY <1>2 DEF compute_funding_signal
  <2>3. QED
    BY <2>1, <2>2 DEF Within
<1>3. QED
  BY <1>1, <1>2

(* open_interest.py, with and without an open interest.                      *)
LEMMA OpenInterestRange ==
    ASSUME NEW s \in SnapshotFields
    PROVE  Within(compute_open_interest_signal(s), 10000)
<1>1. CASE s.interest = None \/ s.volume = 0
  BY <1>1 DEF compute_open_interest_signal, Within
<1>2. CASE s.interest # None /\ s.volume # 0
  <2>1. s.interest - s.volume \in Int /\ s.volume \in Int
    BY <1>2, SnapshotTypes
  <2>2. Within(tanh(s.interest - s.volume, s.volume), 100)
    BY <2>1, TanhRange
  <2>3. compute_open_interest_signal(s) = -100 * tanh(s.interest - s.volume, s.volume)
    BY <1>2 DEF compute_open_interest_signal
  <2>4. QED
    BY <2>2, <2>3 DEF Within
<1>3. QED
  BY <1>1, <1>2

(* The place of a coherent candle's close in its range.                      *)
LEMMA CandleOfiRange ==
    ASSUME NEW c \in CandleData, ohlc_coherence(c)
    PROVE  Within(_candle_ofi(c), 100)
<1>1. /\ c.high \in Int /\ c.low \in Int /\ c.close \in Int
      /\ c.low <= c.close /\ c.close <= c.high
  BY DEF CandleData, ohlc_coherence
<1>2. CASE c.high = c.low
  BY <1>2 DEF _candle_ofi, Within
<1>3. CASE c.high # c.low
  <2>1. PICK p \in Int : p = 100 * (2 * c.close - c.high - c.low)
    BY <1>1
  <2>2. PICK q \in Nat \ {0} : q = c.high - c.low
    BY <1>1, <1>3
  <2>3. Magnitude(p) <= 100 * q
    BY <1>1, <2>1, <2>2 DEF Magnitude
  <2>4. 100 \in Nat
    OBVIOUS
  <2>5. Within(Quotient(p, q), 100)
    BY <2>3, <2>4, QuotientRange
  <2>6. _candle_ofi(c) = Quotient(p, q)
    BY <1>3, <2>1, <2>2 DEF _candle_ofi
  <2>7. QED
    BY <2>5, <2>6
<1>4. QED
  BY <1>2, <1>3

(* order_flow.py: the four candles' places of the close, weighed.            *)
LEMMA OrderFlowRange ==
    ASSUME NEW s \in SnapshotFields, \A tf \in Timeframes : ohlc_coherence(s.candles[tf])
    PROVE  Within(calculate_order_flow_imbalance(s), 10000)
<1> DEFINE f == [tf \in Timeframes |-> _candle_ofi(s.candles[tf])]
<1>1. ASSUME NEW tf \in Timeframes PROVE Within(f[tf], 100)
  BY SnapshotTypes, CandleOfiRange
<1>2. calculate_order_flow_imbalance(s) = Weighted(f) /\ 100 \in Nat
  BY DEF calculate_order_flow_imbalance
<1> HIDE DEF f
<1>3. Within(Weighted(f), 100 * 100)
  BY <1>1, <1>2, WeightedRange
<1>4. 100 * 100 = 10000
  OBVIOUS
<1>5. QED
  BY <1>2, <1>3, <1>4

(* Wicks, and levels swept.                                                  *)
LEMMA ProxyRange ==
    ASSUME NEW c \in CandleData, NEW threshold \in Int
    PROVE  Within(_proxy_score(c, threshold), 100)
<1> DEFINE range == c.high - c.low
           lower == (IF c.open < c.close THEN c.open ELSE c.close) - c.low
           upper == c.high - (IF c.open < c.close THEN c.close ELSE c.open)
<1>1. range \in Int /\ lower \in Int /\ upper \in Int
  BY DEF CandleData
<1>2. _proxy_score(c, threshold) = IF range = 0 THEN 0
          ELSE tanh(100 * (Square(lower) - Square(upper)), threshold * Square(range))
  BY DEF _proxy_score
<1> HIDE DEF range, lower, upper
<1>3. /\ 100 * (Square(lower) - Square(upper)) \in Int
      /\ threshold * Square(range) \in Int
  BY <1>1 DEF Square
<1>4. Within(0, 100) /\ Within(tanh(100 * (Square(lower) - Square(upper)), threshold * Square(range)), 100)
  BY <1>3, TanhRange DEF Within
<1>5. QED
  BY <1>2, <1>4

(* A level of the history swept from below or from above.                    *)
LEMMA HistoricalRange ==
    ASSUME NEW c \in CandleData, NEW history
    PROVE  Within(_historical_score(c, history), 100)
<1> DEFINE range == c.high - c.low
           up == tanh(c.close - c.low, range)
           down == tanh(c.high - c.close, range)
           bull == IF \E l \in _find_swing_lows(history) : c.low < l /\ l < c.close
                   THEN up ELSE 0
           bear == IF \E h \in _find_swing_highs(history) : c.close < h /\ h < c.high
                   THEN down ELSE 0
<1>1. Within(up, 100) /\ Within(down, 100)
  <2>1. range \in Int /\ c.close - c.low \in Int /\ c.high - c.close \in Int
    BY DEF CandleData
  <2>2. QED
    BY <2>1, TanhRange
<1>2. _historical_score(c, history) = IF bull >= bear THEN bull ELSE -bear
  BY DEF _historical_score
<1> HIDE DEF up, down
<1>3. Within(bull, 100) /\ Within(bear, 100)
  BY <1>1 DEF Within
<1> HIDE DEF bull, bear
<1>4. QED
  BY <1>2, <1>3 DEF Within

(* liquidity_sweeps.py: wicks and levels of the four timeframes, weighed.    *)
LEMMA LiquiditySweepsRange ==
    ASSUME NEW s \in SnapshotFields
    PROVE  Within(calculate_liquidity_sweeps(s), 10000)
<1> DEFINE proxy(tf) == _proxy_score(s.candles[tf], _TF_SWEEP_THRESHOLD[tf])
           swept(tf) == _historical_score(s.candles[tf], s.history[tf])
           f == [tf \in Timeframes |->
                    IF Len(s.history[tf]) >= 2 * _SWING_LOOKBACK + 1
                    THEN 6 * swept(tf) + 4 * proxy(tf) ELSE 10 * proxy(tf)]
<1>1. ASSUME NEW tf \in Timeframes PROVE Within(f[tf], 1000)
  <2>1. _TF_SWEEP_THRESHOLD[tf] \in Int
    BY DEF _TF_SWEEP_THRESHOLD, Timeframes
  <2>2. Within(proxy(tf), 100) /\ Within(swept(tf), 100)
    BY <2>1, SnapshotTypes, ProxyRange, HistoricalRange
  <2> HIDE DEF proxy, swept
  <2>3. f[tf] \in {6 * swept(tf) + 4 * proxy(tf), 10 * proxy(tf)}
    OBVIOUS
  <2>4. QED
    BY <2>2, <2>3 DEF Within
<1>2. calculate_liquidity_sweeps(s) = Quotient(Weighted(f), 10)
  BY DEF calculate_liquidity_sweeps
<1> HIDE DEF f, proxy, swept
<1> DEFINE n == 1000
<1>3. n \in Nat /\ \A tf \in Timeframes : Within(f[tf], n)
  BY <1>1
<1> HIDE DEF n
<1>4. Within(Weighted(f), 100 * n)
  BY <1>3, WeightedRange
<1>5. PICK x : x = Weighted(f)
  OBVIOUS
<1>6. x \in Int /\ Magnitude(x) <= 10000 * 10
  BY <1>4, <1>5 DEF n, Within, Magnitude
<1>7. 10000 \in Nat /\ 10 \in Nat \ {0}
  OBVIOUS
<1>8. Within(Quotient(x, 10), 10000)
  BY <1>6, <1>7, QuotientRange
<1>9. QED
  BY <1>2, <1>5, <1>8
-----------------------------------------------------------------------------
(* The seven signals are within their bounds.                                *)
LEMMA SignalsWithin ==
    ASSUME NEW s \in SnapshotFields, MarketSnapshot(s)
    PROVE  /\ Within(calculate_momentum(s), 10000)
           /\ Within(compute_mean_reversion_signal(s), 10000)
           /\ Within(calculate_breakout(s), 10000)
           /\ Within(compute_funding_signal(s), 10000)
           /\ Within(compute_open_interest_signal(s), 10000)
           /\ Within(calculate_order_flow_imbalance(s), 10000)
           /\ Within(calculate_liquidity_sweeps(s), 10000)
<1>1. \A tf \in Timeframes : ohlc_coherence(s.candles[tf]) /\ s.volumes[tf] >= 0
  BY DEF MarketSnapshot
<1>2. QED
  BY <1>1, MomentumRange, MeanReversionRange, BreakoutRange, FundingRange, OpenInterestRange,
     OrderFlowRange, LiquiditySweepsRange

(* Whatever a market looks like, if its snapshot passes the schema none of    *)
(* the seven signals leaves its range: QuantSignalsPackage never raises and   *)
(* the symbol is not lost (quant_signals/engine.py:19-53, schemas.py:127-141). *)
THEOREM SignalsInRange ==
    ASSUME NEW s \in SnapshotFields, MarketSnapshot(s)
    PROVE  individual_signal_in_range(compute_quant_signals(s))
<1>1. /\ Within(calculate_momentum(s), 10000)
      /\ Within(compute_mean_reversion_signal(s), 10000)
      /\ Within(calculate_breakout(s), 10000)
      /\ Within(compute_funding_signal(s), 10000)
      /\ Within(compute_open_interest_signal(s), 10000)
      /\ Within(calculate_order_flow_imbalance(s), 10000)
      /\ Within(calculate_liquidity_sweeps(s), 10000)
  BY SignalsWithin
<1> DEFINE R == -One..One
           quant == compute_quant_signals(s)
<1>2. \A x : Within(x, 10000) => x \in R
  BY SignalRange
<1> HIDE DEF R
<1>3. /\ calculate_momentum(s) \in R /\ compute_mean_reversion_signal(s) \in R
      /\ calculate_breakout(s) \in R /\ compute_funding_signal(s) \in R
      /\ compute_open_interest_signal(s) \in R /\ calculate_order_flow_imbalance(s) \in R
      /\ calculate_liquidity_sweeps(s) \in R
  BY <1>1, <1>2
<1>4. ASSUME NEW k \in DOMAIN quant PROVE quant[k] \in R
  BY <1>3 DEF compute_quant_signals
<1> HIDE DEF quant
<1>5. \A k \in DOMAIN quant : quant[k] \in -One..One
  BY <1>4 DEF R
<1>6. QED
  BY <1>5 DEF quant, individual_signal_in_range
-----------------------------------------------------------------------------
(***************************************************************************)
(* The scores of the aggregator.                                             *)
(***************************************************************************)
Scores == {0, 10, 46, 76, 100}

(* x is a share of n.                                                        *)
ShareOf(n, x) == x \in Int /\ 0 <= x /\ x <= n

(* A coherent candle that opens at no negative price has a range.            *)
LEMMA RangeOfOpen ==
    ASSUME NEW c \in CandleData, ohlc_coherence(c), c.open >= 0
    PROVE  (IF c.open = 0 THEN 0 ELSE (1000 * (c.high - c.low)) \div c.open) \in Nat
<1>1. PICK p \in Nat : p = 1000 * (c.high - c.low)
  BY DEF CandleData, ohlc_coherence
<1>2. c.open \in Nat
  BY DEF CandleData
<1>3. CASE c.open = 0
  BY <1>3
<1>4. CASE c.open # 0
  <2>1. PICK q \in Nat \ {0} : q = c.open
    BY <1>2, <1>4
  <2>2. p \div q \in Nat
    OBVIOUS
  <2>3. QED
    BY <1>1, <1>4, <2>1, <2>2
<1>5. QED
  BY <1>3, <1>4

(* The volatility score is one of the five that tanh gives: its factor is    *)
(* defined, and so is the leverage cap of its band.                          *)
LEMMA VolatilityScores ==
    ASSUME NEW s \in SnapshotFields, MarketSnapshot(s),
           \A tf \in Timeframes : s.candles[tf].open >= 0
    PROVE  volatility_score(s) \in Scores
<1> DEFINE range(c) == IF c.open = 0 THEN 0 ELSE (1000 * (c.high - c.low)) \div c.open
           f == [tf \in Timeframes |-> range(s.candles[tf])]
<1>1. ASSUME NEW tf \in Timeframes PROVE f[tf] \in Nat
  <2>1. s.candles[tf] \in CandleData /\ ohlc_coherence(s.candles[tf]) /\ s.candles[tf].open >= 0
    BY SnapshotTypes DEF MarketSnapshot
  <2>2. QED
    BY <2>1, RangeOfOpen
<1>2. volatility_score(s) = tanh(Sum4(f), 40)
  BY DEF volatility_score
<1> HIDE DEF f
<1>3. PICK p \in Nat : p = Sum4(f)
  BY <1>1 DEF Sum4, Timeframes
<1>4. tanh(p, 40) \in Scores
  <2>1. Magnitude(p) = p /\ (p = 0 => Sign(p) = 0) /\ (p # 0 => Sign(p) = 1)
    BY DEF Magnitude, Sign
  <2> DEFINE size == CASE p >= 120 -> 100 [] p >= 40 /\ p < 120 -> 76
                       [] 2 * p >= 40 /\ p < 40 -> 46 [] p > 0 /\ 2 * p < 40 -> 10
                       [] p = 0 -> 0
  <2>2. tanh(p, 40) = Sign(p) * size
    BY <2>1 DEF tanh
  <2>3. size \in Scores
    BY DEF Scores
  <2> HIDE DEF size
  <2>4. QED
    BY <2>1, <2>2, <2>3 DEF Scores
<1>5. QED
  BY <1>2, <1>3, <1>4

(* Every market has one of the regimes the aggregator has a factor for.      *)
LEMMA RegimeFactors ==
    ASSUME NEW s
    PROVE  ShareOf(8500, _REGIME_FACTOR[assess(s).primary_regime])
<1>1. assess(s).primary_regime \in {"TRENDING", "BREAKOUT", "RANGING", "LOW_VOLATILITY",
                                    "HIGH_VOLATILITY", "UNCLEAR"}
  BY DEF assess, classify_primary_regime
<1>2. QED
  BY <1>1 DEF _REGIME_FACTOR, ShareOf

(* For every market whose candles open at no negative price and every answer *)
(* of GPT, the aggregated score is between 0 and 1, seven times 10000 here,  *)
(* and the volatility assessment names a leverage cap and a risk between 0   *)
(* and 1: DecisionAggregationResult and VolatilityAssessmentPackage never    *)
(* raise (aggregator_schemas.py:28-65, volatility/engine.py:78-137).         *)
THEOREM ScoresInRange ==
    ASSUME NEW s \in SnapshotFields, MarketSnapshot(s),
           \A tf \in Timeframes : s.candles[tf].open >= 0,
           NEW answer, answer.confidence \in 0..100
    PROVE  /\ ShareOf(70000, aggregated_score(answer, s, compute_quant_signals(s)))
           /\ compute_volatility_assessment(s).leverage_cap \in {3, 5, 7, 10}
           /\ compute_volatility_assessment(s).liquidation_risk_score \in 0..100
<1> DEFINE quant == compute_quant_signals(s)
           score == volatility_score(s)
<1>1. score \in Scores
  BY VolatilityScores
<1>2. compute_volatility_assessment(s).volatility_score = score
  BY DEF compute_volatility_assessment
<1>3. ShareOf(10000, _compute_volatility_factor(score))
  BY <1>1 DEF Scores, _compute_volatility_factor, ShareOf
<1>4. ShareOf(70000, _compute_quant_score(quant))
  <2>1. \A x : Within(x, 10000) => ShareOf(10000, Magnitude(x))
    BY DEF Within, Magnitude, ShareOf
  <2>2. /\ Within(quant.momentum, 10000) /\ Within(quant.mean_reversion, 10000)
        /\ Within(quant.breakout, 10000) /\ Within(quant.funding, 10000)
        /\ Within(quant.open_interest, 10000) /\ Within(quant.order_flow, 10000)
        /\ Within(quant.liquidity_sweep, 10000)
    BY SignalsWithin DEF compute_quant_signals
  <2> HIDE DEF quant
  <2>3. /\ ShareOf(10000, Magnitude(quant.momentum))
        /\ ShareOf(10000, Magnitude(quant.mean_reversion))
        /\ ShareOf(10000, Magnitude(quant.breakout))
        /\ ShareOf(10000, Magnitude(quant.funding))
        /\ ShareOf(10000, Magnitude(quant.open_interest))
        /\ ShareOf(10000, Magnitude(quant.order_flow))
        /\ ShareOf(10000, Magnitude(quant.liquidity_sweep))
    BY <2>1, <2>2
  <2>4. QED
    BY <2>3 DEF _compute_quant_score, ShareOf
<1>5. ShareOf(8500, _REGIME_FACTOR[assess(s).primary_regime])
  BY RegimeFactors
<1>6. ShareOf(70000, aggregated_score(answer, s, quant))
  <2>1. PICK q : q = _compute_quant_score(quant) /\ ShareOf(70000, q)
    BY <1>4
  <2>2. PICK r : r = _REGIME_FACTOR[assess(s).primary_regime] /\ ShareOf(8500, r)
    BY <1>5
  <2>3. PICK v : v = _compute_volatility_factor(score) /\ ShareOf(10000, v)
    BY <1>3
  <2>4. PICK g \in 0..100 : g = answer.confidence
    OBVIOUS
  <2> HIDE DEF quant, score
  <2>5. aggregated_score(answer, s, quant) = (4 * q + 7 * (300 * g + 2 * r + v)) \div 10
    BY <1>2, <2>1, <2>2, <2>3, <2>4 DEF aggregated_score
  <2>6. PICK x : x = 4 * q + 7 * (300 * g + 2 * r + v) /\ ShareOf(700000, x)
    BY <2>1, <2>2, <2>3 DEF ShareOf
  <2>7. ShareOf(70000, x \div 10)
    BY <2>6 DEF ShareOf
  <2>8. QED
    BY <2>5, <2>6, <2>7
<1>7. compute_volatility_assessment(s).leverage_cap \in {3, 5, 7, 10}
  BY <1>1 DEF compute_volatility_assessment, _leverage_cap_for_score, Scores
<1>8. compute_volatility_assessment(s).liquidation_risk_score \in 0..100
  <2> DEFINE c == s.candles["1h"]
             share == (10000 * (c.high - c.low)) \div s.last
             norm == IF 100 * (c.high - c.low) >= s.last THEN 100 ELSE share
  <2>1. /\ c \in CandleData /\ ohlc_coherence(c) /\ s.last \in Nat \ {0}
    BY SnapshotTypes DEF MarketSnapshot, Timeframes
  <2>2. PICK w \in Nat : w = c.high - c.low
    BY <2>1 DEF CandleData, ohlc_coherence
  <2>3. PICK l \in Nat \ {0} : l = s.last
    BY <2>1
  <2>4. PICK v \in Nat : v = 100 * w /\ 10000 * w = 100 * v
    OBVIOUS
  <2>5. norm \in 0..100
    <3>1. norm = IF v >= l THEN 100 ELSE (100 * v) \div l
      BY <2>2, <2>3, <2>4
    <3>2. v < l => (100 * v) \div l \in 0..100
      OBVIOUS
    <3> HIDE DEF norm
    <3>3. QED
      BY <3>1, <3>2
  <2>6. compute_volatility_assessment(s).liquidation_risk_score = (score + norm) \div 2
    BY DEF compute_volatility_assessment
  <2> HIDE DEF norm, score
  <2>7. \A a \in 0..100, b \in 0..100 : (a + b) \div 2 \in 0..100
    OBVIOUS
  <2>8. score \in 0..100
    BY <1>1 DEF Scores
  <2>9. QED
    BY <2>5, <2>6, <2>7, <2>8
<1>9. QED
  BY <1>6, <1>7, <1>8
=============================================================================
