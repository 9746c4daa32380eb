--------------------------- MODULE MarketAnalysis ---------------------------
(***************************************************************************)
(* What the decision pipeline derives from a MarketSnapshot, as pure         *)
(* operators: whether it is taken (market_data/), the seven quantitative     *)
(* signals (quant_signals/), the market regime (market_regime/), the         *)
(* volatility score (volatility/), and the DecisionAggregator that weighs    *)
(* them against GPT's answer (decision_engine/aggregator.py).                *)
(*                                                                           *)
(* Fractions are integers in 1/10000, the result of tanh in 1/100; sums that *)
(* the code divides are kept whole and the threshold is multiplied instead.  *)
(* A snapshot is a record:                                                   *)
(*   candles: open, high, low, close per timeframe                           *)
(*   history: the earlier candles of each timeframe                          *)
(*   last: last_price; funding: None or funding_rate in 1/10000;             *)
(*   interest: None or open_interest, volume: the 24 h volume                *)
(*   volumes, counts: volume and n_candles of each timeframe's candle        *)
(*   bid, ask: the book; age: seconds since timestamp_utc                    *)
(***************************************************************************)
EXTENDS Integers, Sequences, FiniteSets

CONSTANT None

(* Python's None is neither a number nor the name of a state.                *)
ASSUME NoneIsNoValue ==
    None \notin Int /\ None \notin {"BULLISH", "BEARISH", "POSITIVE", "NEGATIVE"}

Timeframes == {"5m", "15m", "1h", "4h"}

(* _TF_WEIGHTS, the same in momentum, order flow and liquidity sweeps.       *)
_TF_WEIGHTS == [tf \in Timeframes |->
    CASE tf = "5m" -> 10 [] tf = "15m" -> 20 [] tf = "1h" -> 30 [] tf = "4h" -> 40]

Sign(x) == IF x > 0 THEN 1 ELSE IF x < 0 THEN -1 ELSE 0
Magnitude(x) == IF x < 0 THEN -x ELSE x

Square(x) == x * x

(* A signal of 1.0.                                                          *)
One == 10000

(* Division that rounds towards zero.                                        *)
Quotient(p, q) == Sign(p) * (Magnitude(p) \div q)

Sum4(f) == f["5m"] + f["15m"] + f["1h"] + f["4h"]
Weighted(f) == Sum4([tf \in Timeframes |-> _TF_WEIGHTS[tf] * f[tf]])

(* math.tanh(p / q) in hundredths, on a coarse scale: odd, growing, 0.76 at  *)
(* 1, and 1 from 3 on.                                                       *)
tanh(p, q) ==
    LET a == Magnitude(p) IN
    Sign(p) * (CASE a >= 3 * q -> 100 [] a >= q /\ a < 3 * q -> 76
                 [] 2 * a >= q /\ a < q -> 46 [] a > 0 /\ 2 * a < q -> 10 [] a = 0 -> 0)
-----------------------------------------------------------------------------
(***************************************************************************)
(* Which snapshots enter the pipeline: the validators of the schema and the  *)
(* gate of MarketDataEngine.process_snapshot.                                *)
(***************************************************************************)
CandleData == [open : Int, high : Int, low : Int, close : Int]
SnapshotFields ==
    [candles : [Timeframes -> CandleData], history : [Timeframes -> Seq(CandleData)],
     last : Int, bid : Int, ask : Int, age : Int,
     funding : Int \cup {None}, interest : Int \cup {None}, volume : Int,
     volumes : [Timeframes -> Int], counts : [Timeframes -> Int]]

ohlc_coherence(c) == c.low <= c.open /\ c.open <= c.high /\ c.low <= c.close /\ c.close <= c.high

(* spread_percent, against the bid, is at most _MAX_SPREAD_PERCENT.          *)
prices_coherent(s) ==
    /\ 0 < s.bid /\ s.bid < s.ask
    /\ 100 * (s.ask - s.bid) <= 5 * s.bid
    /\ s.bid <= s.last /\ s.last <= s.ask

MarketSnapshot(s) ==
    /\ \A tf \in Timeframes :
          /\ ohlc_coherence(s.candles[tf])
          /\ \A i \in DOMAIN s.history[tf] : ohlc_coherence(s.history[tf][i])
          /\ s.volumes[tf] >= 0 /\ s.counts[tf] >= 1
    /\ s.last > 0 /\ s.volume >= 0
    /\ prices_coherent(s)

evaluate_freshness(s) ==
    IF s.age > 30 THEN "EXPIRED" ELSE IF s.age > 10 THEN "STALE" ELSE "FRESH"

_check_gaps(s) == {tf \in Timeframes \ {"5m"} : s.counts[tf] < 3}

(* The last price is more than 2 % away from the close of the 5m candle.     *)
_check_price_coherence(s) ==
    LET close == s.candles["5m"].close
    IN  IF close <= 0 THEN "INVALID"
        ELSE IF 100 * Magnitude(s.last - close) > 2 * close THEN "WARNING" ELSE "OK"

evaluate_coherence(s) == IF _check_gaps(s) # {} THEN "INVALID" ELSE _check_price_coherence(s)

(* A stale snapshot, or one with a warning, passes.                          *)
validate_snapshot(s) == evaluate_freshness(s) # "EXPIRED" /\ evaluate_coherence(s) # "INVALID"
-----------------------------------------------------------------------------
(***************************************************************************)
(* Quantitative signals: -10000 (bearish) to 10000 (bullish).                *)
(***************************************************************************)
(* _TF_ROC_THRESHOLD, in thousandths.                                        *)
_TF_ROC_THRESHOLD == [tf \in Timeframes |->
    CASE tf = "5m" -> 2 [] tf = "15m" -> 4 [] tf = "1h" -> 10 [] tf = "4h" -> 20]

calculate_momentum(s) ==
    Weighted([tf \in Timeframes |->
        LET c == s.candles[tf]
        IN  tanh((c.close - c.open) * 1000, c.open * _TF_ROC_THRESHOLD[tf])])

(* Against the mean and the deviation of the four closes; their squares are  *)
(* compared, since z is the root of a quotient.                              *)
compute_mean_reversion_signal(s) ==
    LET sum == Sum4([tf \in Timeframes |-> s.candles[tf].close])
        variance == Sum4([tf \in Timeframes |-> Square(4 * s.candles[tf].close - sum)])
        distance == sum - 4 * s.last
        a == 4 * Square(distance)
    IN  IF variance = 0 THEN 0
        ELSE 100 * Sign(distance) *
             (IF a >= 9 * variance THEN 100 ELSE IF a >= variance THEN 76
              ELSE IF 4 * a >= variance THEN 46 ELSE IF a > 0 THEN 10 ELSE 0)

(* The rate of the 5m candle against the mean of the 1h and 4h rates, in     *)
(* hundredths between _MIN_VOL_FACTOR and 1.                                 *)
volume_factor(s) ==
    LET baseline == 4 * s.volumes["1h"] + s.volumes["4h"]
        ratio == (9600 * s.volumes["5m"]) \div baseline
    IN  IF baseline = 0 \/ ratio > 100 THEN 100 ELSE IF ratio < 20 THEN 20 ELSE ratio

calculate_breakout(s) ==
    LET top == s.candles["4h"].high
        bottom == s.candles["4h"].low
        raw == CASE s.last > top -> 100 * tanh(100 * (s.last - top), top)
                 [] s.last < bottom -> 100 * tanh(100 * (s.last - bottom), bottom)
                 [] s.last \in bottom..top ->
                        10 * tanh(100 * (2 * s.last - top - bottom), top + bottom)
    IN  Quotient(raw * volume_factor(s), 100)

(* _FUNDING_SCALE is 3/10000.                                                *)
compute_funding_signal(s) == IF s.funding = None THEN 0 ELSE -100 * tanh(s.funding, 3)

compute_open_interest_signal(s) ==
    IF s.interest = None \/ s.volume = 0 THEN 0
    ELSE -100 * tanh(s.interest - s.volume, s.volume)

_candle_ofi(c) ==
    IF c.high = c.low THEN 0
    ELSE Quotient(100 * (2 * c.close - c.high - c.low), c.high - c.low)

calculate_order_flow_imbalance(s) ==
    Weighted([tf \in Timeframes |-> _candle_ofi(s.candles[tf])])
-----------------------------------------------------------------------------
(* Liquidity sweeps: wick asymmetry, and swing levels of the history that    *)
(* the candle pierces and closes back over.                                  *)
_TF_SWEEP_THRESHOLD == [tf \in Timeframes |->
    CASE tf \in {"5m", "15m"} -> 25 [] tf = "1h" -> 28 [] tf = "4h" -> 30]
_SWING_LOOKBACK == 3

_proxy_score(c, threshold) ==
    LET range == c.high - c.low
        lower == (IF c.open < c.close THEN c.open ELSE c.close) - c.low
        upper == c.high - (IF c.open < c.close THEN c.close ELSE c.open)
    IN  IF range = 0 THEN 0 ELSE tanh(100 * (Square(lower) - Square(upper)), threshold * Square(range))

Pivots(history) == (_SWING_LOOKBACK + 1)..(Len(history) - _SWING_LOOKBACK)
Neighbours(i) == (i - _SWING_LOOKBACK)..(i + _SWING_LOOKBACK) \ {i}

_find_swing_lows(history) ==
    {history[i].low : i \in {p \in Pivots(history) :
        \A j \in Neighbours(p) : history[p].low < history[j].low}}

_find_swing_highs(history) ==
    {history[i].high : i \in {p \in Pivots(history) :
        \A j \in Neighbours(p) : history[p].high > history[j].high}}

(* penetration + recovery does not depend on the level: the best score is    *)
(* the score of any level swept.  A tie goes to the bullish side.            *)
_historical_score(c, history) ==
    LET range == c.high - c.low
        bull == IF \E l \in _find_swing_lows(history) : c.low < l /\ l < c.close
                THEN tanh(c.close - c.low, range) ELSE 0
        bear == IF \E h \in _find_swing_highs(history) : c.close < h /\ h < c.high
                THEN tanh(c.high - c.close, range) ELSE 0
    IN  IF bull >= bear THEN bull ELSE -bear

(* _HISTORICAL_WEIGHT of the levels when there are 2 * lookback + 1 candles. *)
calculate_liquidity_sweeps(s) ==
    Quotient(Weighted([tf \in Timeframes |->
        LET proxy == _proxy_score(s.candles[tf], _TF_SWEEP_THRESHOLD[tf])
        IN  IF Len(s.history[tf]) >= 2 * _SWING_LOOKBACK + 1
            THEN 6 * _historical_score(s.candles[tf], s.history[tf]) + 4 * proxy
            ELSE 10 * proxy]), 10)

(* QuantSignalsPackage.  signal_strength_score and signal_conflict_score are *)
(* never given: they stay None.                                              *)
compute_quant_signals(s) ==
    [momentum |-> calculate_momentum(s),
     mean_reversion |-> compute_mean_reversion_signal(s),
     breakout |-> calculate_breakout(s),
     funding |-> compute_funding_signal(s),
     open_interest |-> compute_open_interest_signal(s),
     order_flow |-> calculate_order_flow_imbalance(s),
     liquidity_sweep |-> calculate_liquidity_sweeps(s)]

(* Outside the range, QuantSignalsPackage raises and the symbol is lost.     *)
individual_signal_in_range(quant) == \A k \in DOMAIN quant : quant[k] \in -One..One
-----------------------------------------------------------------------------
(***************************************************************************)
(* Market regime.  A candle's body and the place of its close are fractions  *)
(* of its range, compared with their thresholds crosswise.                   *)
(***************************************************************************)
(* _candle_metrics: body_ratio >= n/100 and close_position; with no range    *)
(* they are 0 and 0.5.                                                       *)
BodyAtLeast(c, n) ==
    c.high > c.low /\ 100 * Magnitude(c.close - c.open) >= n * (c.high - c.low)

_is_bullish_close(c) ==
    c.high > c.low /\ 100 * (c.close - c.low) >= 70 * (c.high - c.low)
_is_bearish_close(c) ==
    c.high > c.low /\ 100 * (c.close - c.low) <= 30 * (c.high - c.low)

(* _range_pct of a candle is at least, at most n hundredths of a percent.    *)
RangeReaches(c, n) == c.close > 0 /\ 10000 * (c.high - c.low) >= n * c.close
RangeWithin(c, n) == c.close = 0 \/ 10000 * (c.high - c.low) <= n * c.close

assess_volatility_state(s) ==
    CASE RangeReaches(s.candles["1h"], 400) -> "HIGH"
      [] RangeWithin(s.candles["1h"], 30) -> "LOW"
      [] OTHER -> "NORMAL"

(* A wide spread is little liquidity.                                        *)
assess_liquidity_state(s) ==
    CASE 1000 * (s.ask - s.bid) >= 15 * s.bid -> "LOW"
      [] 10000 * (s.ask - s.bid) <= 5 * s.bid -> "HIGH"
      [] OTHER -> "NORMAL"

assess_funding_state(s) ==
    IF s.funding = None THEN "NEUTRAL"
    ELSE CASE Magnitude(s.funding) >= 20 -> "EXTREME"
           [] s.funding \in 1..19 -> "POSITIVE"
           [] -s.funding \in 1..19 -> "NEGATIVE"
           [] s.funding = 0 -> "NEUTRAL"

(* One snapshot has no earlier value to rise or fall from.                   *)
assess_open_interest_state(s) == IF s.interest = None THEN "UNKNOWN" ELSE "STABLE"

assess_trend_alignment(s) ==
    LET bullish == Cardinality({tf \in Timeframes : _is_bullish_close(s.candles[tf])})
        bearish == Cardinality({tf \in Timeframes : _is_bearish_close(s.candles[tf])})
    IN  CASE bullish >= 3 -> "BULLISH"
          [] bearish >= 3 -> "BEARISH"
          [] bullish \in 1..2 /\ bearish \in 1..2 -> "MIXED"
          [] OTHER -> "NEUTRAL"

(* classify_primary_regime: the first rule that applies.                     *)
classify_primary_regime(s) ==
    LET c == s.candles["1h"]
        extreme == _is_bullish_close(c) \/ _is_bearish_close(c)
        state == assess_volatility_state(s)
    IN  IF state = "HIGH" THEN "HIGH_VOLATILITY"
        ELSE IF state = "LOW" THEN "LOW_VOLATILITY"
        ELSE IF BodyAtLeast(c, 75) /\ extreme /\ RangeReaches(c, 150) THEN "BREAKOUT"
        ELSE IF /\ BodyAtLeast(c, 50) /\ BodyAtLeast(s.candles["4h"], 40)
                /\ assess_trend_alignment(s) \in {"BULLISH", "BEARISH"} THEN "TRENDING"
        ELSE IF ~extreme /\ 100 * Magnitude(c.close - c.open) <= 35 * (c.high - c.low)
             THEN "RANGING"
        ELSE "UNCLEAR"

(* The branch for a TRENDING or RANGING market of HIGH or LOW volatility is  *)
(* there, though classify_primary_regime has named the volatility by then.   *)
classify_secondary_regime(primary, volatility, alignment) ==
    CASE primary = "BREAKOUT" -> "TRENDING"
      [] primary \in {"TRENDING", "RANGING"} /\ volatility = "HIGH" -> "HIGH_VOLATILITY"
      [] primary \in {"TRENDING", "RANGING"} /\ volatility = "LOW" -> "LOW_VOLATILITY"
      [] primary = "UNCLEAR" /\ alignment \in {"BULLISH", "BEARISH"} -> "TRENDING"
      [] OTHER -> None

(* MarketRegimeEngine.assess, without the confidence and the notes.          *)
assess(s) ==
    LET primary == classify_primary_regime(s)
        volatility == assess_volatility_state(s)
        alignment == assess_trend_alignment(s)
    IN  [primary_regime |-> primary,
         secondary_regime |-> classify_secondary_regime(primary, volatility, alignment),
         volatility_state |-> volatility,
         liquidity_state |-> assess_liquidity_state(s),
         funding_state |-> assess_funding_state(s),
         open_interest_state |-> assess_open_interest_state(s),
         trend_alignment |-> alignment]
-----------------------------------------------------------------------------
(* volatility_score, in hundredths: the mean range of the four candles       *)
(* against _REALIZED_VOL_THRESHOLD; each range in thousandths of its open.   *)
volatility_score(s) ==
    LET range(c) == IF c.open = 0 THEN 0 ELSE (1000 * (c.high - c.low)) \div c.open
    IN  tanh(Sum4([tf \in Timeframes |-> range(s.candles[tf])]), 40)

(* _LEVERAGE_BANDS, each with its upper end.                                 *)
_leverage_cap_for_score(score) ==
    CASE score <= 25 -> 10 [] score \in 26..50 -> 7 [] score \in 51..75 -> 5 [] score > 75 -> 3

(* liquidation_risk_score adds the range of the 1h candle to the score, as a *)
(* share of the last price that counts up to _ATR_PERCENT_CAP, 1 percent.    *)
compute_volatility_assessment(s) ==
    LET score == volatility_score(s)
        c == s.candles["1h"]
        atr_percent_norm == IF 100 * (c.high - c.low) >= s.last THEN 100
                            ELSE (10000 * (c.high - c.low)) \div s.last
    IN  [volatility_score |-> score,
         volatility_regime |-> IF score >= 50 THEN "EXPANSION" ELSE "CONTRACTION",
         leverage_cap |-> _leverage_cap_for_score(score),
         liquidation_risk_score |-> (score + atr_percent_norm) \div 2]
-----------------------------------------------------------------------------
(***************************************************************************)
(* DecisionAggregator.                                                       *)
(***************************************************************************)
(* _compute_quant_score: seven times it.  signal_strength_score is None and  *)
(* each of the seven signals is a number, so their mean is taken.            *)
_compute_quant_score(quant) ==
    Magnitude(quant.momentum) + Magnitude(quant.mean_reversion) + Magnitude(quant.breakout)
        + Magnitude(quant.funding) + Magnitude(quant.open_interest)
        + Magnitude(quant.order_flow) + Magnitude(quant.liquidity_sweep)

(* _net_quant_direction: three times it.                                     *)
_net_quant_direction(quant) == quant.momentum + quant.mean_reversion + quant.breakout

_REGIME_FACTOR == [r \in {"TRENDING", "BREAKOUT", "RANGING", "LOW_VOLATILITY",
                          "HIGH_VOLATILITY", "UNCLEAR"} |->
    CASE r \in {"TRENDING", "BREAKOUT"} -> 8500 [] r = "RANGING" -> 5500
      [] r = "LOW_VOLATILITY" -> 5000 [] r = "HIGH_VOLATILITY" -> 4000 [] r = "UNCLEAR" -> 2000]

(* 1 - 0.6 * score ^ 1.5, for each score that tanh gives.                    *)
_compute_volatility_factor(score) ==
    CASE score = 0 -> 10000 [] score = 10 -> 9810 [] score = 46 -> 8128
      [] score = 76 -> 6025 [] score = 100 -> 4000

\* Fault: only a LONG is compared with the direction of the signals.
contradictions_of_longs(answer, quant) ==
    \/ answer.decision = "LONG" /\ _net_quant_direction(quant) < -3 * 2000
    \/ _compute_quant_score(quant) < 7 * 4000
    \/ answer.confidence < 70

(* signal_conflict_score is None, so quant_internal_conflict is never found. *)
_detect_contradictions(answer, quant) ==
    \/ answer.decision = "LONG" /\ _net_quant_direction(quant) < -3 * 2000
    \/ answer.decision = "SHORT" /\ _net_quant_direction(quant) > 3 * 2000
    \/ _compute_quant_score(quant) < 7 * 4000
    \/ answer.confidence < 70

(* Seven times the score: 0.4 quant + 0.3 GPT + 0.2 regime + 0.1 volatility. *)
aggregated_score(answer, s, quant) ==
    (4 * _compute_quant_score(quant)
        + 7 * (300 * answer.confidence + 2 * _REGIME_FACTOR[assess(s).primary_regime]
                 + _compute_volatility_factor(
                       compute_volatility_assessment(s).volatility_score))) \div 10

aggregate(answer, s) ==
    LET quant == compute_quant_signals(s) IN
    IF \/ answer.decision = "NO_OPERAR"
       \/ _detect_contradictions(answer, quant)
       \/ aggregated_score(answer, s, quant) < 7 * 5000
    THEN "NO_OPERAR" ELSE answer.decision
=============================================================================
