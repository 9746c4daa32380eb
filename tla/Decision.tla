------------------------------ MODULE Decision ------------------------------
(***************************************************************************)
(* The decision pipeline of one symbol at a time, CycleRunner._process_symbol *)
(* up to the order: GPTClient.request with its token budget, retries and     *)
(* circuit breaker, the DecisionAggregator on the answer, the Risk Engine on *)
(* its parameters, and what is asked of the ExecutionEngine.  The worker     *)
(* awaits each step, so that OpenAI, the clock and the usage windows are all *)
(* that moves beside it.                                                     *)
(*                                                                           *)
(* The data is read where it is first used: the snapshot and the side of     *)
(* GPT's answer by the aggregator, the numbers of the decision and the       *)
(* account by the Risk Engine.  What time does to the windows and to the     *)
(* breaker is only read before a call: it is let pass there.                 *)
(***************************************************************************)
EXTENDS RiskEngine, CircuitBreaker

CONSTANTS
    Snapshots,      \* the market snapshots considered, by id
    Answers,        \* [decision, confidence]
    Terms,          \* the numbers a decision may have, by id
    Accounts,       \* the accounts considered, by id
    MaxAttempts,    \* max_retries + 1
    Tokens,         \* tokens of a call
    LimitHour,      \* token_budget.max_tokens_per_hour
    LimitDay        \* token_budget.max_tokens_per_24h

ASSUME DecisionLimits ==
    /\ MaxAttempts \in Nat \ {0} /\ Tokens \in Nat \ {0}
    /\ LimitHour \in Nat \ {0} /\ LimitDay \in Nat \ {0}

AnswerFields == [decision : Directions \cup {"NO_OPERAR"}, confidence : 0..100]

(* What the schemas let in has numbers where they ask for numbers.           *)
ASSUME InputsTyped ==
    /\ \A k \in DOMAIN Snapshots : Snapshots[k] \in SnapshotFields
    /\ Answers \subseteq AnswerFields
    /\ \A k \in DOMAIN Terms : Terms[k] \in DecisionFields
    /\ \A k \in DOMAIN Accounts : Accounts[k] \in AccountFields

VARIABLES
    pc,         \* where the worker is
    attempt,    \* of the retry loop
    breaker,    \* the GPTClient's
    rows,       \* rows of token_usages of the last hour, and of the 23 before
    input,      \* the snapshot and the answer the aggregator read, or None
    final,      \* final_action, with what is still read of its snapshot, or None
    proposal,   \* what the Risk Engine read, or None
    verdict,    \* what it answered, or None
    order,      \* the OrderRequest and the estimate it is stored with, or None
    gpt,        \* environment: whether OpenAI answers
    seen        \* observation: calls failed in a row, and whether
                \* reset_timeout_seconds have passed since the last one

risk == <<final, proposal, verdict, order>>
vars == <<pc, attempt, breaker, rows, input, risk, gpt, seen>>

Pcs == {"idle", "calling", "sent", "answered", "aggregated", "gated", "validated", "ordered"}

Init ==
    /\ pc = "idle" /\ attempt = 1
    /\ breaker = Closed
    /\ rows = [hour |-> 0, earlier |-> 0]
    /\ input = None /\ final = None /\ proposal = None /\ verdict = None
    /\ order = None
    /\ gpt \in {"up", "down"}
    /\ seen = [streak |-> 0, rested |-> FALSE]
-----------------------------------------------------------------------------
(***************************************************************************)
(* The token budget.                                                         *)
(***************************************************************************)
used_hour == Tokens * rows.hour
used_day == Tokens * (rows.hour + rows.earlier)

\* Fault: only the usage of the last hour is looked at.
hour_budget == used_hour < LimitHour

(* _status_for_usage is not EXCEEDED.                                        *)
check_budget == used_hour < LimitHour /\ used_day < LimitDay

(* The windows slide.                                                        *)
RowLeavesHour ==
    /\ pc \in {"idle", "calling"} /\ rows.hour > 0
    /\ rows' = [hour |-> rows.hour - 1, earlier |-> rows.earlier + 1]
    /\ UNCHANGED <<pc, attempt, breaker, input, risk, gpt, seen>>

RowLeavesDay ==
    /\ pc \in {"idle", "calling"} /\ rows.earlier > 0
    /\ rows' = [rows EXCEPT !.earlier = @ - 1]
    /\ UNCHANGED <<pc, attempt, breaker, input, risk, gpt, seen>>
-----------------------------------------------------------------------------
(***************************************************************************)
(* GPTClient.request: an exceeded budget returns or raises before any call.  *)
(***************************************************************************)
Request ==
    /\ pc = "idle" /\ check_budget
    /\ pc' = "calling" /\ attempt' = 1
    /\ UNCHANGED <<breaker, rows, input, risk, gpt, seen>>

(* The policy raises or returns None: either way the symbol is over.         *)
CallRefused ==
    /\ pc = "calling" /\ Refuses(breaker)
    /\ pc' = "idle"
    /\ UNCHANGED <<attempt, breaker, rows, input, risk, gpt, seen>>

Send ==
    /\ pc = "calling" /\ ~Refuses(breaker)
    /\ breaker' = before_call(breaker)
    /\ pc' = "sent"
    /\ UNCHANGED <<attempt, rows, input, risk, gpt, seen>>

(* A timeout, a network error, a 429, a 5xx or another status, an answer cut *)
(* short are retried; an authentication error or a body that is no JSON are  *)
(* not.  Whatever OpenAI charged for it is not recorded.                     *)
CallFails ==
    /\ pc = "sent" /\ gpt = "down"
    /\ breaker' = on_failure(breaker)
    /\ seen' = [streak |-> IF seen.streak < FailureThreshold THEN seen.streak + 1
                           ELSE seen.streak,
                rested |-> FALSE]
    /\ \E retryable \in BOOLEAN :
           IF GivesUp(attempt, MaxAttempts, retryable)
           THEN pc' = "idle" /\ UNCHANGED attempt
           ELSE pc' = "calling" /\ attempt' = attempt + 1
    /\ UNCHANGED <<rows, input, risk, gpt>>

(* The row of usage stays unless the answer had no usage, the database       *)
(* failed, or the SAVEPOINT of the symbol is rolled back with the row in it. *)
(* An answer outside the schema ends the symbol.                             *)
CallSucceeds ==
    /\ pc = "sent" /\ gpt = "up"
    /\ breaker' = on_success(breaker)
    /\ seen' = [streak |-> 0, rested |-> FALSE]
    /\ rows' \in {rows, [rows EXCEPT !.hour = @ + 1]}
    /\ pc' \in {"answered", "idle"}
    /\ UNCHANGED <<attempt, input, risk, gpt>>

ResetElapses ==
    /\ pc \in {"idle", "calling"} /\ seen.streak > 0 /\ ~seen.rested
    /\ breaker' = [breaker EXCEPT !.elapsed = (breaker.state = "OPEN")]
    /\ seen' = [seen EXCEPT !.rested = TRUE]
    /\ UNCHANGED <<pc, attempt, rows, input, risk, gpt>>

OpenAIChanges ==
    /\ pc \in {"idle", "calling"}
    /\ gpt' = IF gpt = "up" THEN "down" ELSE "up"
    /\ UNCHANGED <<pc, attempt, breaker, rows, input, risk, seen>>
-----------------------------------------------------------------------------
(***************************************************************************)
(* After the answer.                                                         *)
(***************************************************************************)
(* The snapshots the market data cycle delivers.                             *)
Delivered ==
    {k \in DOMAIN Snapshots : MarketSnapshot(Snapshots[k]) /\ validate_snapshot(Snapshots[k])}

Aggregate ==
    /\ pc = "answered"
    /\ input' \in [snapshot : Delivered, answer : Answers]
    /\ LET s == Snapshots[input'.snapshot]
       IN  final' = [decision |-> aggregate(input'.answer, s), funding |-> s.funding,
                     spread |-> s.ask - s.bid]
    /\ pc' = "aggregated"
    /\ UNCHANGED <<attempt, breaker, rows, proposal, verdict, order, gpt, seen>>

Clear == input' = None /\ final' = None /\ proposal' = None /\ verdict' = None

(* NO_OPERAR ends the symbol; else the snapshot has been read for the last   *)
(* time, but for its funding and its book.                                   *)
Gate ==
    /\ pc = "aggregated"
    /\ IF final.decision = "NO_OPERAR" THEN pc' = "idle" /\ Clear /\ UNCHANGED order
       ELSE pc' = "gated" /\ input' = None /\ UNCHANGED risk
    /\ UNCHANGED <<attempt, breaker, rows, gpt, seen>>

(* Rates the exchange gives and FeeRates refuses are no rates.               *)
Account(p) ==
    LET a == Accounts[p.account] IN
    [a EXCEPT !.funding = final.funding,
              !.rates = IF @ = None THEN None ELSE IF FeeRates(@) THEN @ ELSE None]

(* The numbers are those of an answer that passed the schema, the funding    *)
(* that of the snapshot.                                                     *)
Validate ==
    /\ pc = "gated"
    /\ proposal' \in [terms : DOMAIN Terms, account : DOMAIN Accounts]
    /\ LET d == Terms[proposal'.terms]
       IN  /\ d.decision = final.decision
           /\ ValidDecision(d)
           /\ verdict' = validate(d, Account(proposal'))
    /\ pc' = "validated"
    /\ UNCHANGED <<attempt, breaker, rows, input, final, order, gpt, seen>>

\* Fault: the estimate of the parameters GPT proposed is kept.
estimate_as_proposed(d, v, spread) == estimate_for_decision(d, d.margin, d.leverage, spread)

(* Made before the Risk Engine, and made again if it changed the parameters. *)
executed_estimate(d, v, spread) ==
    LET proposed == estimate_for_decision(d, d.margin, d.leverage, spread)
    IN  IF proposed # None /\ (v.margin # d.margin \/ v.leverage # d.leverage)
        THEN estimate_for_decision(d, v.margin, v.leverage, spread) ELSE proposed

(* _build_order_request, with the book of the estimate.                      *)
_build_order_request(d, v, spread) ==
    [side |-> IF d.decision = "LONG" THEN "BUY" ELSE "SELL", type |-> d.entry_type,
     entry |-> d.entry, notional |-> v.margin * v.leverage, spread |-> spread]

(* The order is asked for, or the Risk Engine has blocked it.                *)
Execute ==
    /\ pc = "validated"
    /\ LET d == Terms[proposal.terms] IN
       IF verdict.decision \in {"APPROVE", "ADJUST_DOWN"}
       THEN /\ order' = [request |-> _build_order_request(d, verdict, final.spread),
                         estimate |-> executed_estimate(d, verdict, final.spread)]
            /\ pc' = "ordered"
       ELSE pc' = "idle" /\ UNCHANGED order
    /\ Clear
    /\ UNCHANGED <<attempt, breaker, rows, gpt, seen>>

(* However the order fared: the next symbol.                                 *)
Finish ==
    /\ pc = "ordered"
    /\ pc' = "idle" /\ order' = None
    /\ UNCHANGED <<attempt, breaker, rows, input, final, proposal, verdict, gpt, seen>>
-----------------------------------------------------------------------------
Worker ==
    \/ Request \/ CallRefused \/ Send \/ CallFails \/ CallSucceeds
    \/ Aggregate \/ Gate \/ Validate \/ Execute \/ Finish

Next == Worker \/ RowLeavesHour \/ RowLeavesDay \/ ResetElapses \/ OpenAIChanges

Spec == Init /\ [][Next]_vars

(* The worker asks again every tick, and time passes: windows slide, and the *)
(* breaker's timeout ends.                                                   *)
FairSpec ==
    /\ Spec
    /\ WF_vars(Worker) /\ WF_vars(ResetElapses)
    /\ WF_vars(RowLeavesHour) /\ WF_vars(RowLeavesDay)
-----------------------------------------------------------------------------
(* The types.  The signals of every snapshot delivered are in their range:   *)
(* no sound market makes the package raise.                                  *)
TypeOK ==
    /\ pc \in Pcs /\ attempt \in 1..MaxAttempts
    /\ breaker \in [state : BreakerStates, failures : 0..FailureThreshold + 1, elapsed : BOOLEAN]
    /\ rows \in [hour : Nat, earlier : Nat]
    /\ \/ input = None
       \/ /\ input \in [snapshot : DOMAIN Snapshots, answer : Answers]
          /\ individual_signal_in_range(compute_quant_signals(Snapshots[input.snapshot]))
    /\ final = None \/ final.decision \in Directions \cup {"NO_OPERAR"}
    /\ proposal = None \/ proposal \in [terms : DOMAIN Terms, account : DOMAIN Accounts]
    /\ verdict = None \/ verdict.decision \in Verdicts
    /\ order = None \/ order.request.notional \in Nat \ {0}
    /\ gpt \in {"up", "down"}
    /\ seen \in [streak : 0..FailureThreshold, rested : BOOLEAN]

(* LONG and SHORT are treated alike: on the market turned upside down, and   *)
(* the opposite answer, the aggregator comes to the opposite conclusion      *)
(* (aggregator.py:121-290 and every signal it reads), and GPT had been shown *)
(* the same regime, volatility and leverage with the directions exchanged    *)
(* (prompt_builder.py:254-282).  Prices turn around Mid; where a candle      *)
(* sweeps levels of both sides by as much, the signal goes to the bullish    *)
(* side by rule (liquidity_sweeps.py:155-212).  Ranges are measured against  *)
(* the close, which turning changes by a few percent: the property is meant  *)
(* for candles no nearer than that to a threshold (MeasuresAlike).           *)
Mid == 1000
Turned(c) ==
    [open |-> 2 * Mid - c.open, close |-> 2 * Mid - c.close,
     high |-> 2 * Mid - c.low, low |-> 2 * Mid - c.high]
Mirror(s) ==
    [s EXCEPT !.candles = [tf \in Timeframes |-> Turned(s.candles[tf])],
              !.history = [tf \in Timeframes |->
                              [i \in DOMAIN s.history[tf] |-> Turned(s.history[tf][i])]],
              !.last = 2 * Mid - s.last,
              !.funding = IF s.funding = None THEN None ELSE -s.funding]
Opposite(decision) ==
    CASE decision = "LONG" -> "SHORT" [] decision = "SHORT" -> "LONG"
      [] decision = "NO_OPERAR" -> "NO_OPERAR"
Exchanged(state) ==
    CASE state = "BULLISH" -> "BEARISH" [] state = "BEARISH" -> "BULLISH"
      [] state = "POSITIVE" -> "NEGATIVE" [] state = "NEGATIVE" -> "POSITIVE"
      [] OTHER -> state
Shown(s) == [regime |-> assess(s), volatility |-> compute_volatility_assessment(s)]
SidesAlike ==
    pc = "aggregated" =>
        LET s == Snapshots[input.snapshot]
            here == Shown(s)
            there == Shown(Mirror(s))
        IN  /\ aggregate([input.answer EXCEPT !.decision = Opposite(input.answer.decision)],
                         Mirror(s)) = Opposite(final.decision)
            /\ there.regime = [k \in DOMAIN here.regime |-> Exchanged(here.regime[k])]
            /\ \A k \in {"volatility_regime", "leverage_cap"} :
                   there.volatility[k] = here.volatility[k]

(* The snapshots SidesAlike is meant for.  Some measures divide by a price,   *)
(* and turning changes the price: they are on their coarse scale what they   *)
(* were (momentum, breakout, regime, volatility).                            *)
MeasuresAlike(s) ==
    LET hour == s.candles["1h"]
        top == s.candles["4h"].high
        bottom == s.candles["4h"].low
    IN  /\ \A tf \in Timeframes :
              LET c == s.candles[tf]
              IN  tanh((c.close - c.open) * 1000, (2 * Mid - c.open) * _TF_ROC_THRESHOLD[tf])
                      = tanh((c.close - c.open) * 1000, c.open * _TF_ROC_THRESHOLD[tf])
        /\ s.last > top =>
              tanh(100 * (s.last - top), 2 * Mid - top) = tanh(100 * (s.last - top), top)
        /\ s.last < bottom =>
              tanh(100 * (s.last - bottom), 2 * Mid - bottom)
                  = tanh(100 * (s.last - bottom), bottom)
        /\ s.last \in bottom..top =>
              tanh(100 * (2 * s.last - top - bottom), 4 * Mid - top - bottom)
                  = tanh(100 * (2 * s.last - top - bottom), top + bottom)
        /\ \A n \in {150, 400} : RangeReaches(Turned(hour), n) <=> RangeReaches(hour, n)
        /\ RangeWithin(Turned(hour), 30) <=> RangeWithin(hour, 30)
        /\ volatility_score(Mirror(s)) = volatility_score(s)

(* A candle that sweeps levels of both sides returns further from one.       *)
SweepsOneSide(s) ==
    \A tf \in Timeframes :
        LET c == s.candles[tf]
        IN  /\ \E l \in _find_swing_lows(s.history[tf]) : c.low < l /\ l < c.close
            /\ \E h \in _find_swing_highs(s.history[tf]) : c.close < h /\ h < c.high
            => tanh(c.close - c.low, c.high - c.low) # tanh(c.high - c.close, c.high - c.low)

(* What is sent would be defended number by number: the stop comes before    *)
(* the liquidation GPT declares and the target lies on the other side; the   *)
(* money won at the target, fees paid, is worth what is lost at the stop;    *)
(* the caps of margin and leverage, the number of positions, the losses of   *)
(* the day and in total and the funding stay within their limits, and the    *)
(* entry neither raises a bet after a loss nor adds to a position that       *)
(* loses.  The two minima of liquidation_safety are not among what is kept   *)
(* (LiquidationMarginsKept)                                                  *)
(* (risk_engine/engine.py:55-249 with schemas.py:248-332 and fees.py).       *)
ApprovedOrderIsSound ==
    pc = "validated" /\ verdict.decision \in {"APPROVE", "ADJUST_DOWN"} =>
        LET d == Terms[proposal.terms]
            a == Account(proposal)
            side == IF d.decision = "LONG" THEN 1 ELSE -1
            notional == verdict.margin * verdict.leverage
            paid(exit) == notional * (d.entry * entry_rate(d, a.rates) + exit * a.rates.taker)
            won == notional * 10000 * side * (d.tp - d.entry) - paid(d.tp)
            lost == notional * 10000 * side * (d.entry - d.sl) + paid(d.sl)
            losses == get_loss_totals(a.trades)
            own == {i \in DOMAIN a.trades : a.trades[i].own}
            latest(S, i) == i \in S /\ \A j \in S : j <= i
        IN  /\ side * d.entry * (100 - side * d.liquidation) < side * 100 * d.sl
            /\ side * d.sl < side * d.entry /\ side * d.entry < side * d.tp
            /\ 100 * won >= MinNetRR * lost
            /\ verdict.margin \in 1..MaxMargin /\ verdict.leverage \in 1..cap_for_env
            /\ a.count + 1 <= MaxOpen
            /\ 100 * losses.daily < MaxDailyLoss * InitialBalance
            /\ 100 * losses.total < MaxTotalLoss * InitialBalance
            /\ side * a.funding < MaxAdverseFunding
            /\ \A i \in DOMAIN a.trades : a.trades[i].pnl < 0 =>
                  /\ latest(own, i) => verdict.margin <= a.trades[i].margin
                  /\ latest(DOMAIN a.trades, i) => verdict.leverage <= a.trades[i].leverage
            /\ a.open_pnl # None => a.open_pnl >= 0

(* An order nearer to the liquidation than liquidation_safety allows, at its  *)
(* entry or at its stop, is brought down or blocked, not approved as it is:  *)
(* what the configuration asks for (config.yaml:129-133) and the check itself *)
(* says of it (checks.py:410-444).                                           *)
LiquidationMarginsKept ==
    pc = "validated" /\ verdict.decision = "APPROVE" =>
        LET d == Terms[proposal.terms]
        IN  /\ d.liquidation >= MinEntryDistance
            /\ ~BufferBelow(d, _estimate_liquidation_price(d), MinStopBuffer)

(* An order brought down to the caps is one the Risk Engine would have       *)
(* approved as it is (adjustments.py:16-28, engine.py:195-230).              *)
AdjustmentStable ==
    pc = "validated" /\ verdict.decision \in {"APPROVE", "ADJUST_DOWN"} =>
        validate([Terms[proposal.terms] EXCEPT !.margin = verdict.margin,
                                              !.leverage = verdict.leverage],
                 Account(proposal)) = [verdict EXCEPT !.decision = "APPROVE"]

(* The estimate stored with a MARKET order is the slippage PaperAdapter then *)
(* measures on its fill, whatever the Risk Engine made of the parameters:    *)
(* comparing the two columns of orders says something of the market only     *)
(* (cycle_runner.py:575-599, slippage.py:128-281, paper_adapter.py:294-368). *)
EstimateMatchesFill ==
    pc = "ordered" /\ order.request.type = "MARKET" =>
        order.estimate = _fill_market_order(order.request)

(* A request is let through on the usage recorded before it, and records one *)
(* answer at most, whatever the retries and however the windows slide        *)
(* meanwhile: no window passes its limit by a whole answer                   *)
(* (gpt_client.py:232-282, token_budget/manager.py:54-146).                  *)
BudgetKept == used_hour < LimitHour + Tokens /\ used_day < LimitDay + Tokens

(* After FailureThreshold failures in a row nothing is sent until            *)
(* reset_timeout_seconds have passed since the last one: one probe at a time, *)
(* whichever request it belongs to (core/retry.py:54-87).                    *)
BreakerShields ==
    [][pc' = "sent" /\ pc # "sent" => seen.streak < FailureThreshold \/ seen.rested]_vars

(* When OpenAI is back for good, an open breaker closes: the bot does not    *)
(* stay without GPT (core/retry.py:66-87, manager.py:124-142).               *)
ModelAskedAgain == <>[](gpt = "up") => (breaker.state = "OPEN" ~> breaker.state = "CLOSED")
=============================================================================
