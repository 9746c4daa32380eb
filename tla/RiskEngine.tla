----------------------------- MODULE RiskEngine -----------------------------
(***************************************************************************)
(* From GPT's ModelDecision to the parameters of the order, as pure          *)
(* operators: the schema's validators (decision_engine/schemas.py), the net  *)
(* risk-reward after fees (core/fees.py), the slippage (core/slippage.py),   *)
(* the checks (risk_engine/checks.py) and validate (risk_engine/engine.py).  *)
(* The limits are those of a config that loads (core/config.py), every gate  *)
(* of it enabled.                                                            *)
(*                                                                           *)
(* A decision d is a record: decision, execute, entry_type, entry, sl, tp    *)
(* (prices), margin, leverage, liquidation (the distance GPT declares, in    *)
(* percent), plan (whether the position_management_plan names an exit).      *)
(* An account a is what the cycle runner reads with it: trades (the closed   *)
(* ones in order: own, whether of the decision's symbol, today, net pnl,     *)
(* margin and leverage), funding (None, or the rate in 1/10000), count       *)
(* (None, or the positions), open_pnl (None, or that of the symbol's         *)
(* position) and rates (None, or maker and taker in 1/10000).                *)
(***************************************************************************)
EXTENDS MarketAnalysis

CONSTANTS
    Environment,        \* "PAPER", "TESTNET" or "LIVE"
    Leverage,           \* leverage: paper, testnet, live_initial, live_absolute, live_phase
    InitialBalance,     \* challenge.initial_balance_usdt
    MaxMargin,          \* risk.max_margin_per_trade_usdt
    MaxDailyLoss,       \* risk.max_daily_loss_percent
    MaxTotalLoss,       \* risk.max_total_loss_percent
    MinNetRR,           \* risk.min_net_risk_reward, in hundredths
    MaxOpen,            \* trading.max_open_positions
    MaxAdverseFunding,  \* funding_gate.max_adverse_funding_rate, in 1/10000
    MarketImpact,       \* slippage.market_impact_bps
    MinEntryDistance,   \* liquidation_safety: entry to liquidation, percent
    MinStopBuffer       \* liquidation_safety: stop to liquidation, percent

leverage_limits ==
    /\ Leverage.paper <= 10 /\ Leverage.testnet <= 5
    /\ Leverage.live_absolute <= 5 /\ Leverage.live_initial <= 3

RiskConfig == MaxMargin <= 10 /\ MinNetRR >= 150

TradingConfig == MaxOpen \in 1..3

FundingGateConfig == MaxAdverseFunding \in 1..9999

SlippageConfig == MarketImpact \in 0..100

(* What the config is validated for, and that its numbers are no nonsense,   *)
(* which is not: a limit may be zero or negative there.                      *)
ASSUME RiskLimits ==
    /\ Environment \in {"PAPER", "TESTNET", "LIVE"}
    /\ Leverage \in [paper : Nat \ {0}, testnet : Nat \ {0}, live_initial : Nat \ {0},
                     live_absolute : Nat \ {0}, live_phase : {"INITIAL", "ABSOLUTE"}]
    /\ InitialBalance \in Nat \ {0} /\ MaxMargin \in Nat \ {0} /\ MinNetRR \in Nat
    /\ MaxDailyLoss \in Nat \ {0} /\ MaxTotalLoss \in Nat \ {0}
    /\ MinEntryDistance \in Nat /\ MinStopBuffer \in Nat

ASSUME ConfigLoads ==
    leverage_limits /\ RiskConfig /\ TradingConfig /\ FundingGateConfig /\ SlippageConfig

cap_for_env ==
    CASE Environment = "PAPER" -> Leverage.paper
      [] Environment = "TESTNET" -> Leverage.testnet
      [] Environment = "LIVE" -> IF Leverage.live_phase = "ABSOLUTE"
                                 THEN Leverage.live_absolute ELSE Leverage.live_initial

Directions == {"LONG", "SHORT"}
EntryTypes == {"MARKET", "LIMIT", "NO_ENTRY"}

DecisionFields ==
    [decision : Directions \cup {"NO_OPERAR"}, execute : BOOLEAN, entry_type : EntryTypes,
     entry : Nat, sl : Nat, tp : Nat, margin : Nat, leverage : Nat, liquidation : Nat,
     plan : BOOLEAN]

ClosedTrade == [own : BOOLEAN, today : BOOLEAN, pnl : Int, margin : Int, leverage : Int]

AccountFields ==
    [trades : Seq(ClosedTrade), funding : Int \cup {None}, count : Nat \cup {None},
     open_pnl : Int \cup {None}, rates : [maker : Int, taker : Int] \cup {None}]

Estimates == [slippage : Int, fill : Int]

(* What is missing is told from what is there.                               *)
ASSUME NoneIsNoRecord == None \notin ClosedTrade /\ None \notin Estimates
-----------------------------------------------------------------------------
(***************************************************************************)
(* Validators of ModelDecision.  The leverage cap they apply is that of the  *)
(* environment GPT writes: the Risk Engine's is the configured one.  The     *)
(* net_risk_reward GPT declares has a minimum too, and no other use.         *)
(***************************************************************************)
no_operar_cannot_execute(d) == ~(d.decision = "NO_OPERAR" /\ d.execute)

execute_requires_sl_tp(d) == d.execute => d.sl > 0 /\ d.tp > 0

execute_requires_positive_margin(d) == d.execute => d.margin > 0

sl_tp_coherence(d) ==
    d.execute => IF d.decision = "LONG" THEN d.sl < d.entry /\ d.entry < d.tp
                 ELSE d.tp < d.entry /\ d.entry < d.sl

ValidDecision(d) ==
    /\ d.leverage \in 1..10 /\ d.margin \in 0..10
    /\ no_operar_cannot_execute(d)
    /\ execute_requires_sl_tp(d)
    /\ execute_requires_positive_margin(d)
    /\ sl_tp_coherence(d)
-----------------------------------------------------------------------------
(***************************************************************************)
(* Fees: the entry pays taker or maker by its type, the exit pays taker.     *)
(* Everything per unit of the contract, times 10000.                         *)
(***************************************************************************)
is_estimable(d) == d.execute /\ d.entry_type # "NO_ENTRY"

entry_rate(d, rates) == IF d.entry_type = "MARKET" THEN rates.taker ELSE rates.maker

reward_per_unit(d) == IF d.decision = "LONG" THEN d.tp - d.entry ELSE d.entry - d.tp
risk_per_unit(d) == IF d.decision = "LONG" THEN d.entry - d.sl ELSE d.sl - d.entry

net_reward_per_unit(d, rates) ==
    10000 * reward_per_unit(d) - d.entry * entry_rate(d, rates) - d.tp * rates.taker
net_risk_per_unit(d, rates) ==
    10000 * risk_per_unit(d) + d.entry * entry_rate(d, rates) + d.sl * rates.taker

(* net_risk_reward >= the minimum.  The quotient is rounded down to four     *)
(* decimals first, which the limit does not exceed: the outcome is the same. *)
NetRRReaches(d, rates) ==
    100 * net_reward_per_unit(d, rates) >= MinNetRR * net_risk_per_unit(d, rates)

(* A rebate, or a fee of the whole notional, is no rate: FeeRates raises.    *)
FeeRates(rates) == rates.maker \in 0..9999 /\ rates.taker \in 0..9999
-----------------------------------------------------------------------------
(***************************************************************************)
(* Slippage.  Prices times 20000, amounts in USDT times 20000 and the entry. *)
(* spread is ask - bid.                                                      *)
(***************************************************************************)
half_spread(spread) == 10000 * spread

estimate_slippage(d, notional, spread) ==
    LET move == half_spread(spread) + 2 * d.entry * MarketImpact IN
    IF d.entry_type # "MARKET" THEN [slippage |-> 0, fill |-> 20000 * d.entry]
    ELSE [slippage |-> move * notional,
          fill |-> 20000 * d.entry + (IF d.decision = "LONG" THEN move ELSE -move)]

(* None for what is no order.                                                *)
estimate_for_decision(d, margin, leverage, spread) ==
    IF is_estimable(d) THEN estimate_slippage(d, margin * leverage, spread) ELSE None

(* The fill PaperAdapter simulates for a MARKET order: SlippageModel.apply,  *)
(* then _cross_spread.                                                       *)
apply(o) == 2 * o.entry * (IF o.side = "BUY" THEN 10000 + MarketImpact ELSE 10000 - MarketImpact)
_cross_spread(price, o) ==
    IF o.side = "BUY" THEN price + half_spread(o.spread) ELSE price - half_spread(o.spread)
_fill_market_order(o) ==
    LET fill == _cross_spread(apply(o), o)
    IN  [slippage |-> Magnitude(fill - 20000 * o.entry) * o.notional, fill |-> fill]
-----------------------------------------------------------------------------
(***************************************************************************)
(* Closed trades.                                                            *)
(***************************************************************************)
loss_of(trade) == IF trade.pnl < 0 THEN -trade.pnl ELSE 0

(* The losses of the trades S of the sequence, added up.                     *)
Losses(trades, S) ==
    LET sum[i \in 0..Len(trades)] ==
            IF i = 0 THEN 0
            ELSE sum[i - 1] + (IF i \in S THEN loss_of(trades[i]) ELSE 0)
    IN  sum[Len(trades)]

get_loss_totals(trades) ==
    [daily |-> Losses(trades, {i \in DOMAIN trades : trades[i].today}),
     total |-> Losses(trades, DOMAIN trades)]

LatestOf(trades, S) ==
    IF S = {} THEN None ELSE trades[CHOOSE i \in S : \A j \in S : j <= i]
get_last_closed_trade(trades) == LatestOf(trades, {i \in DOMAIN trades : trades[i].own})
get_last_closed_trade_any_symbol(trades) == LatestOf(trades, DOMAIN trades)
-----------------------------------------------------------------------------
(***************************************************************************)
(* Checks of the BLOCK phase: PASS, BLOCK, ADJUST_DOWN, or RAISES when the    *)
(* check ends in an exception.                                               *)
(***************************************************************************)
BlockIf(condition) == IF condition THEN "BLOCK" ELSE "PASS"

check_sl_required(d) == BlockIf(d.sl <= 0)
check_tp_or_exit_plan(d) == BlockIf(d.tp <= 0 /\ ~d.plan)
check_daily_drawdown(a) ==
    BlockIf(100 * get_loss_totals(a.trades).daily >= MaxDailyLoss * InitialBalance)
check_total_drawdown(a) ==
    BlockIf(100 * get_loss_totals(a.trades).total >= MaxTotalLoss * InitialBalance)

(* 100 times the price; the distance is what GPT declares, and nothing       *)
(* derives it from the leverage.                                             *)
_estimate_liquidation_price(d) ==
    IF d.decision = "LONG" THEN d.entry * (100 - d.liquidation)
    ELSE d.entry * (100 + d.liquidation)

\* Fault: a stop on the liquidation price counts as reached in time.
stop_may_touch(d, liq) == IF d.decision = "LONG" THEN 100 * d.sl < liq ELSE 100 * d.sl > liq

_sl_is_past_liquidation(d, liq) ==
    IF d.decision = "LONG" THEN 100 * d.sl <= liq ELSE 100 * d.sl >= liq

(* _sl_buffer_percent divides by the liquidation price: at 100 % a LONG's is  *)
(* 0 and the division raises, beyond it both are negative and so is the       *)
(* buffer.  Compared crosswise with n percent.                               *)
BufferBelow(d, liq, n) ==
    LET distance == IF d.decision = "LONG" THEN 100 * d.sl - liq ELSE liq - 100 * d.sl
    IN  IF liq > 0 THEN 100 * distance < n * liq ELSE 100 * distance > n * liq

check_liquidation_safety(d) ==
    LET liq == _estimate_liquidation_price(d)
    IN  IF d.liquidation = 0 \/ _sl_is_past_liquidation(d, liq) THEN "BLOCK"
        ELSE IF d.liquidation < MinEntryDistance THEN "ADJUST_DOWN"
        ELSE IF liq = 0 THEN "RAISES"
        ELSE IF BufferBelow(d, liq, 0) THEN "BLOCK"
        ELSE IF BufferBelow(d, liq, MinStopBuffer) THEN "ADJUST_DOWN" ELSE "PASS"

(* A LONG pays a positive rate, a SHORT a negative one.                      *)
check_funding_gate(d, a) ==
    BlockIf(\/ a.funding = None
            \/ (IF d.decision = "LONG" THEN a.funding ELSE -a.funding) >= MaxAdverseFunding)

check_fee_gate(d, a) ==
    BlockIf(\/ ~is_estimable(d) \/ a.rates = None
            \/ ~NetRRReaches(d, a.rates))

check_max_open_positions(a) == BlockIf(IF a.count = None THEN TRUE ELSE a.count >= MaxOpen)

check_anti_martingala(d, a) ==
    LET last == get_last_closed_trade(a.trades)
    IN  BlockIf(IF last = None THEN FALSE ELSE last.pnl < 0 /\ d.margin > last.margin)

check_anti_leverage_escalation(d, a) ==
    LET last == get_last_closed_trade_any_symbol(a.trades)
    IN  BlockIf(IF last = None THEN FALSE ELSE last.pnl < 0 /\ d.leverage > last.leverage)

check_anti_averaging(a) == BlockIf(IF a.open_pnl = None THEN FALSE ELSE a.open_pnl < 0)

(* Registers the estimate; never blocks.                                     *)
check_slippage_estimate(d) == "PASS"

block_checks(d, a) ==
    {check_sl_required(d), check_tp_or_exit_plan(d), check_daily_drawdown(a),
     check_total_drawdown(a), check_liquidation_safety(d), check_funding_gate(d, a),
     check_fee_gate(d, a), check_max_open_positions(a), check_anti_martingala(d, a),
     check_anti_leverage_escalation(d, a), check_anti_averaging(a), check_slippage_estimate(d)}
-----------------------------------------------------------------------------
(***************************************************************************)
(* The ADJUST_DOWN phase and validate.  Only the two caps adjust: an         *)
(* ADJUST_DOWN of check_liquidation_safety is not looked at.                 *)
(***************************************************************************)
check_margin_cap(d) == d.margin > MaxMargin

\* Fault: the cap itself is adjusted.
leverage_reaches_cap(d) == d.leverage >= cap_for_env

check_leverage_cap(d) == d.leverage > cap_for_env

compute_adjusted_margin(d) == IF d.margin < MaxMargin THEN d.margin ELSE MaxMargin

compute_adjusted_leverage(d) == IF d.leverage < cap_for_env THEN d.leverage ELSE cap_for_env

Verdicts == {"NO_OPERAR", "BLOCK", "ADJUST_DOWN", "APPROVE", "RAISES"}
Rejected(verdict) == [decision |-> verdict, margin |-> 0, leverage |-> 0]

validate(d, a) ==
    LET outcomes == block_checks(d, a)
    IN  CASE ~d.execute -> Rejected("NO_OPERAR")
          [] d.execute /\ "RAISES" \in outcomes -> Rejected("RAISES")
          [] d.execute /\ "RAISES" \notin outcomes /\ "BLOCK" \in outcomes -> Rejected("BLOCK")
          [] OTHER -> [decision |-> IF check_margin_cap(d) \/ check_leverage_cap(d)
                                    THEN "ADJUST_DOWN" ELSE "APPROVE",
                       margin |-> compute_adjusted_margin(d),
                       leverage |-> compute_adjusted_leverage(d)]
=============================================================================
