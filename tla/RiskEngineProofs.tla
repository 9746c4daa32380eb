-------------------------- MODULE RiskEngineProofs --------------------------
(***************************************************************************)
(* Proofs about the operators of RiskEngine, for every decision that passed  *)
(* the schema and every account: what validate approves keeps the limits     *)
(* stated below, its parameters are approved again as they are, and the      *)
(* slippage estimated for a MARKET order is the one of its fill.             *)
(*                                                                           *)
(* The sum of the losses is a recursive function of the position in the      *)
(* sequence.  That it is a number is shown by the smallest counterexample,   *)
(* which the well-foundedness of < on Nat provides.                          *)
(***************************************************************************)
EXTENDS RiskEngine, WellFoundedInduction, TLAPS

(* A set of numbers that is not empty has a smallest one.                    *)
LEMMA SmallestNumber ==
    ASSUME NEW T \in SUBSET Nat, T # {}
    PROVE  \E m \in T : \A n \in T : m <= n
<1> DEFINE R == OpToRel(<, Nat)
<1>1. IsWellFoundedOn(R, Nat)
  BY NatLessThanWellFounded
<1>2. \A x, y \in Nat : y < x => <<y, x>> \in R
  BY DEF OpToRel
<1> HIDE DEF R
<1>3. PICK m \in T : \A n \in T : ~(<<n, m>> \in R)
  BY <1>1, WFMin
<1>4. \A n \in T : m <= n
  <2>1. SUFFICES ASSUME NEW n \in T PROVE m <= n
    OBVIOUS
  <2>2. m \in Nat /\ n \in Nat /\ ~(n < m)
    BY <1>2, <1>3
  <2>3. QED
    BY <2>2
<1>5. QED
  BY <1>4

(* A total over 0..n that the recursion of f defines exists ...              *)
LEMMA TotalExists ==
    ASSUME NEW n \in Nat, NEW g \in [1..n -> Int]
    PROVE  \E f \in [0..n -> Int] :
               f = [i \in 0..n |-> IF i = 0 THEN 0 ELSE f[i - 1] + g[i]]
<1> DEFINE Sums(m, f) == f = [i \in 0..m |-> IF i = 0 THEN 0 ELSE f[i - 1] + g[i]]
           T == {m \in Nat : m <= n /\ ~ \E f \in [0..m -> Int] : Sums(m, f)}
<1>1. SUFFICES ASSUME T # {} PROVE FALSE
  <2>1. n \notin T
    BY <1>1
  <2>2. QED
    BY <2>1
<1>2. PICK m \in T : \A k \in T : m <= k
  <2>1. T \in SUBSET Nat
    OBVIOUS
  <2> HIDE DEF T
  <2>2. QED
    BY <1>1, <2>1, SmallestNumber
<1>3. m \in Nat /\ m <= n
  OBVIOUS
<1>4. m # 0
  <2>1. SUFFICES ASSUME m = 0 PROVE FALSE
    OBVIOUS
  <2> DEFINE f == [i \in 0..m |-> 0]
  <2>2. f \in [0..m -> Int]
    OBVIOUS
  <2>3. Sums(m, f)
    BY <2>1
  <2>4. QED
    BY <2>2, <2>3
<1>5. m - 1 \in Nat /\ m - 1 <= n /\ m - 1 \notin T
  <2> HIDE DEF T
  <2>1. m - 1 \in Nat /\ m - 1 <= n /\ ~(m <= m - 1)
    BY <1>3, <1>4
  <2>2. QED
    BY <1>2, <2>1
<1>6. PICK f \in [0..(m - 1) -> Int] : Sums(m - 1, f)
  BY <1>5
<1> DEFINE h == [i \in 0..m |-> IF i = m THEN f[m - 1] + g[m] ELSE f[i]]
<1>7. h \in [0..m -> Int]
  <2>1. f[m - 1] \in Int /\ g[m] \in Int
    BY <1>3, <1>4, <1>5, <1>6
  <2>2. \A i \in 0..m : i # m => f[i] \in Int
    BY <1>3, <1>4, <1>6
  <2>3. QED
    BY <2>1, <2>2
<1>8. Sums(m, h)
  <2>1. \A i \in 0..m : h[i] = IF i = 0 THEN 0 ELSE h[i - 1] + g[i]
    <3>1. SUFFICES ASSUME NEW i \in 0..m
                   PROVE  h[i] = IF i = 0 THEN 0 ELSE h[i - 1] + g[i]
      OBVIOUS
    <3>2. CASE i = m
      BY <3>2, <1>3, <1>4
    <3>3. CASE i # m
      <4>1. i \in 0..(m - 1) /\ h[i] = f[i] /\ (i # 0 => h[i - 1] = f[i - 1])
        BY <3>3, <1>3, <1>4
      <4>2. f[i] = IF i = 0 THEN 0 ELSE f[i - 1] + g[i]
        BY <4>1, <1>6
      <4>3. QED
        BY <4>1, <4>2
    <3>4. QED
      BY <3>2, <3>3
  <2> HIDE DEF h
  <2>2. h = [i \in 0..m |-> h[i]]
    BY <1>7
  <2>3. QED
    BY <2>1, <2>2
<1>9. m \notin T
  <2> HIDE DEF h, Sums
  <2>1. \E hh \in [0..m -> Int] : Sums(m, hh)
    BY <1>7, <1>8
  <2>2. QED
    BY <2>1
<1>10. QED
  BY <1>2, <1>9

(* ... and every function the recursion defines adds numbers up: a loss per  *)
(* trade that is no gain makes a total that is none.                         *)
LEMMA TotalIsNumber ==
    ASSUME NEW n \in Nat, NEW g \in [1..n -> Nat], NEW f,
           f = [i \in 0..n |-> IF i = 0 THEN 0 ELSE f[i - 1] + g[i]]
    PROVE  f[n] \in Nat
<1> DEFINE T == {m \in 0..n : f[m] \notin Nat}
<1>1. SUFFICES ASSUME T # {} PROVE FALSE
  <2>1. n \notin T
    BY <1>1
  <2>2. n \in 0..n
    OBVIOUS
  <2>3. QED
    BY <2>1, <2>2
<1>2. PICK m \in T : \A k \in T : m <= k
  <2>1. T \in SUBSET Nat
    OBVIOUS
  <2> HIDE DEF T
  <2>2. QED
    BY <1>1, <2>1, SmallestNumber
<1>3. m \in 0..n /\ f[m] \notin Nat
  OBVIOUS
<1>4. f[m] = IF m = 0 THEN 0 ELSE f[m - 1] + g[m]
  BY <1>3
<1>5. m # 0 /\ m - 1 \in 0..n /\ m \in 1..n
  BY <1>3, <1>4
<1>6. m - 1 \notin T
  <2> HIDE DEF T
  <2>1. ~(m <= m - 1)
    BY <1>5
  <2>2. QED
    BY <1>2, <2>1
<1>7. f[m - 1] \in Nat /\ g[m] \in Nat
  BY <1>5, <1>6
<1>8. QED
  BY <1>3, <1>4, <1>5, <1>7

(* What a set of trades has lost is a number.                                *)
LEMMA LossesType ==
    ASSUME NEW R, NEW trades \in Seq(R), NEW S, \A i \in DOMAIN trades : trades[i].pnl \in Int
    PROVE  Losses(trades, S) \in Nat
<1> DEFINE n == Len(trades)
           g == [i \in 1..n |-> IF i \in S THEN loss_of(trades[i]) ELSE 0]
           Sum(f) == f = [i \in 0..n |-> IF i = 0 THEN 0 ELSE f[i - 1] + g[i]]
           Step(f) == f = [i \in 0..n |-> IF i = 0 THEN 0
                              ELSE f[i - 1] + (IF i \in S THEN loss_of(trades[i]) ELSE 0)]
           sum == CHOOSE f : Step(f)
<1>1. n \in Nat /\ DOMAIN trades = 1..n
  OBVIOUS
<1>2. g \in [1..n -> Nat]
  BY <1>1 DEF loss_of
<1>3. \A f : Step(f) <=> Sum(f)
  OBVIOUS
<1>4. \E f : Step(f)
  <2> HIDE DEF n, g, Step
  <2>1. g \in [1..n -> Int]
    BY <1>2
  <2>2. \E f \in [0..n -> Int] : Sum(f)
    BY <1>1, <2>1, TotalExists
  <2>3. QED
    BY <1>3, <2>2
<1>5. Sum(sum)
  <2> HIDE DEF Step, Sum
  <2>1. QED
    BY <1>3, <1>4
<1>6. sum[n] \in Nat
  <2> HIDE DEF n, g, sum
  <2>1. QED
    BY <1>1, <1>2, <1>5, TotalIsNumber
<1>7. Losses(trades, S) = sum[n]
  BY DEF Losses
<1>8. QED
  BY <1>6, <1>7
-----------------------------------------------------------------------------
(* Every environment has a positive leverage cap.                            *)
LEMMA CapType == cap_for_env \in Nat \ {0}
  BY RiskLimits DEF cap_for_env

(* What cycle_runner.py sends to the ExecutionEngine.                        *)
Approved(v) == v.decision \in {"APPROVE", "ADJUST_DOWN"}

(* The outcomes a check may have.                                            *)
Passes(check) == check \notin {"BLOCK", "RAISES"}

AllPass(d, a) ==
    /\ Passes(check_sl_required(d)) /\ Passes(check_tp_or_exit_plan(d))
    /\ Passes(check_daily_drawdown(a)) /\ Passes(check_total_drawdown(a))
    /\ Passes(check_liquidation_safety(d)) /\ Passes(check_funding_gate(d, a))
    /\ Passes(check_fee_gate(d, a)) /\ Passes(check_max_open_positions(a))
    /\ Passes(check_anti_martingala(d, a)) /\ Passes(check_anti_leverage_escalation(d, a))
    /\ Passes(check_anti_averaging(a))

(* What validate makes of the checks.                                        *)
LEMMA ChecksPass ==
    ASSUME NEW d, NEW a
    PROVE  ("RAISES" \notin block_checks(d, a) /\ "BLOCK" \notin block_checks(d, a))
               <=> AllPass(d, a)
  BY DEF block_checks, AllPass, Passes, check_slippage_estimate

(* An approved decision was for execution, passed every check of the BLOCK   *)
(* phase, and its parameters are the capped ones.                            *)
LEMMA ApprovedMeans ==
    ASSUME NEW d, d.execute \in BOOLEAN, NEW a, Approved(validate(d, a))
    PROVE  /\ d.execute /\ AllPass(d, a)
           /\ validate(d, a).margin = compute_adjusted_margin(d)
           /\ validate(d, a).leverage = compute_adjusted_leverage(d)
           /\ DOMAIN validate(d, a) = {"decision", "margin", "leverage"}
<1> DEFINE taken == [decision |-> IF check_margin_cap(d) \/ check_leverage_cap(d)
                                  THEN "ADJUST_DOWN" ELSE "APPROVE",
                     margin |-> compute_adjusted_margin(d),
                     leverage |-> compute_adjusted_leverage(d)]
<1>1. d.execute /\ "RAISES" \notin block_checks(d, a) /\ "BLOCK" \notin block_checks(d, a)
  BY DEF validate, Rejected, Approved
<1>2. AllPass(d, a)
  BY <1>1, ChecksPass
<1>3. validate(d, a) = taken
  BY <1>1 DEF validate
<1>4. QED
  BY <1>1, <1>2, <1>3

(* ... and whatever is for execution and passes them is approved.            *)
LEMMA PassedIsApproved ==
    ASSUME NEW d, d.execute = TRUE, NEW a, AllPass(d, a)
    PROVE  validate(d, a) =
               [decision |-> IF check_margin_cap(d) \/ check_leverage_cap(d)
                             THEN "ADJUST_DOWN" ELSE "APPROVE",
                margin |-> compute_adjusted_margin(d),
                leverage |-> compute_adjusted_leverage(d)]
<1>1. "RAISES" \notin block_checks(d, a) /\ "BLOCK" \notin block_checks(d, a)
  BY ChecksPass
<1>2. QED
  BY <1>1 DEF validate
-----------------------------------------------------------------------------
(* The capped parameters are positive, within the caps, and no larger than   *)
(* the proposed ones.                                                        *)
LEMMA AdjustedTypes ==
    ASSUME NEW d \in DecisionFields, ValidDecision(d), d.execute
    PROVE  /\ compute_adjusted_margin(d) \in Nat \ {0}
           /\ compute_adjusted_margin(d) <= MaxMargin /\ compute_adjusted_margin(d) <= d.margin
           /\ compute_adjusted_leverage(d) \in Nat \ {0}
           /\ compute_adjusted_leverage(d) <= cap_for_env
           /\ compute_adjusted_leverage(d) <= d.leverage
<1>1. d.margin \in Nat \ {0} /\ d.leverage \in Nat \ {0}
  BY DEF DecisionFields, ValidDecision, execute_requires_positive_margin
<1>2. MaxMargin \in Nat \ {0} /\ cap_for_env \in Nat \ {0}
  BY CapType, RiskLimits
<1>3. QED
  BY <1>1, <1>2 DEF compute_adjusted_margin, compute_adjusted_leverage

(* 1 for a LONG, -1 for a SHORT.                                             *)
SideOf(d) == IF d.decision = "LONG" THEN 1 ELSE -1

(* A stop that passes check_liquidation_safety comes before the declared     *)
(* liquidation.                                                              *)
LEMMA StopBeforeLiquidation ==
    ASSUME NEW d \in DecisionFields, Passes(check_liquidation_safety(d))
    PROVE  SideOf(d) * d.entry * (100 - SideOf(d) * d.liquidation) < SideOf(d) * 100 * d.sl
<1> DEFINE liq == _estimate_liquidation_price(d)
<1>1. d.entry \in Nat /\ d.liquidation \in Nat /\ d.sl \in Nat
  BY DEF DecisionFields
<1>2. ~_sl_is_past_liquidation(d, liq)
  BY DEF check_liquidation_safety, Passes
<1>3. CASE d.decision = "LONG"
  <2>1. ~(100 * d.sl <= d.entry * (100 - d.liquidation))
    BY <1>2, <1>3 DEF _sl_is_past_liquidation, _estimate_liquidation_price
  <2>2. SideOf(d) = 1
    BY <1>3 DEF SideOf
  <2>3. QED
    BY <1>1, <2>1, <2>2
<1>4. CASE d.decision # "LONG"
  <2>1. ~(100 * d.sl >= d.entry * (100 + d.liquidation))
    BY <1>2, <1>4 DEF _sl_is_past_liquidation, _estimate_liquidation_price
  <2>2. SideOf(d) = -1
    BY <1>4 DEF SideOf
  <2>3. QED
    BY <1>1, <2>1, <2>2
<1>5. QED
  BY <1>3, <1>4

(* The prices of a decision for execution lie in order.                      *)
LEMMA PricesInOrder ==
    ASSUME NEW d \in DecisionFields, ValidDecision(d), d.execute
    PROVE  /\ SideOf(d) * d.sl < SideOf(d) * d.entry
           /\ SideOf(d) * d.entry < SideOf(d) * d.tp
<1>1. d.entry \in Nat /\ d.tp \in Nat /\ d.sl \in Nat
  BY DEF DecisionFields
<1>2. IF d.decision = "LONG" THEN d.sl < d.entry /\ d.entry < d.tp
      ELSE d.tp < d.entry /\ d.entry < d.sl
  BY DEF ValidDecision, sl_tp_coherence
<1>3. QED
  BY <1>1, <1>2 DEF SideOf

(* What is true of one unit of the contract is true of the whole notional.   *)
LEMMA PerUnit ==
    ASSUME NEW n \in Nat, NEW x \in Int, NEW y \in Int, NEW m \in Nat, 100 * x >= m * y
    PROVE  100 * (n * x) >= m * (n * y)
<1>1. m * y \in Int /\ 100 * x - m * y \in Nat
  OBVIOUS
<1>2. n * (100 * x - m * y) \in Nat
  BY <1>1
<1>3. n * (100 * x - m * y) = 100 * (n * x) - m * (n * y)
  OBVIOUS
<1>4. n * x \in Int /\ m * (n * y) \in Int
  OBVIOUS
<1>5. QED
  BY <1>2, <1>3, <1>4

(* The money a notional wins at the target is worth what it loses at the     *)
(* stop, fees paid, if check_fee_gate lets the decision pass.                *)
LEMMA RewardWorthRisk ==
    ASSUME NEW d \in DecisionFields, NEW a, Passes(check_fee_gate(d, a)),
           a.rates \in [maker : Int, taker : Int] \cup {None}, NEW notional \in Nat
    PROVE  LET paid(exit) == notional * (d.entry * entry_rate(d, a.rates) + exit * a.rates.taker)
               won == notional * 10000 * SideOf(d) * (d.tp - d.entry) - paid(d.tp)
               lost == notional * 10000 * SideOf(d) * (d.entry - d.sl) + paid(d.sl)
           IN  100 * won >= MinNetRR * lost
<1>1. d.entry \in Nat /\ d.tp \in Nat /\ d.sl \in Nat
  BY DEF DecisionFields
<1>2. a.rates # None /\ NetRRReaches(d, a.rates)
  BY DEF check_fee_gate, BlockIf, Passes
<1>3. a.rates.taker \in Int /\ entry_rate(d, a.rates) \in Int
  BY <1>2 DEF entry_rate
<1> DEFINE rate == entry_rate(d, a.rates)
           taker == a.rates.taker
           side == SideOf(d)
           won == 10000 * (side * (d.tp - d.entry)) - d.entry * rate - d.tp * taker
           lost == 10000 * (side * (d.entry - d.sl)) + d.entry * rate + d.sl * taker
<1>4. side \in Int
  BY DEF SideOf
<1>5. net_reward_per_unit(d, a.rates) = won /\ net_risk_per_unit(d, a.rates) = lost
  <2>1. reward_per_unit(d) = side * (d.tp - d.entry)
    BY <1>1 DEF reward_per_unit, SideOf
  <2>2. risk_per_unit(d) = side * (d.entry - d.sl)
    BY <1>1 DEF risk_per_unit, SideOf
  <2>3. QED
    BY <2>1, <2>2 DEF net_reward_per_unit, net_risk_per_unit
<1>6. won \in Int /\ lost \in Int
  BY <1>1, <1>3, <1>4
<1>7. 100 * won >= MinNetRR * lost
  BY <1>2, <1>5 DEF NetRRReaches
<1>8. 100 * (notional * won) >= MinNetRR * (notional * lost)
  <2> HIDE DEF won, lost
  <2>1. MinNetRR \in Nat
    BY RiskLimits
  <2>2. QED
    BY <1>6, <1>7, <2>1, PerUnit
<1> HIDE DEF rate, taker, side
<1>9. notional * won = notional * 10000 * side * (d.tp - d.entry)
                           - notional * (d.entry * rate + d.tp * taker)
  BY <1>1, <1>3, <1>4 DEF rate, taker
<1>10. notional * lost = notional * 10000 * side * (d.entry - d.sl)
                           + notional * (d.entry * rate + d.sl * taker)
  BY <1>1, <1>3, <1>4 DEF rate, taker
<1>11. QED
  BY <1>8, <1>9, <1>10 DEF rate, taker, side

(* No cap on the account is reached: losses, positions, funding, and the     *)
(* result of the position the symbol has.                                    *)
LEMMA LimitsKept ==
    ASSUME NEW d, NEW a \in AccountFields, AllPass(d, a)
    PROVE  /\ a.count + 1 <= MaxOpen
           /\ 100 * get_loss_totals(a.trades).daily < MaxDailyLoss * InitialBalance
           /\ 100 * get_loss_totals(a.trades).total < MaxTotalLoss * InitialBalance
           /\ SideOf(d) * a.funding < MaxAdverseFunding
           /\ a.open_pnl # None => a.open_pnl >= 0
<1>1. a.count + 1 <= MaxOpen
  <2>1. a.count \in Nat \cup {None} /\ MaxOpen \in Nat
    BY ConfigLoads DEF AccountFields, TradingConfig
  <2>2. a.count # None /\ ~(a.count >= MaxOpen)
    BY DEF AllPass, Passes, check_max_open_positions, BlockIf
  <2>3. QED
    BY <2>1, <2>2
<1>2. \A S : Losses(a.trades, S) \in Nat
  <2>1. a.trades \in Seq(ClosedTrade)
    BY DEF AccountFields
  <2>2. \A i \in DOMAIN a.trades : a.trades[i].pnl \in Int
    <3>1. \A i \in DOMAIN a.trades : a.trades[i] \in ClosedTrade
      BY <2>1
    <3>2. \A t \in ClosedTrade : t.pnl \in Int
      BY DEF ClosedTrade
    <3>3. QED
      BY <3>1, <3>2
  <2>3. QED
    BY <2>1, <2>2, LossesType
<1>3. 100 * get_loss_totals(a.trades).daily < MaxDailyLoss * InitialBalance
  <2>1. get_loss_totals(a.trades).daily \in Nat
    BY <1>2 DEF get_loss_totals
  <2>2. ~(100 * get_loss_totals(a.trades).daily >= MaxDailyLoss * InitialBalance)
    BY DEF AllPass, Passes, check_daily_drawdown, BlockIf
  <2>3. MaxDailyLoss * InitialBalance \in Int
    BY RiskLimits
  <2>4. QED
    BY <2>1, <2>2, <2>3
<1>4. 100 * get_loss_totals(a.trades).total < MaxTotalLoss * InitialBalance
  <2>1. get_loss_totals(a.trades).total \in Nat
    BY <1>2 DEF get_loss_totals
  <2>2. ~(100 * get_loss_totals(a.trades).total >= MaxTotalLoss * InitialBalance)
    BY DEF AllPass, Passes, check_total_drawdown, BlockIf
  <2>3. MaxTotalLoss * InitialBalance \in Int
    BY RiskLimits
  <2>4. QED
    BY <2>1, <2>2, <2>3
<1>5. SideOf(d) * a.funding < MaxAdverseFunding
  <2>1. a.funding \in Int \cup {None} /\ MaxAdverseFunding \in Int
    BY ConfigLoads DEF AccountFields, FundingGateConfig
  <2>2. /\ a.funding # None
        /\ ~((IF d.decision = "LONG" THEN a.funding ELSE -a.funding) >= MaxAdverseFunding)
    BY DEF AllPass, Passes, check_funding_gate, BlockIf
  <2>3. QED
    BY <2>1, <2>2 DEF SideOf
<1>6. a.open_pnl # None => a.open_pnl >= 0
  <2>1. a.open_pnl \in Int \cup {None}
    BY DEF AccountFields
  <2>2. a.open_pnl # None => ~(a.open_pnl < 0)
    BY DEF AllPass, Passes, check_anti_averaging, BlockIf
  <2>3. QED
    BY <2>1, <2>2
<1>7. QED
  BY <1>1, <1>3, <1>4, <1>5, <1>6

(* The latest trade of a set of them is found, when there is one.            *)
LEMMA LatestFound ==
    ASSUME NEW trades \in Seq(ClosedTrade), NEW S \in SUBSET DOMAIN trades, NEW i \in S,
           \A j \in S : j <= i
    PROVE  LatestOf(trades, S) = trades[i] /\ LatestOf(trades, S) # None
<1> DEFINE latest == CHOOSE k \in S : \A j \in S : j <= k
<1>1. latest \in S /\ \A j \in S : j <= latest
  OBVIOUS
<1>2. \A k \in S : k \in Nat
  OBVIOUS
<1> HIDE DEF latest
<1>3. latest = i
  BY <1>1, <1>2
<1>4. LatestOf(trades, S) = trades[i]
  BY <1>3 DEF LatestOf, latest
<1>5. trades[i] \in ClosedTrade
  OBVIOUS
<1>6. QED
  BY <1>4, <1>5, NoneIsNoRecord

(* What is found is a trade.                                                 *)
LEMMA LatestTyped ==
    ASSUME NEW trades \in Seq(ClosedTrade), NEW S \in SUBSET DOMAIN trades,
           LatestOf(trades, S) # None
    PROVE  LatestOf(trades, S) \in ClosedTrade
<1> DEFINE n == Len(trades)
           T == {k \in 0..n : n - k \in S}
<1>1. n \in Nat /\ DOMAIN trades = 1..n
  OBVIOUS
<1>2. S # {} /\ S \subseteq 1..n
  BY <1>1 DEF LatestOf
<1> HIDE DEF n
<1>3. T \in SUBSET Nat
  BY <1>1
<1>4. T # {}
  <2>1. PICK i \in S : TRUE
    BY <1>2
  <2>2. i \in 1..n
    BY <1>2
  <2>3. n - i \in 0..n /\ n - (n - i) = i
    BY <1>1, <2>2
  <2>4. n - i \in T
    BY <2>3
  <2>5. QED
    BY <2>4
<1>5. PICK k \in T : \A m \in T : k <= m
  <2> HIDE DEF T
  <2>1. QED
    BY <1>3, <1>4, SmallestNumber
<1>6. \A j \in S : j <= n - k
  <2>1. SUFFICES ASSUME NEW j \in S PROVE j <= n - k
    OBVIOUS
  <2>2. j \in 1..n
    BY <1>2
  <2>3. n - j \in 0..n /\ n - (n - j) = j
    BY <1>1, <2>2
  <2>4. n - j \in T
    BY <2>3
  <2>5. k <= n - j /\ k \in 0..n
    BY <1>5, <2>4
  <2>6. QED
    BY <1>1, <2>2, <2>5
<1>7. n - k \in S
  BY <1>5
<1>8. LatestOf(trades, S) = trades[n - k]
  BY <1>6, <1>7, LatestFound
<1>9. n - k \in DOMAIN trades
  BY <1>1, <1>2, <1>7
<1>10. QED
  BY <1>8, <1>9

(* After a loss neither the bet of the symbol nor the leverage of the        *)
(* account goes up.                                                          *)
LEMMA NoBiggerBet ==
    ASSUME NEW d \in DecisionFields, NEW a \in AccountFields, AllPass(d, a),
           ValidDecision(d), d.execute,
           NEW i \in DOMAIN a.trades, a.trades[i].pnl < 0
    PROVE  LET own == {k \in DOMAIN a.trades : a.trades[k].own}
               latest(S, k) == k \in S /\ \A j \in S : j <= k
           IN  /\ latest(own, i) => compute_adjusted_margin(d) <= a.trades[i].margin
               /\ latest(DOMAIN a.trades, i) =>
                      compute_adjusted_leverage(d) <= a.trades[i].leverage
<1> DEFINE own == {k \in DOMAIN a.trades : a.trades[k].own}
<1>1. a.trades \in Seq(ClosedTrade)
  BY DEF AccountFields
<1>2. a.trades[i] \in ClosedTrade
  BY <1>1
<1>3. a.trades[i].margin \in Int /\ a.trades[i].leverage \in Int
  BY <1>2 DEF ClosedTrade
<1>4. d.margin \in Int /\ d.leverage \in Int
  BY DEF DecisionFields
<1>5. /\ compute_adjusted_margin(d) \in Nat /\ compute_adjusted_margin(d) <= d.margin
      /\ compute_adjusted_leverage(d) \in Nat /\ compute_adjusted_leverage(d) <= d.leverage
  BY AdjustedTypes
<1>6. ASSUME i \in own, \A j \in own : j <= i
      PROVE  compute_adjusted_margin(d) <= a.trades[i].margin
  <2>1. get_last_closed_trade(a.trades) = a.trades[i]
        /\ get_last_closed_trade(a.trades) # None
    BY <1>1, <1>6, LatestFound DEF get_last_closed_trade
  <2>2. ~(d.margin > a.trades[i].margin)
    BY <2>1 DEF AllPass, Passes, check_anti_martingala, BlockIf
  <2>3. QED
    BY <1>3, <1>4, <1>5, <2>2
<1>7. ASSUME \A j \in DOMAIN a.trades : j <= i
      PROVE  compute_adjusted_leverage(d) <= a.trades[i].leverage
  <2>1. get_last_closed_trade_any_symbol(a.trades) = a.trades[i]
        /\ get_last_closed_trade_any_symbol(a.trades) # None
    BY <1>1, <1>7, LatestFound DEF get_last_closed_trade_any_symbol
  <2>2. ~(d.leverage > a.trades[i].leverage)
    BY <2>1 DEF AllPass, Passes, check_anti_leverage_escalation, BlockIf
  <2>3. QED
    BY <1>3, <1>4, <1>5, <2>2
<1>8. QED
  BY <1>6, <1>7
-----------------------------------------------------------------------------
(* The capped decision, as it would come to the Risk Engine itself.          *)
Capped(d) == [d EXCEPT !.margin = compute_adjusted_margin(d),
                       !.leverage = compute_adjusted_leverage(d)]

(* Nothing but the two parameters is touched.                                *)
LEMMA CappedFields ==
    ASSUME NEW d \in DecisionFields
    PROVE  /\ Capped(d).decision = d.decision /\ Capped(d).execute = d.execute
           /\ Capped(d).entry_type = d.entry_type /\ Capped(d).entry = d.entry
           /\ Capped(d).sl = d.sl /\ Capped(d).tp = d.tp
           /\ Capped(d).liquidation = d.liquidation /\ Capped(d).plan = d.plan
           /\ Capped(d).margin = compute_adjusted_margin(d)
           /\ Capped(d).leverage = compute_adjusted_leverage(d)
  BY DEF DecisionFields, Capped

(* The capped decision passes what the proposed one passes: the caps only    *)
(* take away.                                                                *)
LEMMA CappedPasses ==
    ASSUME NEW d \in DecisionFields, ValidDecision(d), d.execute,
           NEW a \in AccountFields, AllPass(d, a)
    PROVE  AllPass(Capped(d), a)
<1>1. Passes(check_sl_required(Capped(d))) /\ Passes(check_tp_or_exit_plan(Capped(d)))
  BY CappedFields DEF AllPass, check_sl_required, check_tp_or_exit_plan
<1>2. Passes(check_liquidation_safety(Capped(d)))
  <2>1. _estimate_liquidation_price(Capped(d)) = _estimate_liquidation_price(d)
    BY CappedFields DEF _estimate_liquidation_price
  <2>2. \A liq : _sl_is_past_liquidation(Capped(d), liq) = _sl_is_past_liquidation(d, liq)
    BY CappedFields DEF _sl_is_past_liquidation
  <2>3. \A liq, n : BufferBelow(Capped(d), liq, n) = BufferBelow(d, liq, n)
    BY CappedFields DEF BufferBelow
  <2>4. check_liquidation_safety(Capped(d)) = check_liquidation_safety(d)
    BY <2>1, <2>2, <2>3, CappedFields DEF check_liquidation_safety
  <2>5. QED
    BY <2>4 DEF AllPass
<1>3. Passes(check_funding_gate(Capped(d), a))
  BY CappedFields DEF AllPass, check_funding_gate
<1>4. Passes(check_fee_gate(Capped(d), a))
  <2>1. \A rates : entry_rate(Capped(d), rates) = entry_rate(d, rates)
    BY CappedFields DEF entry_rate
  <2>2. reward_per_unit(Capped(d)) = reward_per_unit(d)
        /\ risk_per_unit(Capped(d)) = risk_per_unit(d)
    BY CappedFields DEF reward_per_unit, risk_per_unit
  <2>3. \A rates : NetRRReaches(Capped(d), rates) = NetRRReaches(d, rates)
    BY <2>1, <2>2, CappedFields DEF NetRRReaches, net_reward_per_unit, net_risk_per_unit
  <2>4. is_estimable(Capped(d)) = is_estimable(d)
    BY CappedFields DEF is_estimable
  <2>5. check_fee_gate(Capped(d), a) = check_fee_gate(d, a)
    BY <2>3, <2>4 DEF check_fee_gate
  <2>6. QED
    BY <2>5 DEF AllPass
<1>trades. a.trades \in Seq(ClosedTrade)
  BY DEF AccountFields
<1>5. Passes(check_anti_martingala(Capped(d), a))
  <2> DEFINE last == get_last_closed_trade(a.trades)
  <2>1. SUFFICES ASSUME last # None, last.pnl < 0 PROVE ~(Capped(d).margin > last.margin)
    BY DEF check_anti_martingala, BlockIf, Passes
  <2>2. last.margin \in Int
    <3>1. last \in ClosedTrade
      BY <1>trades, <2>1, LatestTyped DEF get_last_closed_trade
    <3>2. QED
      BY <3>1 DEF ClosedTrade
  <2>3. ~(d.margin > last.margin)
    BY <2>1 DEF AllPass, Passes, check_anti_martingala, BlockIf
  <2>4. d.margin \in Int
    BY DEF DecisionFields
  <2>5. Capped(d).margin \in Nat /\ Capped(d).margin <= d.margin
    BY AdjustedTypes, CappedFields
  <2>6. QED
    BY <2>2, <2>3, <2>4, <2>5
<1>6. Passes(check_anti_leverage_escalation(Capped(d), a))
  <2> DEFINE last == get_last_closed_trade_any_symbol(a.trades)
  <2>1. SUFFICES ASSUME last # None, last.pnl < 0 PROVE ~(Capped(d).leverage > last.leverage)
    BY DEF check_anti_leverage_escalation, BlockIf, Passes
  <2>2. last.leverage \in Int
    <3>1. last \in ClosedTrade
      BY <1>trades, <2>1, LatestTyped DEF get_last_closed_trade_any_symbol
    <3>2. QED
      BY <3>1 DEF ClosedTrade
  <2>3. ~(d.leverage > last.leverage)
    BY <2>1 DEF AllPass, Passes, check_anti_leverage_escalation, BlockIf
  <2>4. d.leverage \in Int
    BY DEF DecisionFields
  <2>5. Capped(d).leverage \in Nat /\ Capped(d).leverage <= d.leverage
    BY AdjustedTypes, CappedFields
  <2>6. QED
    BY <2>2, <2>3, <2>4, <2>5
<1>7. QED
  BY <1>1, <1>2, <1>3, <1>4, <1>5, <1>6 DEF AllPass

(* An approved decision with the parameters of its approval is approved as   *)
(* it is: risk_engine/engine.py comes to the same twice.                     *)
THEOREM ApprovalIsStable ==
    ASSUME NEW d \in DecisionFields, ValidDecision(d), NEW a \in AccountFields,
           Approved(validate(d, a))
    PROVE  validate([d EXCEPT !.margin = validate(d, a).margin,
                              !.leverage = validate(d, a).leverage], a)
               = [validate(d, a) EXCEPT !.decision = "APPROVE"]
<1> DEFINE v == validate(d, a)
<1>1. d.execute \in BOOLEAN
  BY DEF DecisionFields
<1>2. /\ d.execute /\ AllPass(d, a)
      /\ v.margin = compute_adjusted_margin(d) /\ v.leverage = compute_adjusted_leverage(d)
  BY <1>1, ApprovedMeans
<1>3. v = [decision |-> IF check_margin_cap(d) \/ check_leverage_cap(d)
                        THEN "ADJUST_DOWN" ELSE "APPROVE",
           margin |-> compute_adjusted_margin(d), leverage |-> compute_adjusted_leverage(d)]
  BY <1>1, <1>2, PassedIsApproved
<1>4. [v EXCEPT !.decision = "APPROVE"] =
          [decision |-> "APPROVE", margin |-> compute_adjusted_margin(d),
           leverage |-> compute_adjusted_leverage(d)]
  BY <1>3
<1>5. AllPass(Capped(d), a) /\ Capped(d).execute = TRUE
  BY <1>1, <1>2, CappedPasses, CappedFields
<1>6. ~check_margin_cap(Capped(d)) /\ ~check_leverage_cap(Capped(d))
  <2>1. /\ Capped(d).margin \in Nat /\ Capped(d).margin <= MaxMargin
        /\ Capped(d).leverage \in Nat /\ Capped(d).leverage <= cap_for_env
    BY <1>2, AdjustedTypes, CappedFields
  <2>2. MaxMargin \in Int /\ cap_for_env \in Int
    BY RiskLimits, CapType
  <2>3. QED
    BY <2>1, <2>2 DEF check_margin_cap, check_leverage_cap
<1>7. /\ compute_adjusted_margin(Capped(d)) = compute_adjusted_margin(d)
      /\ compute_adjusted_leverage(Capped(d)) = compute_adjusted_leverage(d)
  <2>1. /\ Capped(d).margin \in Nat /\ Capped(d).margin <= MaxMargin
        /\ Capped(d).leverage \in Nat /\ Capped(d).leverage <= cap_for_env
    BY <1>2, AdjustedTypes, CappedFields
  <2>2. MaxMargin \in Int /\ cap_for_env \in Int
    BY RiskLimits, CapType
  <2>3. /\ compute_adjusted_margin(Capped(d)) = Capped(d).margin
        /\ compute_adjusted_leverage(Capped(d)) = Capped(d).leverage
    <3>1. compute_adjusted_margin(Capped(d)) = Capped(d).margin
      BY <2>1, <2>2 DEF compute_adjusted_margin
    <3>2. compute_adjusted_leverage(Capped(d)) = Capped(d).leverage
      BY <2>1, <2>2 DEF compute_adjusted_leverage
    <3>3. QED
      BY <3>1, <3>2
  <2>4. QED
    BY <2>3, CappedFields
<1>8. validate(Capped(d), a) =
          [decision |-> "APPROVE", margin |-> compute_adjusted_margin(d),
           leverage |-> compute_adjusted_leverage(d)]
  BY <1>5, <1>6, <1>7, PassedIsApproved
<1>9. Capped(d) = [d EXCEPT !.margin = v.margin, !.leverage = v.leverage]
  BY <1>2 DEF Capped
<1>10. QED
  BY <1>4, <1>8, <1>9
-----------------------------------------------------------------------------
(* The two ways to reach the fill: the price moved by the impact and then by *)
(* the half spread, or by both at once.                                      *)
LEMMA Moved ==
    \A e, m, s \in Int :
        /\ 2 * e * (10000 + m) + 10000 * s = 20000 * e + (10000 * s + 2 * e * m)
        /\ 2 * e * (10000 - m) - 10000 * s = 20000 * e + -(10000 * s + 2 * e * m)
<1> TAKE e, m, s \in Int
<1> DEFINE p == e * m
<1>1. /\ p \in Int
      /\ 2 * e * (10000 + m) = 20000 * e + 2 * p
      /\ 2 * e * (10000 - m) = 20000 * e - 2 * p
      /\ 2 * e * m = 2 * p
  OBVIOUS
<1> HIDE DEF p
<1>2. QED
  BY <1>1

(* The estimate of a MARKET order is what PaperAdapter makes of it: both     *)
(* move the price by the half spread and the impact.                         *)
LEMMA EstimateIsFill ==
    ASSUME NEW d \in DecisionFields, d.decision \in Directions, d.entry_type = "MARKET",
           NEW notional \in Nat, NEW spread \in Nat,
           NEW o, o.side = IF d.decision = "LONG" THEN "BUY" ELSE "SELL",
           o.entry = d.entry, o.notional = notional, o.spread = spread
    PROVE  estimate_slippage(d, notional, spread) = _fill_market_order(o)
<1> DEFINE move == half_spread(spread) + 2 * d.entry * MarketImpact
           fill == 20000 * d.entry + (IF d.decision = "LONG" THEN move ELSE -move)
<1>1. d.entry \in Nat /\ MarketImpact \in Nat
  BY ConfigLoads DEF DecisionFields, SlippageConfig
<1>2. d.entry \in Int /\ MarketImpact \in Int /\ spread \in Int
  BY <1>1
<1>3. /\ 2 * d.entry * (10000 + MarketImpact) + 10000 * spread
            = 20000 * d.entry + (10000 * spread + 2 * d.entry * MarketImpact)
      /\ 2 * d.entry * (10000 - MarketImpact) - 10000 * spread
            = 20000 * d.entry + -(10000 * spread + 2 * d.entry * MarketImpact)
  <2>1. PICK e \in Int : e = d.entry
    BY <1>2
  <2>2. PICK m \in Int : m = MarketImpact
    BY <1>2
  <2>3. PICK s \in Int : s = spread
    BY <1>2
  <2> HIDE DEF move, fill
  <2>4. /\ 2 * e * (10000 + m) + 10000 * s = 20000 * e + (10000 * s + 2 * e * m)
        /\ 2 * e * (10000 - m) - 10000 * s = 20000 * e + -(10000 * s + 2 * e * m)
    BY Moved
  <2>5. QED
    BY <2>1, <2>2, <2>3, <2>4
<1>4. move \in Nat
  BY <1>1 DEF half_spread
<1>5. estimate_slippage(d, notional, spread) = [slippage |-> move * notional, fill |-> fill]
  BY DEF estimate_slippage
<1>6. _cross_spread(apply(o), o) = fill
  <2>1. CASE d.decision = "LONG"
    <3>1. _cross_spread(apply(o), o) = 2 * d.entry * (10000 + MarketImpact) + 10000 * spread
      BY <2>1 DEF _cross_spread, apply, half_spread
    <3>2. QED
      BY <2>1, <3>1, <1>3 DEF half_spread
  <2>2. CASE d.decision = "SHORT"
    <3>1. _cross_spread(apply(o), o) = 2 * d.entry * (10000 - MarketImpact) - 10000 * spread
      BY <2>2 DEF _cross_spread, apply, half_spread
    <3>2. QED
      BY <2>2, <3>1, <1>3 DEF half_spread
  <2>3. QED
    BY <2>1, <2>2 DEF Directions
<1> HIDE DEF move
<1>7. Magnitude(fill - 20000 * d.entry) = move
  BY <1>1, <1>4 DEF Magnitude
<1>8. _fill_market_order(o) = [slippage |-> move * notional, fill |-> fill]
  BY <1>6, <1>7 DEF _fill_market_order
<1>9. QED
  BY <1>5, <1>8
=============================================================================
