--------------------------- MODULE DecisionProofs ---------------------------
(***************************************************************************)
(* Proofs about Decision, for every configuration that loads and every       *)
(* snapshot, answer, decision and account the schemas let in.                *)
(*                                                                           *)
(* None of the properties is inductive: each speaks of one stage, and rests  *)
(* on what the stages before it read.  IInv adds just that: the snapshot and *)
(* the answer behind final_action, the decision and the account behind the   *)
(* verdict, the failures behind the breaker and the usage behind a request.  *)
(* The last part is about the aggregator on both sides of the market.        *)
(***************************************************************************)
EXTENDS Decision, RiskEngineProofs, MarketAnalysisProofs, FiniteSetTheorems

(* What is still read of the snapshot after the aggregator.                  *)
FinalFields ==
    [decision : Directions \cup {"NO_OPERAR"}, funding : Int \cup {None}, spread : Nat \ {0}]

Proposals == [terms : DOMAIN Terms, account : DOMAIN Accounts]

(* What each stage of the pipeline has read is there for the next one.       *)
ReadInv ==
    /\ pc = "aggregated" => input \in [snapshot : Delivered, answer : Answers]
    /\ pc \in {"aggregated", "gated", "validated"} => final \in FinalFields
    /\ pc \in {"gated", "validated"} => final.decision \in Directions

(* The verdict is that of the decision and account the Risk Engine read.     *)
VerdictInv ==
    pc = "validated" =>
        /\ proposal \in Proposals
        /\ Terms[proposal.terms].decision = final.decision
        /\ ValidDecision(Terms[proposal.terms])
        /\ verdict = validate(Terms[proposal.terms], Account(proposal))

(* While the breaker is closed it has counted the failures in a row; it is   *)
(* half open only while its probe is out, and nothing is out while it is     *)
(* open.                                                                     *)
BreakerInv ==
    /\ breaker.state = "CLOSED" =>
          breaker.failures = seen.streak /\ breaker.failures < FailureThreshold
    /\ breaker.state = "OPEN" /\ breaker.elapsed => seen.rested
    /\ breaker.state = "HALF_OPEN" => pc = "sent"
    /\ pc = "sent" => breaker.state # "OPEN"

(* A request under way was within the budget, and the windows only slide.    *)
BudgetInv == BudgetKept /\ (pc \in {"calling", "sent"} => check_budget)

IInv == TypeOK /\ ReadInv /\ VerdictInv /\ EstimateMatchesFill /\ BreakerInv /\ BudgetInv
-----------------------------------------------------------------------------
(* What a snapshot that is delivered has.                                    *)
LEMMA DeliveredTypes ==
    ASSUME NEW k \in Delivered
    PROVE  /\ k \in DOMAIN Snapshots
           /\ Snapshots[k].funding \in Int \cup {None}
           /\ Snapshots[k].ask - Snapshots[k].bid \in Nat \ {0}
           /\ individual_signal_in_range(compute_quant_signals(Snapshots[k]))
<1>1. k \in DOMAIN Snapshots /\ Snapshots[k] \in SnapshotFields /\ MarketSnapshot(Snapshots[k])
  BY InputsTyped DEF Delivered
<1>2. individual_signal_in_range(compute_quant_signals(Snapshots[k]))
  BY <1>1, SignalsInRange
<1>3. Snapshots[k].funding \in Int \cup {None}
  BY <1>1 DEF SnapshotFields
<1>4. Snapshots[k].bid \in Int /\ Snapshots[k].ask \in Int
  BY <1>1 DEF SnapshotFields
<1>5. Snapshots[k].bid < Snapshots[k].ask
  BY <1>1 DEF MarketSnapshot, prices_coherent
<1>6. Snapshots[k].ask - Snapshots[k].bid \in Nat \ {0}
  BY <1>4, <1>5
<1>7. QED
  BY <1>1, <1>2, <1>3, <1>6

(* The aggregator answers with GPT's decision, or with NO_OPERAR.            *)
LEMMA AggregateTypes ==
    ASSUME NEW answer \in Answers, NEW s
    PROVE  aggregate(answer, s) \in Directions \cup {"NO_OPERAR"}
<1>1. answer.decision \in Directions \cup {"NO_OPERAR"}
  BY InputsTyped DEF AnswerFields
<1>2. QED
  BY <1>1 DEF aggregate

(* validate answers with one of the verdicts.                                *)
LEMMA VerdictTypes ==
    ASSUME NEW d, d.execute \in BOOLEAN, NEW a
    PROVE  validate(d, a).decision \in Verdicts
<1>1. CASE ~d.execute
  BY <1>1 DEF validate, Rejected, Verdicts
<1>2. CASE d.execute /\ "RAISES" \in block_checks(d, a)
  BY <1>2 DEF validate, Rejected, Verdicts
<1>3. CASE d.execute /\ "RAISES" \notin block_checks(d, a) /\ "BLOCK" \in block_checks(d, a)
  BY <1>3 DEF validate, Rejected, Verdicts
<1>4. CASE d.execute /\ "RAISES" \notin block_checks(d, a) /\ "BLOCK" \notin block_checks(d, a)
  BY <1>4 DEF validate, Verdicts
<1>5. QED
  BY <1>1, <1>2, <1>3, <1>4

(* The account the Risk Engine reads is one the schemas let in.              *)
LEMMA AccountTypes ==
    ASSUME final \in FinalFields, NEW p \in Proposals
    PROVE  Account(p) \in AccountFields
<1> DEFINE a == Accounts[p.account]
           rates == IF a.rates = None THEN None ELSE IF FeeRates(a.rates) THEN a.rates ELSE None
<1>1. a \in AccountFields
  BY InputsTyped DEF Proposals
<1>2. final.funding \in Int \cup {None}
  BY DEF FinalFields
<1>3. rates \in [maker : Int, taker : Int] \cup {None}
  BY <1>1 DEF AccountFields
<1>4. Account(p) = [a EXCEPT !.funding = final.funding, !.rates = rates]
  BY <1>1 DEF Account, AccountFields
<1> HIDE DEF a, rates
<1>5. QED
  BY <1>1, <1>2, <1>3, <1>4 DEF AccountFields
-----------------------------------------------------------------------------
(***************************************************************************)
(* The circuit breaker of the GPTClient.                                     *)
(***************************************************************************)
GptBreaker == [state : BreakerStates, failures : 0..FailureThreshold + 1, elapsed : BOOLEAN]

(* The operations of the breaker keep its type.                              *)
LEMMA BreakerTypes ==
    ASSUME NEW b \in GptBreaker
    PROVE  before_call(b) \in GptBreaker /\ on_success(b) \in GptBreaker
               /\ on_failure(b) \in GptBreaker
<1> USE ThresholdPositive DEF GptBreaker, BreakerStates
<1>1. before_call(b) \in GptBreaker
  BY DEF before_call
<1>2. on_success(b) \in GptBreaker
  BY DEF on_success, Closed
<1>3. on_failure(b) \in GptBreaker
  <2> DEFINE n == IF b.failures > FailureThreshold THEN b.failures ELSE b.failures + 1
  <2>1. n \in 0..FailureThreshold + 1
    OBVIOUS
  <2>2. on_failure(b) = IF b.state = "HALF_OPEN" \/ n >= FailureThreshold
                        THEN [state |-> "OPEN", failures |-> n, elapsed |-> FALSE]
                        ELSE [b EXCEPT !.failures = n]
    BY DEF on_failure
  <2> HIDE DEF n
  <2>3. QED
    BY <2>1, <2>2
<1>4. QED
  BY <1>1, <1>2, <1>3

(* What a failure makes of a breaker that counts the failures in a row.      *)
LEMMA FailureCounted ==
    ASSUME NEW b \in GptBreaker,
           b.state = "CLOSED" => b.failures < FailureThreshold, b.state # "OPEN"
    PROVE  /\ on_failure(b).state \in {"CLOSED", "OPEN"}
           /\ on_failure(b).state = "OPEN" => on_failure(b).elapsed = FALSE
           /\ on_failure(b).state = "CLOSED" =>
                 /\ b.state = "CLOSED" /\ on_failure(b).failures = b.failures + 1
                 /\ b.failures + 1 < FailureThreshold
<1> DEFINE n == IF b.failures > FailureThreshold THEN b.failures ELSE b.failures + 1
<1>1. /\ b.failures \in Nat /\ FailureThreshold \in Nat
      /\ b.state \in {"CLOSED", "OPEN", "HALF_OPEN"}
  BY ThresholdPositive DEF GptBreaker, BreakerStates
<1>2. CASE b.state = "HALF_OPEN" \/ n >= FailureThreshold
  <2>1. on_failure(b) = [state |-> "OPEN", failures |-> n, elapsed |-> FALSE]
    BY <1>2 DEF on_failure
  <2> HIDE DEF n
  <2>2. QED
    BY <2>1
<1>3. CASE ~(b.state = "HALF_OPEN" \/ n >= FailureThreshold)
  <2>1. on_failure(b) = [b EXCEPT !.failures = n]
    BY <1>3 DEF on_failure
  <2>2. b.state = "CLOSED"
    BY <1>1, <1>3
  <2>3. n = b.failures + 1 /\ n < FailureThreshold
    BY <1>1, <1>3, <2>2
  <2> HIDE DEF n
  <2>4. on_failure(b).state = b.state /\ on_failure(b).failures = n
    BY <2>1 DEF GptBreaker
  <2>5. QED
    BY <2>2, <2>3, <2>4
<1>4. QED
  BY <1>2, <1>3

(* The breaker of every step, and what the observer has seen.                *)
LEMMA BreakerStep == TypeOK /\ BreakerInv /\ [Next]_vars => BreakerInv'
<1> SUFFICES ASSUME TypeOK, BreakerInv, [Next]_vars PROVE BreakerInv'
  OBVIOUS
<1>1. breaker \in GptBreaker /\ seen \in [streak : 0..FailureThreshold, rested : BOOLEAN]
  BY DEF TypeOK, GptBreaker
<1>2. CASE UNCHANGED <<breaker, seen>> /\ ((pc = "sent") = (pc' = "sent"))
  BY <1>2 DEF BreakerInv
<1>3. CASE Send
  <2>1. before_call(breaker).elapsed = breaker.elapsed
        /\ before_call(breaker).failures = breaker.failures
    BY <1>1 DEF before_call, GptBreaker
  <2>2. before_call(breaker).state =
            IF breaker.state = "OPEN" THEN "HALF_OPEN" ELSE breaker.state
    BY <1>1 DEF before_call, GptBreaker
  <2>3. QED
    BY <1>3, <2>1, <2>2 DEF Send, BreakerInv
<1>4. CASE CallFails
  <2>1. pc = "sent" /\ breaker' = on_failure(breaker) /\ seen'.rested = FALSE
        /\ seen'.streak = IF seen.streak < FailureThreshold THEN seen.streak + 1
                          ELSE seen.streak
    BY <1>4 DEF CallFails
  <2>2. breaker.state # "OPEN"
    BY <2>1 DEF BreakerInv
  <2>3. pc' \in {"idle", "calling"}
    BY <1>4 DEF CallFails
  <2>4. /\ breaker'.state \in {"CLOSED", "OPEN"}
        /\ breaker'.state = "OPEN" => breaker'.elapsed = FALSE
        /\ breaker'.state = "CLOSED" =>
              /\ breaker.state = "CLOSED" /\ breaker'.failures = breaker.failures + 1
              /\ breaker.failures + 1 < FailureThreshold
    BY <1>1, <2>1, <2>2, FailureCounted DEF BreakerInv
  <2>5. breaker'.state = "CLOSED" =>
            breaker'.failures = seen'.streak /\ breaker'.failures < FailureThreshold
    BY <1>1, <2>1, <2>4, ThresholdPositive DEF BreakerInv
  <2>6. QED
    BY <2>3, <2>4, <2>5 DEF BreakerInv
<1>5. CASE CallSucceeds
  BY <1>5, ThresholdPositive DEF CallSucceeds, on_success, Closed, BreakerInv
<1>6. CASE ResetElapses
  <2>1. /\ breaker'.state = breaker.state /\ breaker'.failures = breaker.failures
        /\ seen'.streak = seen.streak /\ seen'.rested = TRUE /\ pc' = pc
    BY <1>1, <1>6 DEF ResetElapses, GptBreaker
  <2>2. QED
    BY <2>1 DEF BreakerInv
<1>7. QED
  BY <1>2, <1>3, <1>4, <1>5, <1>6
     DEF Next, Worker, vars, Request, CallRefused, Aggregate, Gate, Validate, Execute, Finish,
         RowLeavesHour, RowLeavesDay, OpenAIChanges
-----------------------------------------------------------------------------
(***************************************************************************)
(* What each stage has read.                                                 *)
(***************************************************************************)
(* What the aggregator leaves for the stages after it.                       *)
LEMMA AggregateReads ==
    ASSUME Aggregate
    PROVE  /\ input' \in [snapshot : Delivered, answer : Answers]
           /\ final' \in FinalFields
<1> DEFINE s == Snapshots[input'.snapshot]
<1>1. input' \in [snapshot : Delivered, answer : Answers]
  BY DEF Aggregate
<1>2. input'.snapshot \in Delivered /\ input'.answer \in Answers
  BY <1>1
<1>3. s.funding \in Int \cup {None} /\ s.ask - s.bid \in Nat \ {0}
  BY <1>2, DeliveredTypes
<1>4. aggregate(input'.answer, s) \in Directions \cup {"NO_OPERAR"}
  BY <1>2, AggregateTypes
<1>5. final' = [decision |-> aggregate(input'.answer, s), funding |-> s.funding,
                spread |-> s.ask - s.bid]
  BY DEF Aggregate
<1> HIDE DEF s
<1>6. final' \in FinalFields
  BY <1>3, <1>4, <1>5 DEF FinalFields
<1>7. QED
  BY <1>1, <1>6

(* The steps before the aggregator and those beside the worker: nothing read *)
(* changes, and the symbol is not past the aggregator.                       *)
Before ==
    \/ Request \/ CallRefused \/ Send \/ CallFails \/ CallSucceeds
    \/ RowLeavesHour \/ RowLeavesDay \/ ResetElapses \/ OpenAIChanges

LEMMA BeforeReads ==
    ASSUME Before
    PROVE  /\ UNCHANGED <<input, final, proposal, verdict, order>>
           /\ pc' \in {"idle", "calling", "sent", "answered"}
  BY DEF Before, Request, CallRefused, Send, CallFails, CallSucceeds, RowLeavesHour,
         RowLeavesDay, ResetElapses, OpenAIChanges, risk

(* Every step of the specification is one of these.                          *)
LEMMA Steps ==
    ASSUME [Next]_vars
    PROVE  \/ Before \/ Aggregate \/ Gate \/ Validate \/ Execute \/ Finish
           \/ UNCHANGED vars
  BY DEF Next, Worker, Before

(* Only the aggregator and the gate write what is read later.               *)
LEMMA ReadStep == TypeOK /\ ReadInv /\ [Next]_vars => ReadInv'
<1> SUFFICES ASSUME TypeOK, ReadInv, [Next]_vars PROVE ReadInv'
  OBVIOUS
<1>1. CASE Before
  BY <1>1, BeforeReads DEF ReadInv
<1>2. CASE Aggregate
  BY <1>2, AggregateReads DEF Aggregate, ReadInv
<1>3. CASE Gate
  <2>1. CASE final.decision = "NO_OPERAR"
    BY <1>3, <2>1 DEF Gate, ReadInv
  <2>2. CASE final.decision # "NO_OPERAR"
    <3>1. pc = "aggregated" /\ pc' = "gated" /\ final' = final
      BY <1>3, <2>2 DEF Gate, risk
    <3>2. final \in FinalFields /\ final.decision \in Directions
      BY <2>2, <3>1 DEF ReadInv, FinalFields
    <3>3. QED
      BY <3>1, <3>2 DEF ReadInv
  <2>3. QED
    BY <2>1, <2>2
<1>4. CASE Validate
  BY <1>4 DEF Validate, ReadInv
<1>5. CASE Execute
  BY <1>5 DEF Execute, ReadInv
<1>6. CASE Finish
  BY <1>6 DEF Finish, ReadInv
<1>7. CASE UNCHANGED vars
  BY <1>7 DEF vars, risk, ReadInv
<1>8. QED
  BY <1>1, <1>2, <1>3, <1>4, <1>5, <1>6, <1>7, Steps

(* Only the Risk Engine writes a verdict, with what it has read.            *)
LEMMA VerdictStep == VerdictInv /\ [Next]_vars => VerdictInv'
<1> SUFFICES ASSUME VerdictInv, [Next]_vars PROVE VerdictInv'
  OBVIOUS
<1>1. CASE Before
  BY <1>1, BeforeReads DEF VerdictInv
<1>2. CASE Validate
  <2>1. /\ proposal' \in Proposals /\ final' = final
        /\ Terms[proposal'.terms].decision = final.decision
        /\ ValidDecision(Terms[proposal'.terms])
        /\ verdict' = validate(Terms[proposal'.terms], Account(proposal'))
    BY <1>2 DEF Validate, Proposals
  <2>2. QED
    BY <2>1 DEF VerdictInv, Account
<1>3. CASE UNCHANGED vars
  BY <1>3 DEF vars, risk, VerdictInv, Account
<1>4. CASE Aggregate \/ Gate \/ Execute \/ Finish
  <2>1. pc' # "validated"
    BY <1>4 DEF Aggregate, Gate, Execute, Finish
  <2>2. QED
    BY <2>1 DEF VerdictInv
<1>5. QED
  BY <1>1, <1>2, <1>3, <1>4, Steps
-----------------------------------------------------------------------------
(***************************************************************************)
(* What an approval rests on.                                                *)
(***************************************************************************)
(* At the verdict, what was read has its types.                             *)
LEMMA Read ==
    ASSUME ReadInv, VerdictInv, pc = "validated"
    PROVE  /\ Terms[proposal.terms] \in DecisionFields
           /\ Terms[proposal.terms].decision \in Directions
           /\ Terms[proposal.terms].execute \in BOOLEAN
           /\ ValidDecision(Terms[proposal.terms])
           /\ Account(proposal) \in AccountFields
           /\ verdict = validate(Terms[proposal.terms], Account(proposal))
           /\ final \in FinalFields
<1>1. proposal \in Proposals /\ final \in FinalFields
  BY DEF ReadInv, VerdictInv
<1>2. proposal.terms \in DOMAIN Terms
  BY <1>1 DEF Proposals
<1>3. Terms[proposal.terms] \in DecisionFields
  BY <1>2, InputsTyped
<1>4. Account(proposal) \in AccountFields
  BY <1>1, AccountTypes
<1>5. QED
  BY <1>1, <1>3, <1>4 DEF ReadInv, VerdictInv, DecisionFields

(* What an approval says of the decision, the account and the parameters.   *)
LEMMA ApprovalParts ==
    ASSUME ReadInv, VerdictInv, pc = "validated", Approved(verdict)
    PROVE  /\ Terms[proposal.terms].execute
           /\ AllPass(Terms[proposal.terms], Account(proposal))
           /\ verdict.margin = compute_adjusted_margin(Terms[proposal.terms])
           /\ verdict.leverage = compute_adjusted_leverage(Terms[proposal.terms])
           /\ verdict.margin \in Nat \ {0} /\ verdict.margin <= MaxMargin
           /\ verdict.leverage \in Nat \ {0} /\ verdict.leverage <= cap_for_env
           /\ verdict.margin * verdict.leverage \in Nat \ {0}
<1> DEFINE d == Terms[proposal.terms]
           a == Account(proposal)
<1>1. /\ d \in DecisionFields /\ ValidDecision(d) /\ d.execute \in BOOLEAN
      /\ verdict = validate(d, a)
  BY Read
<1> HIDE DEF d, a
<1>2. /\ d.execute /\ AllPass(d, a)
      /\ verdict.margin = compute_adjusted_margin(d)
      /\ verdict.leverage = compute_adjusted_leverage(d)
  BY <1>1, ApprovedMeans
<1>3. /\ verdict.margin \in Nat \ {0} /\ verdict.margin <= MaxMargin
      /\ verdict.leverage \in Nat \ {0} /\ verdict.leverage <= cap_for_env
  BY <1>1, <1>2, AdjustedTypes
<1>4. \A m, l \in Nat \ {0} : m * l \in Nat \ {0}
  OBVIOUS
<1>5. verdict.margin * verdict.leverage \in Nat \ {0}
  BY <1>3, <1>4
<1>6. QED
  BY <1>2, <1>3, <1>5 DEF d, a

(* The estimate that is stored is one of the capped parameters.              *)
LEMMA EstimateOfAdjusted ==
    ASSUME NEW d \in DecisionFields, d.execute, d.entry_type = "MARKET",
           d.decision \in Directions,
           NEW v, v.margin \in Nat, v.leverage \in Nat, NEW spread \in Nat
    PROVE  executed_estimate(d, v, spread) =
               estimate_slippage(d, v.margin * v.leverage, spread)
<1> DEFINE proposed == estimate_for_decision(d, d.margin, d.leverage, spread)
<1>1. \A m, l : estimate_for_decision(d, m, l, spread) = estimate_slippage(d, m * l, spread)
  BY DEF estimate_for_decision, is_estimable
<1>2. proposed # None
  <2> DEFINE move == half_spread(spread) + 2 * d.entry * MarketImpact
             notional == d.margin * d.leverage
             fill == 20000 * d.entry + (IF d.decision = "LONG" THEN move ELSE -move)
  <2>1. d.entry \in Nat /\ d.margin \in Nat /\ d.leverage \in Nat /\ MarketImpact \in Nat
    BY ConfigLoads DEF DecisionFields, SlippageConfig
  <2>2. move \in Nat /\ notional \in Nat
    BY <2>1 DEF half_spread
  <2>3. proposed = [slippage |-> move * notional, fill |-> fill]
    BY <1>1 DEF estimate_slippage
  <2> HIDE DEF move, notional, proposed
  <2>4. move * notional \in Int /\ fill \in Int
    BY <2>1, <2>2
  <2>5. proposed \in Estimates
    BY <2>3, <2>4 DEF Estimates
  <2>6. QED
    BY <2>5, NoneIsNoRecord
<1>3. CASE v.margin # d.margin \/ v.leverage # d.leverage
  BY <1>1, <1>2, <1>3 DEF executed_estimate
<1>4. CASE v.margin = d.margin /\ v.leverage = d.leverage
  BY <1>1, <1>4 DEF executed_estimate
<1>5. QED
  BY <1>3, <1>4

(* Only _build_order_request and its estimate make an order.                *)
LEMMA EstimateStep ==
    ReadInv /\ VerdictInv /\ EstimateMatchesFill /\ [Next]_vars => EstimateMatchesFill'
<1> SUFFICES ASSUME ReadInv, VerdictInv, EstimateMatchesFill, [Next]_vars
             PROVE  EstimateMatchesFill'
  OBVIOUS
<1>1. CASE pc' # "ordered"
  BY <1>1 DEF EstimateMatchesFill
<1>2. CASE UNCHANGED vars
  BY <1>2 DEF vars, risk, EstimateMatchesFill
<1>3. CASE Execute /\ pc' = "ordered"
  <2> DEFINE d == Terms[proposal.terms]
             notional == verdict.margin * verdict.leverage
  <2>1. pc = "validated" /\ Approved(verdict)
        /\ order' = [request |-> _build_order_request(d, verdict, final.spread),
                     estimate |-> executed_estimate(d, verdict, final.spread)]
    BY <1>3 DEF Execute, Approved
  <2>2. d \in DecisionFields /\ d.decision \in Directions /\ final.spread \in Nat
    BY <2>1, Read DEF FinalFields
  <2>3. /\ d.execute /\ verdict.margin \in Nat /\ verdict.leverage \in Nat
        /\ notional \in Nat
    BY <2>1, ApprovalParts
  <2> DEFINE o == _build_order_request(d, verdict, final.spread)
  <2>4. /\ o.side = IF d.decision = "LONG" THEN "BUY" ELSE "SELL"
        /\ o.entry = d.entry /\ o.notional = notional /\ o.spread = final.spread
        /\ o.type = d.entry_type
    BY DEF _build_order_request
  <2> HIDE DEF d, notional, o
  <2>5. SUFFICES ASSUME d.entry_type = "MARKET"
                 PROVE  executed_estimate(d, verdict, final.spread) = _fill_market_order(o)
    BY <2>1, <2>4 DEF EstimateMatchesFill, o
  <2>6. executed_estimate(d, verdict, final.spread) =
            estimate_slippage(d, notional, final.spread)
    BY <2>2, <2>3, <2>5, EstimateOfAdjusted DEF notional
  <2>7. estimate_slippage(d, notional, final.spread) = _fill_market_order(o)
    BY <2>2, <2>3, <2>4, <2>5, EstimateIsFill
  <2>8. QED
    BY <2>6, <2>7
<1>4. pc' = "ordered" => Execute \/ UNCHANGED vars
  BY Steps, BeforeReads DEF Aggregate, Gate, Validate, Finish
<1>5. QED
  BY <1>1, <1>2, <1>3, <1>4
-----------------------------------------------------------------------------
(***************************************************************************)
(* The types.                                                                *)
(***************************************************************************)
(* What the retry loop, the windows and the breaker keep ...                 *)
CallTypes ==
    /\ pc \in Pcs /\ attempt \in 1..MaxAttempts
    /\ breaker \in GptBreaker
    /\ rows \in [hour : Nat, earlier : Nat]
    /\ gpt \in {"up", "down"}
    /\ seen \in [streak : 0..FailureThreshold, rested : BOOLEAN]

(* ... and what the stages after the answer do.                              *)
DataTypes ==
    /\ \/ input = None
       \/ /\ input \in [snapshot : DOMAIN Snapshots, answer : Answers]
          /\ individual_signal_in_range(compute_quant_signals(Snapshots[input.snapshot]))
    /\ final = None \/ final.decision \in Directions \cup {"NO_OPERAR"}
    /\ proposal = None \/ proposal \in [terms : DOMAIN Terms, account : DOMAIN Accounts]
    /\ verdict = None \/ verdict.decision \in Verdicts
    /\ order = None \/ order.request.notional \in Nat \ {0}

(* TypeOK is both of them.                                                  *)
LEMMA TypesSplit == TypeOK <=> CallTypes /\ DataTypes
  BY DEF TypeOK, CallTypes, DataTypes, GptBreaker

(* No step breaks the types of the call.                                    *)
LEMMA CallTypesStep == CallTypes /\ [Next]_vars => CallTypes'
<1> SUFFICES ASSUME CallTypes, [Next]_vars PROVE CallTypes'
  OBVIOUS
<1> USE DEF CallTypes
<1>1. pc' \in Pcs
  BY DEF Next, Worker, Request, CallRefused, Send, CallFails, CallSucceeds, Aggregate, Gate,
         Validate, Execute, Finish, RowLeavesHour, RowLeavesDay, ResetElapses, OpenAIChanges,
         vars, Pcs
<1>2. attempt' \in 1..MaxAttempts
  <2>1. MaxAttempts \in Nat \ {0}
    BY DecisionLimits
  <2>2. CASE UNCHANGED attempt
    BY <2>2
  <2>3. CASE Request
    BY <2>1, <2>3 DEF Request
  <2>4. CASE CallFails
    <3>1. PICK retryable \in BOOLEAN :
              IF GivesUp(attempt, MaxAttempts, retryable) THEN UNCHANGED attempt
              ELSE attempt' = attempt + 1
      BY <2>4 DEF CallFails
    <3>2. CASE GivesUp(attempt, MaxAttempts, retryable)
      BY <3>1, <3>2
    <3>3. CASE ~GivesUp(attempt, MaxAttempts, retryable)
      <4>1. attempt # MaxAttempts /\ attempt' = attempt + 1
        BY <3>1, <3>3 DEF GivesUp
      <4>2. QED
        BY <2>1, <4>1
    <3>4. QED
      BY <3>2, <3>3
  <2>5. QED
    BY <2>2, <2>3, <2>4
       DEF Next, Worker, CallRefused, Send, CallSucceeds, Aggregate, Gate, Validate, Execute,
           Finish, RowLeavesHour, RowLeavesDay, ResetElapses, OpenAIChanges, vars
<1>3. breaker' \in GptBreaker
  <2>1. breaker' \in {breaker, before_call(breaker), on_failure(breaker), on_success(breaker),
                      [breaker EXCEPT !.elapsed = (breaker.state = "OPEN")]}
    BY DEF Next, Worker, Request, CallRefused, Send, CallFails, CallSucceeds, Aggregate, Gate,
           Validate, Execute, Finish, RowLeavesHour, RowLeavesDay, ResetElapses, OpenAIChanges,
           vars
  <2>2. [breaker EXCEPT !.elapsed = (breaker.state = "OPEN")] \in GptBreaker
    BY DEF GptBreaker
  <2>3. QED
    BY <2>1, <2>2, BreakerTypes
<1>4. rows' \in [hour : Nat, earlier : Nat]
  <2>1. \/ rows' = rows \/ rows' = [rows EXCEPT !.hour = @ + 1]
        \/ rows.earlier > 0 /\ rows' = [rows EXCEPT !.earlier = @ - 1]
        \/ rows.hour > 0 /\ rows' = [hour |-> rows.hour - 1, earlier |-> rows.earlier + 1]
    BY DEF Next, Worker, Request, CallRefused, Send, CallFails, CallSucceeds, Aggregate, Gate,
           Validate, Execute, Finish, RowLeavesHour, RowLeavesDay, ResetElapses, OpenAIChanges,
           vars
  <2>2. QED
    BY <2>1
<1>5. gpt' \in {"up", "down"}
  BY DEF Next, Worker, Request, CallRefused, Send, CallFails, CallSucceeds, Aggregate, Gate,
         Validate, Execute, Finish, RowLeavesHour, RowLeavesDay, ResetElapses, OpenAIChanges,
         vars
<1>6. seen' \in [streak : 0..FailureThreshold, rested : BOOLEAN]
  <2>1. \/ seen' = seen \/ seen' = [seen EXCEPT !.rested = TRUE]
        \/ seen' = [streak |-> 0, rested |-> FALSE]
        \/ seen' = [streak |-> IF seen.streak < FailureThreshold THEN seen.streak + 1
                               ELSE seen.streak, rested |-> FALSE]
    BY DEF Next, Worker, Request, CallRefused, Send, CallFails, CallSucceeds, Aggregate, Gate,
           Validate, Execute, Finish, RowLeavesHour, RowLeavesDay, ResetElapses, OpenAIChanges,
           vars
  <2> DEFINE n == IF seen.streak < FailureThreshold THEN seen.streak + 1 ELSE seen.streak
  <2>2. n \in 0..FailureThreshold /\ 0 \in 0..FailureThreshold
    BY ThresholdPositive
  <2> HIDE DEF n
  <2>3. CASE seen' = seen \/ seen' = [seen EXCEPT !.rested = TRUE]
    BY <2>3
  <2>4. CASE seen' = [streak |-> 0, rested |-> FALSE]
    BY <2>2, <2>4
  <2>5. CASE seen' = [streak |-> n, rested |-> FALSE]
    BY <2>2, <2>5
  <2>6. QED
    BY <2>1, <2>3, <2>4, <2>5 DEF n
<1>7. QED
  BY <1>1, <1>2, <1>3, <1>4, <1>5, <1>6

(* No step breaks the types of the data, given what it has read.            *)
LEMMA DataTypesStep ==
    DataTypes /\ ReadInv /\ VerdictInv /\ [Next]_vars => DataTypes'
<1> SUFFICES ASSUME DataTypes, ReadInv, VerdictInv, [Next]_vars PROVE DataTypes'
  OBVIOUS
<1>1. CASE Before
  BY <1>1, BeforeReads DEF DataTypes
<1>2. CASE Aggregate
  <2>1. input' \in [snapshot : Delivered, answer : Answers] /\ final' \in FinalFields
    BY <1>2, AggregateReads
  <2>2. input'.snapshot \in Delivered
    BY <2>1
  <2>3. /\ input' \in [snapshot : DOMAIN Snapshots, answer : Answers]
        /\ individual_signal_in_range(compute_quant_signals(Snapshots[input'.snapshot]))
    BY <2>1, <2>2, DeliveredTypes
  <2>4. final'.decision \in Directions \cup {"NO_OPERAR"}
    BY <2>1 DEF FinalFields
  <2>5. UNCHANGED <<proposal, verdict, order>>
    BY <1>2 DEF Aggregate
  <2>6. QED
    BY <2>3, <2>4, <2>5 DEF DataTypes
<1>3. CASE Gate
  <2>1. \/ UNCHANGED order /\ Clear
        \/ input' = None /\ UNCHANGED risk
    BY <1>3 DEF Gate
  <2>2. QED
    BY <2>1 DEF DataTypes, Clear, risk
<1>4. CASE Validate
  <2> DEFINE d == Terms[proposal'.terms]
  <2>1. /\ proposal' \in [terms : DOMAIN Terms, account : DOMAIN Accounts]
        /\ verdict' = validate(d, Account(proposal'))
        /\ UNCHANGED <<input, final, order>>
    BY <1>4 DEF Validate
  <2>2. d.execute \in BOOLEAN
    BY <2>1, InputsTyped DEF DecisionFields
  <2> HIDE DEF d
  <2>3. verdict'.decision \in Verdicts
    BY <2>1, <2>2, VerdictTypes
  <2>4. QED
    BY <2>1, <2>3 DEF DataTypes
<1>5. CASE Execute
  <2>1. Clear /\ pc = "validated"
    BY <1>5 DEF Execute
  <2>2. CASE Approved(verdict)
    <3>1. order'.request.notional = verdict.margin * verdict.leverage
      BY <1>5, <2>2 DEF Execute, Approved, _build_order_request
    <3>2. order'.request.notional \in Nat \ {0}
      BY <2>1, <2>2, <3>1, ApprovalParts
    <3>3. QED
      BY <2>1, <3>2 DEF DataTypes, Clear
  <2>3. CASE ~Approved(verdict)
    <3>1. UNCHANGED order
      BY <1>5, <2>3 DEF Execute, Approved
    <3>2. QED
      BY <2>1, <3>1 DEF DataTypes, Clear
  <2>4. QED
    BY <2>2, <2>3
<1>6. CASE Finish
  BY <1>6 DEF Finish, DataTypes
<1>7. CASE UNCHANGED vars
  BY <1>7 DEF vars, risk, DataTypes
<1>8. QED
  BY <1>1, <1>2, <1>3, <1>4, <1>5, <1>6, <1>7, Steps
-----------------------------------------------------------------------------
(***************************************************************************)
(* The token budget.                                                         *)
(***************************************************************************)
(* The tokens of both windows are numbers ...                                *)
LEMMA UsageTypes ==
    ASSUME CallTypes
    PROVE  used_hour \in Nat /\ used_day \in Nat /\ used_hour <= used_day
<1>1. rows.hour \in Nat /\ rows.earlier \in Nat /\ Tokens \in Nat
  BY DecisionLimits DEF CallTypes
<1>2. QED
  BY <1>1 DEF used_hour, used_day

(* ... and what the windows hold after a slide or one more row.             *)
LEMMA UsageAfter ==
    ASSUME NEW t \in Nat, NEW h \in Nat, NEW e \in Nat
    PROVE  /\ t * (h + 1) = t * h + t /\ t * (h + 1 + e) = t * (h + e) + t
           /\ h > 0 => t * (h - 1) <= t * h /\ t * (h - 1 + (e + 1)) = t * (h + e)
           /\ e > 0 => t * (h + (e - 1)) <= t * (h + e)
<1>1. t * h \in Nat /\ t * e \in Nat
  OBVIOUS
<1>2. /\ t * (h + 1) = t * h + t /\ t * (h + 1 + e) = t * h + t + t * e
      /\ t * (h + e) = t * h + t * e /\ t * (h - 1) = t * h - t
      /\ t * (h - 1 + (e + 1)) = t * h + t * e /\ t * (h + (e - 1)) = t * h + t * e - t
  OBVIOUS
<1>3. QED
  BY <1>1, <1>2

(* Every charged call was within the budget when it was asked for.          *)
LEMMA BudgetStep == CallTypes /\ BudgetInv /\ [Next]_vars => BudgetInv'
<1> SUFFICES ASSUME CallTypes, BudgetInv, [Next]_vars PROVE BudgetInv'
  OBVIOUS
<1>1. /\ rows \in [hour : Nat, earlier : Nat] /\ rows.hour \in Nat /\ rows.earlier \in Nat
      /\ Tokens \in Nat /\ LimitHour \in Nat /\ LimitDay \in Nat
  BY DecisionLimits DEF CallTypes
<1>2. /\ used_hour = Tokens * rows.hour /\ used_day = Tokens * (rows.hour + rows.earlier)
      /\ used_hour' = Tokens * rows'.hour /\ used_day' = Tokens * (rows'.hour + rows'.earlier)
  BY DEF used_hour, used_day
<1>3. used_hour \in Nat /\ used_day \in Nat
  BY UsageTypes
<1> HIDE DEF used_hour, used_day
<1>4. CASE Request
  BY <1>2, <1>4 DEF Request, BudgetInv, BudgetKept, check_budget
<1>5. CASE UNCHANGED rows /\ (pc' \in {"calling", "sent"} => pc \in {"calling", "sent"})
  BY <1>2, <1>5 DEF BudgetInv, BudgetKept, check_budget
<1>6. CASE RowLeavesHour
  <2>1. /\ rows.hour > 0 /\ pc' = pc
        /\ rows'.hour = rows.hour - 1 /\ rows'.earlier = rows.earlier + 1
    BY <1>6 DEF RowLeavesHour
  <2>2. used_hour' <= used_hour /\ used_day' = used_day
    BY <1>1, <1>2, <2>1, UsageAfter
  <2>3. used_hour' \in Nat
    BY <1>1, <1>2, <2>1
  <2>4. QED
    BY <1>1, <1>3, <2>1, <2>2, <2>3 DEF BudgetInv, BudgetKept, check_budget
<1>7. CASE RowLeavesDay
  <2>1. /\ rows.earlier > 0 /\ pc' = pc
        /\ rows'.hour = rows.hour /\ rows'.earlier = rows.earlier - 1
    BY <1>1, <1>7 DEF RowLeavesDay
  <2>2. used_hour' = used_hour /\ used_day' <= used_day
    BY <1>1, <1>2, <2>1, UsageAfter
  <2>3. used_day' \in Nat
    BY <1>1, <1>2, <2>1
  <2>4. QED
    BY <1>1, <1>3, <2>1, <2>2, <2>3 DEF BudgetInv, BudgetKept, check_budget
<1>8. CASE CallSucceeds
  <2>1. pc = "sent" /\ pc' \in {"answered", "idle"}
        /\ rows' \in {rows, [rows EXCEPT !.hour = @ + 1]}
    BY <1>8 DEF CallSucceeds
  <2>2. used_hour < LimitHour /\ used_day < LimitDay
    BY <2>1 DEF BudgetInv, check_budget
  <2>3. CASE rows' = rows
    BY <1>1, <1>2, <2>1, <2>3 DEF BudgetInv, BudgetKept
  <2>4. CASE rows' = [rows EXCEPT !.hour = @ + 1]
    <3>1. rows'.hour = rows.hour + 1 /\ rows'.earlier = rows.earlier
      BY <1>1, <2>4
    <3>2. used_hour' = used_hour + Tokens /\ used_day' = used_day + Tokens
      BY <1>1, <1>2, <3>1, UsageAfter
    <3>3. QED
      BY <1>1, <1>3, <2>1, <2>2, <3>2 DEF BudgetInv, BudgetKept
  <2>5. QED
    BY <2>1, <2>3, <2>4
<1>9. QED
  BY <1>4, <1>5, <1>6, <1>7, <1>8
     DEF Next, Worker, CallRefused, Send, CallFails, Aggregate, Gate, Validate, Execute, Finish,
         ResetElapses, OpenAIChanges, vars
-----------------------------------------------------------------------------
(***************************************************************************)
(* The invariant and what follows from it.                                   *)
(***************************************************************************)
(* The worker starts with nothing read and a closed breaker.                *)
LEMMA InvariantInit == Init => IInv
<1> SUFFICES ASSUME Init PROVE IInv
  OBVIOUS
<1>1. CallTypes
  BY DecisionLimits, ThresholdPositive
     DEF Init, CallTypes, Pcs, Closed, GptBreaker, BreakerStates
<1>2. DataTypes
  BY DEF Init, DataTypes
<1>3. ReadInv /\ VerdictInv /\ EstimateMatchesFill
  BY DEF Init, ReadInv, VerdictInv, EstimateMatchesFill
<1>4. BreakerInv
  BY ThresholdPositive DEF Init, Closed, BreakerInv
<1>5. BudgetInv
  <2>1. rows.hour = 0 /\ rows.earlier = 0 /\ pc = "idle"
    BY DEF Init
  <2>2. used_hour = 0 /\ used_day = 0
    BY <2>1, DecisionLimits DEF used_hour, used_day
  <2>3. QED
    BY <2>1, <2>2, DecisionLimits DEF BudgetInv, BudgetKept
<1>6. QED
  BY <1>1, <1>2, <1>3, <1>4, <1>5, TypesSplit DEF IInv

(* Every step keeps the invariant.                                          *)
LEMMA InvariantNext == IInv /\ [Next]_vars => IInv'
<1> SUFFICES ASSUME IInv, [Next]_vars PROVE IInv'
  OBVIOUS
<1>1. CallTypes /\ DataTypes
  BY TypesSplit DEF IInv
<1>2. CallTypes' /\ DataTypes'
  BY <1>1, CallTypesStep, DataTypesStep DEF IInv
<1>3. TypeOK'
  BY <1>2 DEF TypeOK, CallTypes, DataTypes, GptBreaker
<1>4. QED
  BY <1>1, <1>3, ReadStep, VerdictStep, EstimateStep, BreakerStep, BudgetStep DEF IInv

(* The inductive invariant holds in every reachable state.                   *)
THEOREM Invariant == Spec => []IInv
<1>1. Init => IInv
  BY InvariantInit
<1>2. IInv /\ [Next]_vars => IInv'
  BY InvariantNext
<1>3. QED
  BY <1>1, <1>2, PTL DEF Spec

(* Types, the range of the signals of every snapshot that is delivered, and  *)
(* orders for an amount (quant_signals/schemas.py, cycle_runner.py).         *)
THEOREM TypeCorrect == Spec => []TypeOK
<1>1. IInv => TypeOK
  BY DEF IInv
<1>2. QED
  BY <1>1, Invariant, PTL

(* The slippage stored with a MARKET order is the one PaperAdapter measures  *)
(* on its fill (cycle_runner.py:575-599, paper_adapter.py:294-368).          *)
THEOREM EstimateIsOfTheFill == Spec => []EstimateMatchesFill
<1>1. IInv => EstimateMatchesFill
  BY DEF IInv
<1>2. QED
  BY <1>1, Invariant, PTL

(* What the Risk Engine brought down to the caps it would approve as it is   *)
(* (engine.py:195-230).                                                      *)
THEOREM AdjustmentIsStable == Spec => []AdjustmentStable
<1>1. IInv => AdjustmentStable
  <2> SUFFICES ASSUME IInv, pc = "validated", Approved(verdict)
               PROVE  validate([Terms[proposal.terms] EXCEPT !.margin = verdict.margin,
                                                             !.leverage = verdict.leverage],
                               Account(proposal)) = [verdict EXCEPT !.decision = "APPROVE"]
    BY DEF AdjustmentStable, Approved
  <2>1. /\ Terms[proposal.terms] \in DecisionFields /\ ValidDecision(Terms[proposal.terms])
        /\ Account(proposal) \in AccountFields
        /\ verdict = validate(Terms[proposal.terms], Account(proposal))
    BY Read DEF IInv
  <2>2. QED
    BY <2>1, ApprovalIsStable
<1>2. QED
  BY <1>1, Invariant, PTL

(* No window of the token budget passes its limit by a whole call            *)
(* (gpt_client.py:232-282).                                                  *)
THEOREM BudgetIsKept == Spec => []BudgetKept
<1>1. IInv => BudgetKept
  BY DEF IInv, BudgetInv
<1>2. QED
  BY <1>1, Invariant, PTL

(* After FailureThreshold failures in a row nothing is sent until the        *)
(* timeout has passed (core/retry.py:54-87).                                 *)
THEOREM BreakerShieldsOpenAI == Spec => BreakerShields
<1>1. IInv /\ [Next]_vars =>
          [pc' = "sent" /\ pc # "sent" => seen.streak < FailureThreshold \/ seen.rested]_vars
  <2> SUFFICES ASSUME IInv, [Next]_vars, pc' = "sent", pc # "sent"
               PROVE  seen.streak < FailureThreshold \/ seen.rested
    OBVIOUS
  <2>1. Send
    BY DEF Next, Worker, Request, CallRefused, CallFails, CallSucceeds, Aggregate, Gate,
           Validate, Execute, Finish, RowLeavesHour, RowLeavesDay, ResetElapses,
           OpenAIChanges, vars
  <2>2. ~Refuses(breaker) /\ breaker.state \in {"CLOSED", "OPEN", "HALF_OPEN"}
    BY <2>1 DEF Send, IInv, TypeOK, BreakerStates
  <2>3. CASE breaker.state = "CLOSED"
    BY <2>3 DEF IInv, BreakerInv
  <2>4. CASE breaker.state = "OPEN"
    BY <2>2, <2>4 DEF Refuses, IInv, BreakerInv
  <2>5. CASE breaker.state = "HALF_OPEN"
    BY <2>5 DEF IInv, BreakerInv
  <2>6. QED
    BY <2>2, <2>3, <2>4, <2>5
<1>2. QED
  BY <1>1, Invariant, PTL DEF Spec, BreakerShields

(* Every approved order keeps, number by number (engine.py:55-249 with       *)
(* schemas.py:248-332 and fees.py): the stop before the liquidation, the     *)
(* reward worth the risk after fees, the caps on margin, leverage, losses,   *)
(* positions and funding, and no bigger bet after a loss.  The two minimal   *)
(* distances to the liquidation it need not keep (LiquidationMarginsKept).   *)
THEOREM ApprovedOrdersAreSound == Spec => []ApprovedOrderIsSound
<1>1. IInv => ApprovedOrderIsSound
  <2> SUFFICES ASSUME IInv, pc = "validated", Approved(verdict) PROVE ApprovedOrderIsSound
    BY DEF ApprovedOrderIsSound, Approved
  <2> DEFINE d == Terms[proposal.terms]
             a == Account(proposal)
             side == IF d.decision = "LONG" THEN 1 ELSE -1
             notional == verdict.margin * verdict.leverage
             paid(exit) == notional * (d.entry * entry_rate(d, a.rates) + exit * a.rates.taker)
             won == notional * 10000 * side * (d.tp - d.entry) - paid(d.tp)
             lost == notional * 10000 * side * (d.entry - d.sl) + paid(d.sl)
             losses == get_loss_totals(a.trades)
             own == {i \in DOMAIN a.trades : a.trades[i].own}
             latest(S, i) == i \in S /\ \A j \in S : j <= i
  <2>1. /\ d \in DecisionFields /\ ValidDecision(d) /\ a \in AccountFields
        /\ verdict = validate(d, a)
    BY Read DEF IInv
  <2>2. /\ d.execute /\ AllPass(d, a)
        /\ verdict.margin = compute_adjusted_margin(d)
        /\ verdict.leverage = compute_adjusted_leverage(d)
        /\ verdict.margin \in Nat \ {0} /\ verdict.margin <= MaxMargin
        /\ verdict.leverage \in Nat \ {0} /\ verdict.leverage <= cap_for_env
        /\ notional \in Nat \ {0}
    BY ApprovalParts DEF IInv
  <2> HIDE DEF d, a, notional
  <2>3. side * d.entry * (100 - side * d.liquidation) < side * 100 * d.sl
    BY <2>1, <2>2, StopBeforeLiquidation DEF AllPass, SideOf
  <2>4. side * d.sl < side * d.entry /\ side * d.entry < side * d.tp
    BY <2>1, <2>2, PricesInOrder DEF SideOf
  <2>5. 100 * won >= MinNetRR * lost
    <3>1. Passes(check_fee_gate(d, a)) /\ notional \in Nat
      BY <2>2 DEF AllPass
    <3>2. a.rates \in [maker : Int, taker : Int] \cup {None}
      BY <2>1 DEF AccountFields
    <3>3. QED
      BY <2>1, <3>1, <3>2, RewardWorthRisk DEF SideOf
  <2>6. verdict.margin \in 1..MaxMargin /\ verdict.leverage \in 1..cap_for_env
    BY <2>2, RiskLimits, CapType
  <2>7. /\ a.count + 1 <= MaxOpen
        /\ 100 * losses.daily < MaxDailyLoss * InitialBalance
        /\ 100 * losses.total < MaxTotalLoss * InitialBalance
        /\ side * a.funding < MaxAdverseFunding
        /\ a.open_pnl # None => a.open_pnl >= 0
    BY <2>1, <2>2, LimitsKept DEF SideOf
  <2>8. \A i \in DOMAIN a.trades : a.trades[i].pnl < 0 =>
            /\ latest(own, i) => verdict.margin <= a.trades[i].margin
            /\ latest(DOMAIN a.trades, i) => verdict.leverage <= a.trades[i].leverage
    <3>1. SUFFICES ASSUME NEW i \in DOMAIN a.trades, a.trades[i].pnl < 0
                   PROVE  /\ latest(own, i) => verdict.margin <= a.trades[i].margin
                          /\ latest(DOMAIN a.trades, i) =>
                                 verdict.leverage <= a.trades[i].leverage
      OBVIOUS
    <3>2. QED
      BY <2>1, <2>2, <3>1, NoBiggerBet
  <2>9. QED
    BY <2>3, <2>4, <2>5, <2>6, <2>7, <2>8 DEF ApprovedOrderIsSound, d, a, notional
<1>2. QED
  BY <1>1, Invariant, PTL
-----------------------------------------------------------------------------
(***************************************************************************)
(* The market turned upside down.  Each signal of the turned market is the   *)
(* negative of what it was, each state of the regime its opposite; then so   *)
(* is the aggregator's conclusion.                                           *)
(***************************************************************************)
(* Mid stays folded in what follows: any price would do.                     *)
LEMMA MidIsPrice == Mid \in Int
  BY DEF Mid

(* A turned candle's prices.                                                 *)
LEMMA TurnedCandle ==
    ASSUME NEW c \in CandleData
    PROVE  /\ Turned(c) \in CandleData
           /\ c.open \in Int /\ c.close \in Int /\ c.high \in Int /\ c.low \in Int
           /\ Turned(c).open = 2 * Mid - c.open /\ Turned(c).close = 2 * Mid - c.close
           /\ Turned(c).high = 2 * Mid - c.low /\ Turned(c).low = 2 * Mid - c.high
  BY MidIsPrice DEF Turned, CandleData

(* The candles of the turned snapshot ...                                    *)
LEMMA MirrorCandles ==
    ASSUME NEW s \in SnapshotFields, NEW tf \in Timeframes
    PROVE  /\ s.candles[tf] \in CandleData
           /\ Mirror(s).candles[tf] = Turned(s.candles[tf])
           /\ Mirror(s).history[tf] = [i \in DOMAIN s.history[tf] |-> Turned(s.history[tf][i])]
  BY DEF Mirror, SnapshotFields

(* ... and the rest of it.                                                   *)
LEMMA MirrorRest ==
    ASSUME NEW s \in SnapshotFields
    PROVE  /\ Mirror(s).last = 2 * Mid - s.last
           /\ Mirror(s).funding = IF s.funding = None THEN None ELSE -s.funding
           /\ Mirror(s).interest = s.interest /\ Mirror(s).volume = s.volume
           /\ Mirror(s).volumes = s.volumes
           /\ Mirror(s).bid = s.bid /\ Mirror(s).ask = s.ask
  BY DEF Mirror, SnapshotFields

(* What is turned, by the name of the timeframe.                             *)
LEMMA MirrorNamed ==
    ASSUME NEW s \in SnapshotFields
    PROVE  /\ s.candles["5m"] \in CandleData /\ s.candles["15m"] \in CandleData
           /\ s.candles["1h"] \in CandleData /\ s.candles["4h"] \in CandleData
           /\ Mirror(s).candles["5m"] = Turned(s.candles["5m"])
           /\ Mirror(s).candles["15m"] = Turned(s.candles["15m"])
           /\ Mirror(s).candles["1h"] = Turned(s.candles["1h"])
           /\ Mirror(s).candles["4h"] = Turned(s.candles["4h"])
  BY MirrorCandles DEF Timeframes
-----------------------------------------------------------------------------
(***************************************************************************)
(* Each signal of the turned market is the opposite one, or as large.        *)
(***************************************************************************)
(* momentum.py: the changes turn.                                            *)
LEMMA MomentumTurns ==
    ASSUME NEW s \in SnapshotFields, MeasuresAlike(s)
    PROVE  calculate_momentum(Mirror(s)) = -calculate_momentum(s)
<1> DEFINE f(x) == [tf \in Timeframes |->
                       tanh((x.candles[tf].close - x.candles[tf].open) * 1000,
                            x.candles[tf].open * _TF_ROC_THRESHOLD[tf])]
<1>1. ASSUME NEW tf \in Timeframes
      PROVE  f(s)[tf] \in Int /\ f(Mirror(s))[tf] = -f(s)[tf]
  <2> DEFINE c == s.candles[tf]
             change == (c.close - c.open) * 1000
             t == _TF_ROC_THRESHOLD[tf]
  <2>1. t \in Int
    BY DEF _TF_ROC_THRESHOLD, Timeframes
  <2>2. /\ c \in CandleData /\ c.open \in Int /\ c.close \in Int
        /\ Mirror(s).candles[tf].open = 2 * Mid - c.open
        /\ Mirror(s).candles[tf].close = 2 * Mid - c.close
    BY MirrorCandles, TurnedCandle
  <2>3. tanh(change, (2 * Mid - c.open) * t) = tanh(change, c.open * t)
    BY DEF MeasuresAlike
  <2> HIDE DEF t
  <2>4. f(s)[tf] = tanh(change, c.open * t)
    BY DEF t
  <2>5. f(Mirror(s))[tf] = tanh(-change, (2 * Mid - c.open) * t)
    <3>1. (2 * Mid - c.close - (2 * Mid - c.open)) * 1000 = -change
      BY <2>2, MidIsPrice
    <3>2. QED
      BY <2>2, <3>1 DEF t
  <2>6. change \in Int /\ (2 * Mid - c.open) * t \in Int /\ c.open * t \in Int
    BY <2>1, <2>2, MidIsPrice
  <2> HIDE DEF c, change, f
  <2>7. QED
    BY <2>3, <2>4, <2>5, <2>6, TanhOdd, TanhRange DEF Within
<1>2. /\ calculate_momentum(s) = Weighted(f(s))
      /\ calculate_momentum(Mirror(s)) = Weighted(f(Mirror(s)))
  BY DEF calculate_momentum
<1> HIDE DEF f
<1>3. QED
  BY <1>1, <1>2, WeightedOdd

(* mean_reversion.py: the distance from the mean turns, the deviation stays. *)
LEMMA MeanReversionTurns ==
    ASSUME NEW s \in SnapshotFields
    PROVE  compute_mean_reversion_signal(Mirror(s)) = -compute_mean_reversion_signal(s)
<1> DEFINE sum(x) == Sum4([tf \in Timeframes |-> x.candles[tf].close])
           variance(x) == Sum4([tf \in Timeframes |-> Square(4 * x.candles[tf].close - sum(x))])
           distance(x) == sum(x) - 4 * x.last
           size(a, v) == IF a >= 9 * v THEN 100 ELSE IF a >= v THEN 76
                         ELSE IF 4 * a >= v THEN 46 ELSE IF a > 0 THEN 10 ELSE 0
           m == Mirror(s)
           a1 == s.candles["5m"].close
           a2 == s.candles["15m"].close
           a3 == s.candles["1h"].close
           a4 == s.candles["4h"].close
<1>1. /\ a1 \in Int /\ a2 \in Int /\ a3 \in Int /\ a4 \in Int /\ s.last \in Int
      /\ m.candles["5m"].close = 2 * Mid - a1 /\ m.candles["15m"].close = 2 * Mid - a2
      /\ m.candles["1h"].close = 2 * Mid - a3 /\ m.candles["4h"].close = 2 * Mid - a4
      /\ m.last = 2 * Mid - s.last
  BY MirrorNamed, MirrorRest, TurnedCandle, SnapshotTypes
<1>2. /\ sum(s) = a1 + a2 + a3 + a4
      /\ sum(m) = m.candles["5m"].close + m.candles["15m"].close
                      + m.candles["1h"].close + m.candles["4h"].close
  BY DEF Sum4, Timeframes
<1>3. /\ variance(s) = Square(4 * a1 - sum(s)) + Square(4 * a2 - sum(s))
                          + Square(4 * a3 - sum(s)) + Square(4 * a4 - sum(s))
      /\ variance(m) = Square(4 * m.candles["5m"].close - sum(m))
                          + Square(4 * m.candles["15m"].close - sum(m))
                          + Square(4 * m.candles["1h"].close - sum(m))
                          + Square(4 * m.candles["4h"].close - sum(m))
  BY DEF Sum4, Timeframes
<1>4. \A x \in {s, m} : compute_mean_reversion_signal(x) =
          IF variance(x) = 0 THEN 0
          ELSE 100 * Sign(distance(x)) * size(4 * Square(distance(x)), variance(x))
  BY DEF compute_mean_reversion_signal
<1> HIDE DEF m, a1, a2, a3, a4
<1>5. sum(s) \in Int /\ sum(m) = 8 * Mid - sum(s)
  <2> HIDE DEF sum
  <2>1. QED
    BY <1>1, <1>2, MidIsPrice
<1>6. distance(s) \in Int /\ distance(m) = -distance(s)
  <2> HIDE DEF sum
  <2>1. QED
    BY <1>1, <1>5, MidIsPrice
<1>7. variance(m) = variance(s)
  <2> HIDE DEF sum, variance
  <2>1. /\ 4 * m.candles["5m"].close - sum(m) = -(4 * a1 - sum(s))
        /\ 4 * m.candles["15m"].close - sum(m) = -(4 * a2 - sum(s))
        /\ 4 * m.candles["1h"].close - sum(m) = -(4 * a3 - sum(s))
        /\ 4 * m.candles["4h"].close - sum(m) = -(4 * a4 - sum(s))
        /\ 4 * a1 - sum(s) \in Int /\ 4 * a2 - sum(s) \in Int
        /\ 4 * a3 - sum(s) \in Int /\ 4 * a4 - sum(s) \in Int
    BY <1>1, <1>5, MidIsPrice
  <2>2. QED
    BY <1>3, <2>1, SquareEven
<1> HIDE DEF variance, distance
<1>8. /\ Square(distance(m)) = Square(distance(s))
      /\ Sign(distance(s)) \in {-1, 0, 1} /\ Sign(distance(m)) = -Sign(distance(s))
  BY <1>6, SquareEven, SignOdd, SignTypes
<1>9. size(4 * Square(distance(s)), variance(s)) \in 0..100
  OBVIOUS
<1> HIDE DEF size
<1>10. compute_mean_reversion_signal(m) = -compute_mean_reversion_signal(s)
  BY <1>4, <1>7, <1>8, <1>9
<1>11. QED
  BY <1>10 DEF m

(* breakout.py: above the range turns into below, the factor stays.          *)
LEMMA BreakoutTurns ==
    ASSUME NEW s \in SnapshotFields, MarketSnapshot(s), MeasuresAlike(s)
    PROVE  /\ calculate_breakout(s) \in Int
           /\ calculate_breakout(Mirror(s)) = -calculate_breakout(s)
<1> DEFINE m == Mirror(s)
           last == s.last
           top == s.candles["4h"].high
           bottom == s.candles["4h"].low
           raw(x) == LET t == x.candles["4h"].high
                         b == x.candles["4h"].low
                     IN  CASE x.last > t -> 100 * tanh(100 * (x.last - t), t)
                           [] x.last < b -> 100 * tanh(100 * (x.last - b), b)
                           [] x.last \in b..t ->
                                  10 * tanh(100 * (2 * x.last - t - b), t + b)
<1>1. /\ top \in Int /\ bottom \in Int /\ last \in Int /\ m.last = 2 * Mid - last
      /\ m.candles["4h"].high = 2 * Mid - bottom /\ m.candles["4h"].low = 2 * Mid - top
  BY MirrorNamed, MirrorRest, TurnedCandle, SnapshotTypes
<1>2. bottom <= top
  <2>1. /\ bottom <= s.candles["4h"].open /\ s.candles["4h"].open <= top
        /\ s.candles["4h"].open \in Int
    BY MirrorNamed, TurnedCandle DEF MarketSnapshot, ohlc_coherence, Timeframes
  <2>2. QED
    BY <1>1, <2>1
<1>3. /\ last > top =>
            tanh(100 * (last - top), 2 * Mid - top) = tanh(100 * (last - top), top)
      /\ last < bottom =>
            tanh(100 * (last - bottom), 2 * Mid - bottom) = tanh(100 * (last - bottom), bottom)
      /\ last \in bottom..top =>
            tanh(100 * (2 * last - top - bottom), 4 * Mid - top - bottom)
                = tanh(100 * (2 * last - top - bottom), top + bottom)
  BY DEF MeasuresAlike
<1>4. /\ calculate_breakout(s) = Quotient(raw(s) * volume_factor(s), 100)
      /\ calculate_breakout(m) = Quotient(raw(m) * volume_factor(m), 100)
  BY DEF calculate_breakout
<1>5. volume_factor(m) = volume_factor(s) /\ volume_factor(s) \in 0..100
  <2>1. \A tf \in Timeframes : s.volumes[tf] >= 0
    BY DEF MarketSnapshot
  <2>2. volume_factor(s) \in 0..100
    BY <2>1, VolumeFactorRange
  <2>3. m.volumes = s.volumes
    BY MirrorRest
  <2> HIDE DEF m
  <2>4. volume_factor(m) = volume_factor(s)
    BY <2>3 DEF volume_factor
  <2>5. QED
    BY <2>2, <2>4
<1>6. raw(s) \in Int /\ raw(m) = -raw(s)
  <2>1. CASE last > top
    <3> DEFINE x == tanh(100 * (last - top), top)
    <3>1. raw(s) = 100 * x
      BY <1>1, <1>2, <2>1
    <3>2. 2 * Mid - last < 2 * Mid - top /\ ~(2 * Mid - last > 2 * Mid - bottom)
      BY <1>1, <1>2, <2>1, MidIsPrice
    <3>3. 100 * (2 * Mid - last - (2 * Mid - top)) = -(100 * (last - top))
      BY <1>1, MidIsPrice
    <3>4. 2 * Mid - last \notin (2 * Mid - top)..(2 * Mid - bottom)
      BY <1>1, <3>2, MidIsPrice
    <3> HIDE DEF m, top, bottom, last
    <3>5. raw(m) = 100 * tanh(-(100 * (last - top)), 2 * Mid - top)
      BY <1>1, <3>2, <3>3, <3>4
    <3>6. tanh(-(100 * (last - top)), 2 * Mid - top) = -x
      <4>1. 100 * (last - top) \in Int /\ 2 * Mid - top \in Int
        BY <1>1, MidIsPrice
      <4>2. QED
        BY <1>3, <2>1, <4>1, TanhOdd
    <3>7. x \in Int
      BY <1>1, TanhRange DEF Within
    <3> HIDE DEF x, raw
    <3>8. QED
      BY <3>1, <3>5, <3>6, <3>7
  <2>2. CASE last < bottom
    <3> DEFINE x == tanh(100 * (last - bottom), bottom)
    <3>1. raw(s) = 100 * x
      BY <1>1, <1>2, <2>2
    <3>2. 2 * Mid - last > 2 * Mid - bottom /\ ~(2 * Mid - last < 2 * Mid - top)
      BY <1>1, <1>2, <2>2, MidIsPrice
    <3>3. 100 * (2 * Mid - last - (2 * Mid - bottom)) = -(100 * (last - bottom))
      BY <1>1, MidIsPrice
    <3>4. 2 * Mid - last \notin (2 * Mid - top)..(2 * Mid - bottom)
      BY <1>1, <3>2, MidIsPrice
    <3> HIDE DEF m, top, bottom, last
    <3>5. raw(m) = 100 * tanh(-(100 * (last - bottom)), 2 * Mid - bottom)
      BY <1>1, <3>2, <3>3, <3>4
    <3>6. tanh(-(100 * (last - bottom)), 2 * Mid - bottom) = -x
      <4>1. 100 * (last - bottom) \in Int /\ 2 * Mid - bottom \in Int
        BY <1>1, MidIsPrice
      <4>2. QED
        BY <1>3, <2>2, <4>1, TanhOdd
    <3>7. x \in Int
      BY <1>1, TanhRange DEF Within
    <3> HIDE DEF x, raw
    <3>8. QED
      BY <3>1, <3>5, <3>6, <3>7
  <2>3. CASE last \in bottom..top
    <3> DEFINE p == 100 * (2 * last - top - bottom)
               x == tanh(p, top + bottom)
    <3>1. raw(s) = 10 * x
      BY <1>1, <1>2, <2>3
    <3>2. /\ ~(2 * Mid - last > 2 * Mid - bottom) /\ ~(2 * Mid - last < 2 * Mid - top)
          /\ 2 * Mid - last \in (2 * Mid - top)..(2 * Mid - bottom)
      BY <1>1, <1>2, <2>3, MidIsPrice
    <3>3. /\ 100 * (2 * (2 * Mid - last) - (2 * Mid - bottom) - (2 * Mid - top)) = -p
          /\ 2 * Mid - bottom + (2 * Mid - top) = 4 * Mid - top - bottom
          /\ p \in Int /\ 4 * Mid - top - bottom \in Int /\ top + bottom \in Int
      BY <1>1, MidIsPrice
    <3>4. tanh(p, 4 * Mid - top - bottom) = x
      BY <1>3, <2>3
    <3> HIDE DEF m, top, bottom, last, p
    <3>5. raw(m) = 10 * tanh(-p, 4 * Mid - top - bottom)
      BY <1>1, <3>2, <3>3
    <3>6. tanh(-p, 4 * Mid - top - bottom) = -x
      BY <3>3, <3>4, TanhOdd
    <3>7. x \in Int
      BY <3>3, TanhRange DEF Within
    <3> HIDE DEF x, raw
    <3>8. QED
      BY <3>1, <3>5, <3>6, <3>7
  <2>4. last > top \/ last < bottom \/ last \in bottom..top
    BY <1>1
  <2> HIDE DEF raw, last, top, bottom
  <2>5. QED
    BY <2>1, <2>2, <2>3, <2>4
<1> HIDE DEF raw
<1>7. PICK v \in Int : v = volume_factor(s)
  BY <1>5
<1>8. raw(m) * v = -(raw(s) * v) /\ raw(s) * v \in Int
  BY <1>6, <1>7
<1>9. calculate_breakout(m) = -calculate_breakout(s) /\ calculate_breakout(s) \in Int
  BY <1>4, <1>5, <1>7, <1>8, QuotientOdd
<1>10. QED
  BY <1>9

(* funding.py and open_interest.py: the rate turns, the interest does not.   *)
LEMMA FundingTurns ==
    ASSUME NEW s \in SnapshotFields
    PROVE  /\ compute_funding_signal(Mirror(s)) = -compute_funding_signal(s)
           /\ compute_open_interest_signal(Mirror(s)) = compute_open_interest_signal(s)
<1>1. compute_funding_signal(Mirror(s)) = -compute_funding_signal(s)
  <2>1. CASE s.funding = None
    <3>1. compute_funding_signal(s) = 0 /\ compute_funding_signal(Mirror(s)) = 0
      BY <2>1, MirrorRest DEF compute_funding_signal
    <3>2. compute_funding_signal(s) \in Int
      BY <3>1
    <3>3. -compute_funding_signal(s) = 0 - compute_funding_signal(s)
      BY <3>2, Negated
    <3>4. QED
      BY <3>1, <3>3
  <2>2. CASE s.funding # None
    <3>1. s.funding \in Int /\ -s.funding \in Int /\ Mirror(s).funding = -s.funding
      BY <2>2, MirrorRest, SnapshotTypes
    <3>2. -s.funding # None
      BY <3>1, NoneIsNoValue
    <3>3. PICK rate \in Int : rate = s.funding
      BY <3>1
    <3>4. 3 \in Int
      OBVIOUS
    <3>5. tanh(-rate, 3) = -tanh(rate, 3) /\ tanh(rate, 3) \in Int
      BY <3>4, TanhOdd, TanhRange DEF Within
    <3>6. /\ compute_funding_signal(s) = -100 * tanh(rate, 3)
          /\ compute_funding_signal(Mirror(s)) = -100 * tanh(-rate, 3)
      BY <2>2, <3>1, <3>2, <3>3 DEF compute_funding_signal
    <3>7. QED
      BY <3>5, <3>6
  <2>3. QED
    BY <2>1, <2>2
<1>2. compute_open_interest_signal(Mirror(s)) = compute_open_interest_signal(s)
  BY MirrorRest DEF compute_open_interest_signal
<1>3. QED
  BY <1>1, <1>2

(* order_flow_imbalance.py: where the candles close in their ranges turns.   *)
LEMMA OrderFlowTurns ==
    ASSUME NEW s \in SnapshotFields, MarketSnapshot(s)
    PROVE  calculate_order_flow_imbalance(Mirror(s)) = -calculate_order_flow_imbalance(s)
<1> DEFINE f(x) == [tf \in Timeframes |-> _candle_ofi(x.candles[tf])]
<1>1. ASSUME NEW c \in CandleData, ohlc_coherence(c)
      PROVE  _candle_ofi(c) \in Int /\ _candle_ofi(Turned(c)) = -_candle_ofi(c)
  <2> DEFINE p == 100 * (2 * c.close - c.high - c.low)
             range == c.high - c.low
  <2>1. /\ Turned(c).high - Turned(c).low = range
        /\ 100 * (2 * Turned(c).close - Turned(c).high - Turned(c).low) = -p
        /\ p \in Int /\ range \in Nat
        /\ (Turned(c).high = Turned(c).low) <=> (c.high = c.low)
        /\ c.high # c.low => range # 0
    <3>1. c.low <= c.high
      BY <1>1, TurnedCandle DEF ohlc_coherence
    <3>2. QED
      BY <3>1, TurnedCandle, MidIsPrice
  <2>2. /\ _candle_ofi(c) = IF c.high = c.low THEN 0 ELSE Quotient(p, range)
        /\ _candle_ofi(Turned(c)) =
               IF Turned(c).high = Turned(c).low THEN 0
               ELSE Quotient(100 * (2 * Turned(c).close - Turned(c).high - Turned(c).low),
                             Turned(c).high - Turned(c).low)
    BY DEF _candle_ofi
  <2> HIDE DEF p, range
  <2>3. CASE c.high = c.low
    <3>1. _candle_ofi(c) = 0 /\ _candle_ofi(Turned(c)) = 0
      BY <2>1, <2>2, <2>3
    <3>2. _candle_ofi(c) \in Int
      BY <3>1
    <3>3. -_candle_ofi(c) = 0 - _candle_ofi(c)
      BY <3>2, Negated
    <3>4. QED
      BY <3>1, <3>2, <3>3
  <2>4. CASE c.high # c.low
    <3>1. _candle_ofi(c) = Quotient(p, range) /\ _candle_ofi(Turned(c)) = Quotient(-p, range)
      BY <2>1, <2>2, <2>4
    <3>2. range \in Nat \ {0}
      BY <2>1, <2>4
    <3>3. QED
      BY <2>1, <3>1, <3>2, QuotientOdd
  <2>5. QED
    BY <2>3, <2>4
<1>2. ASSUME NEW tf \in Timeframes PROVE f(s)[tf] \in Int /\ f(Mirror(s))[tf] = -f(s)[tf]
  <2>1. s.candles[tf] \in CandleData /\ ohlc_coherence(s.candles[tf])
    BY MirrorCandles DEF MarketSnapshot
  <2>2. Mirror(s).candles[tf] = Turned(s.candles[tf])
    BY MirrorCandles
  <2>3. QED
    BY <1>1, <2>1, <2>2
<1>3. /\ calculate_order_flow_imbalance(s) = Weighted(f(s))
      /\ calculate_order_flow_imbalance(Mirror(s)) = Weighted(f(Mirror(s)))
  BY DEF calculate_order_flow_imbalance
<1> HIDE DEF f
<1>4. QED
  BY <1>2, <1>3, WeightedOdd

(* liquidity_sweeps.py: the wicks change places ...                          *)
LEMMA ProxyTurns ==
    ASSUME NEW c \in CandleData, NEW threshold \in Int
    PROVE  _proxy_score(Turned(c), threshold) = -_proxy_score(c, threshold)
<1> DEFINE range(x) == x.high - x.low
           lower(x) == (IF x.open < x.close THEN x.open ELSE x.close) - x.low
           upper(x) == x.high - (IF x.open < x.close THEN x.close ELSE x.open)
           t == Turned(c)
           p == 100 * (Square(lower(c)) - Square(upper(c)))
           q == threshold * Square(range(c))
<1>1. /\ range(c) \in Int /\ lower(c) \in Int /\ upper(c) \in Int
      /\ range(t) = range(c) /\ lower(t) = upper(c) /\ upper(t) = lower(c)
  BY TurnedCandle, MidIsPrice
<1>2. \A x \in {c, t} : _proxy_score(x, threshold) =
          IF range(x) = 0 THEN 0
          ELSE tanh(100 * (Square(lower(x)) - Square(upper(x))), threshold * Square(range(x)))
  BY DEF _proxy_score
<1> HIDE DEF range, lower, upper
<1>3. /\ p \in Int /\ q \in Int
      /\ 100 * (Square(upper(c)) - Square(lower(c))) = -p
  BY <1>1 DEF Square
<1>4. _proxy_score(c, threshold) = IF range(c) = 0 THEN 0 ELSE tanh(p, q)
  BY <1>2
<1>5. _proxy_score(t, threshold) = IF range(c) = 0 THEN 0 ELSE tanh(-p, q)
  BY <1>1, <1>2, <1>3
<1> HIDE DEF p, q, t
<1>6. tanh(-p, q) = -tanh(p, q)
  BY <1>3, TanhOdd
<1>7. CASE range(c) = 0
  <2>1. _proxy_score(c, threshold) = 0 /\ _proxy_score(t, threshold) = 0
    BY <1>4, <1>5, <1>7
  <2>2. _proxy_score(c, threshold) \in Int
    BY <2>1
  <2>3. -_proxy_score(c, threshold) = 0 - _proxy_score(c, threshold)
    BY <2>2, Negated
  <2>4. QED
    BY <2>1, <2>3 DEF t
<1>8. CASE range(c) # 0
  BY <1>4, <1>5, <1>6, <1>8 DEF t
<1>9. QED
  BY <1>7, <1>8

(* ... a swing high turns into a swing low, and the other way round ...      *)
LEMMA SwingsTurn ==
    ASSUME NEW h \in Seq(CandleData), NEW t, t = [i \in DOMAIN h |-> Turned(h[i])]
    PROVE  /\ Len(t) = Len(h)
           /\ _find_swing_lows(t) = {2 * Mid - level : level \in _find_swing_highs(h)}
           /\ _find_swing_highs(t) = {2 * Mid - level : level \in _find_swing_lows(h)}
<1>1. DOMAIN h = 1..Len(h) /\ Len(h) \in Nat
  OBVIOUS
<1>2. ASSUME NEW i \in 1..Len(h)
      PROVE  /\ h[i].high \in Int /\ h[i].low \in Int
             /\ t[i].high = 2 * Mid - h[i].low /\ t[i].low = 2 * Mid - h[i].high
  BY <1>1, TurnedCandle
<1>3. Len(t) = Len(h)
  BY <1>1
<1>4. ASSUME NEW p \in Pivots(h)
      PROVE  p \in 1..Len(h) /\ \A j \in Neighbours(p) : j \in 1..Len(h)
  BY <1>1 DEF Pivots, Neighbours, _SWING_LOOKBACK
<1>5. Pivots(t) = Pivots(h)
  BY <1>3 DEF Pivots
<1> DEFINE lows(x) == {p \in Pivots(x) : \A j \in Neighbours(p) : x[p].low < x[j].low}
           highs(x) == {p \in Pivots(x) : \A j \in Neighbours(p) : x[p].high > x[j].high}
<1>6. lows(t) = highs(h) /\ highs(t) = lows(h)
  <2>1. ASSUME NEW p \in Pivots(h), NEW j \in Neighbours(p)
        PROVE  /\ (t[p].low < t[j].low) <=> (h[p].high > h[j].high)
               /\ (t[p].high > t[j].high) <=> (h[p].low < h[j].low)
    <3>1. p \in 1..Len(h) /\ j \in 1..Len(h)
      BY <1>4
    <3>2. /\ h[p].high \in Int /\ h[p].low \in Int /\ h[j].high \in Int /\ h[j].low \in Int
          /\ t[p].high = 2 * Mid - h[p].low /\ t[p].low = 2 * Mid - h[p].high
          /\ t[j].high = 2 * Mid - h[j].low /\ t[j].low = 2 * Mid - h[j].high
      BY <1>2, <3>1
    <3>3. QED
      BY <3>2, MidIsPrice
  <2>2. QED
    BY <1>5, <2>1
<1>7. \A x \in {h, t} : /\ _find_swing_lows(x) = {x[i].low : i \in lows(x)}
                        /\ _find_swing_highs(x) = {x[i].high : i \in highs(x)}
  BY DEF _find_swing_lows, _find_swing_highs
<1>8. \A i \in lows(h) \cup highs(h) : i \in 1..Len(h)
  BY <1>4
<1> HIDE DEF lows, highs
<1>9. _find_swing_lows(t) = {2 * Mid - level : level \in _find_swing_highs(h)}
  <2>1. _find_swing_lows(t) = {t[i].low : i \in highs(h)}
    BY <1>6, <1>7
  <2>2. \A i \in highs(h) : t[i].low = 2 * Mid - h[i].high
    BY <1>2, <1>8
  <2>3. _find_swing_highs(h) = {h[i].high : i \in highs(h)}
    BY <1>7
  <2>4. ASSUME NEW x PROVE x \in _find_swing_lows(t) <=>
                               x \in {2 * Mid - level : level \in _find_swing_highs(h)}
    <3>1. x \in _find_swing_lows(t) <=> \E i \in highs(h) : x = 2 * Mid - h[i].high
      BY <2>1, <2>2
    <3>2. x \in {2 * Mid - level : level \in _find_swing_highs(h)} <=>
              \E i \in highs(h) : x = 2 * Mid - h[i].high
      BY <2>3
    <3>3. QED
      BY <3>1, <3>2
  <2>5. QED
    BY <2>4
<1>10. _find_swing_highs(t) = {2 * Mid - level : level \in _find_swing_lows(h)}
  <2>1. _find_swing_highs(t) = {t[i].high : i \in lows(h)}
    BY <1>6, <1>7
  <2>2. \A i \in lows(h) : t[i].high = 2 * Mid - h[i].low
    BY <1>2, <1>8
  <2>3. _find_swing_lows(h) = {h[i].low : i \in lows(h)}
    BY <1>7
  <2>4. ASSUME NEW x PROVE x \in _find_swing_highs(t) <=>
                               x \in {2 * Mid - level : level \in _find_swing_lows(h)}
    <3>1. x \in _find_swing_highs(t) <=> \E i \in lows(h) : x = 2 * Mid - h[i].low
      BY <2>1, <2>2
    <3>2. x \in {2 * Mid - level : level \in _find_swing_lows(h)} <=>
              \E i \in lows(h) : x = 2 * Mid - h[i].low
      BY <2>3
    <3>3. QED
      BY <3>1, <3>2
  <2>5. QED
    BY <2>4
<1>11. QED
  BY <1>3, <1>9, <1>10

(* ... at a price again.                                                     *)
LEMMA SwingPrices ==
    ASSUME NEW h \in Seq(CandleData)
    PROVE  _find_swing_lows(h) \subseteq Int /\ _find_swing_highs(h) \subseteq Int
<1>1. ASSUME NEW p \in Pivots(h) PROVE h[p] \in CandleData
  BY DEF Pivots, _SWING_LOOKBACK
<1>2. QED
  BY <1>1 DEF _find_swing_lows, _find_swing_highs, CandleData

(* The levels swept below are those swept above once it is turned.           *)
LEMMA HistoricalTurns ==
    ASSUME NEW c \in CandleData, NEW h \in Seq(CandleData),
           NEW t, t = [i \in DOMAIN h |-> Turned(h[i])],
           /\ \E l \in _find_swing_lows(h) : c.low < l /\ l < c.close
           /\ \E l \in _find_swing_highs(h) : c.close < l /\ l < c.high
           => tanh(c.close - c.low, c.high - c.low) # tanh(c.high - c.close, c.high - c.low)
    PROVE  _historical_score(Turned(c), t) = -_historical_score(c, h)
<1> DEFINE below(x, y) == \E l \in _find_swing_lows(y) : x.low < l /\ l < x.close
           above(x, y) == \E l \in _find_swing_highs(y) : x.close < l /\ l < x.high
           up(x) == tanh(x.close - x.low, x.high - x.low)
           down(x) == tanh(x.high - x.close, x.high - x.low)
           bull == IF below(c, h) THEN up(c) ELSE 0
           bear == IF above(c, h) THEN down(c) ELSE 0
           d == Turned(c)
<1>1. up(c) \in Int /\ down(c) \in Int
  <2>1. c.close - c.low \in Int /\ c.high - c.low \in Int /\ c.high - c.close \in Int
    BY TurnedCandle
  <2>2. QED
    BY <2>1, TanhRange DEF Within
<1>2. up(d) = down(c) /\ down(d) = up(c)
  <2>1. /\ d.close - d.low = c.high - c.close /\ d.high - d.close = c.close - c.low
        /\ d.high - d.low = c.high - c.low
    <3>1. /\ d.close = 2 * Mid - c.close /\ d.low = 2 * Mid - c.high /\ d.high = 2 * Mid - c.low
          /\ c.close \in Int /\ c.high \in Int /\ c.low \in Int
      BY TurnedCandle
    <3> HIDE DEF d
    <3>2. QED
      BY <3>1, MidIsPrice
  <2>2. QED
    BY <2>1
<1>3. below(d, t) <=> above(c, h)
  <2>1. \A l \in _find_swing_highs(h) :
            /\ l \in Int
            /\ d.low < 2 * Mid - l /\ 2 * Mid - l < d.close <=> c.close < l /\ l < c.high
    BY SwingPrices, TurnedCandle, MidIsPrice
  <2>2. _find_swing_lows(t) = {2 * Mid - l : l \in _find_swing_highs(h)}
    BY SwingsTurn
  <2> HIDE DEF d
  <2>3. QED
    BY <2>1, <2>2
<1>4. above(d, t) <=> below(c, h)
  <2>1. \A l \in _find_swing_lows(h) :
            /\ l \in Int
            /\ d.close < 2 * Mid - l /\ 2 * Mid - l < d.high <=> c.low < l /\ l < c.close
    BY SwingPrices, TurnedCandle, MidIsPrice
  <2>2. _find_swing_highs(t) = {2 * Mid - l : l \in _find_swing_lows(h)}
    BY SwingsTurn
  <2> HIDE DEF d
  <2>3. QED
    BY <2>1, <2>2
<1>5. below(c, h) /\ above(c, h) => up(c) # down(c)
  OBVIOUS
<1>6. _historical_score(c, h) = IF bull >= bear THEN bull ELSE -bear
  BY DEF _historical_score
<1>7. _historical_score(d, t) =
          LET b == IF below(d, t) THEN up(d) ELSE 0
              r == IF above(d, t) THEN down(d) ELSE 0
          IN  IF b >= r THEN b ELSE -r
  BY DEF _historical_score
<1> HIDE DEF below, above, up, down, d
<1>8. _historical_score(d, t) = IF bear >= bull THEN bear ELSE -bull
  BY <1>2, <1>3, <1>4, <1>7
<1>9. /\ bull \in Int /\ bear \in Int
      /\ bull = bear => bull + bull = 0
  BY <1>1, <1>5
<1> HIDE DEF bull, bear
<1>10. -bull = 0 - bull /\ -bear = 0 - bear
  BY <1>9, Negated
<1>11. _historical_score(c, h) \in Int
  BY <1>6, <1>9
<1>12. -_historical_score(c, h) = 0 - _historical_score(c, h)
  BY <1>11, Negated
<1>13. _historical_score(d, t) = 0 - _historical_score(c, h)
  BY <1>6, <1>8, <1>9, <1>10
<1>14. QED
  BY <1>12, <1>13 DEF d

(* So the sweeps of the turned market are those of the market, turned.       *)
LEMMA LiquiditySweepsTurn ==
    ASSUME NEW s \in SnapshotFields, SweepsOneSide(s)
    PROVE  calculate_liquidity_sweeps(Mirror(s)) = -calculate_liquidity_sweeps(s)
<1> DEFINE proxy(x, tf) == _proxy_score(x.candles[tf], _TF_SWEEP_THRESHOLD[tf])
           swept(x, tf) == _historical_score(x.candles[tf], x.history[tf])
           f(x) == [tf \in Timeframes |->
                       IF Len(x.history[tf]) >= 2 * _SWING_LOOKBACK + 1
                       THEN 6 * swept(x, tf) + 4 * proxy(x, tf) ELSE 10 * proxy(x, tf)]
           m == Mirror(s)
<1>1. ASSUME NEW tf \in Timeframes PROVE f(s)[tf] \in Int /\ f(m)[tf] = -f(s)[tf]
  <2> DEFINE c == s.candles[tf]
             h == s.history[tf]
  <2>1. /\ c \in CandleData /\ h \in Seq(CandleData)
        /\ m.candles[tf] = Turned(c) /\ m.history[tf] = [i \in DOMAIN h |-> Turned(h[i])]
    BY MirrorCandles DEF SnapshotFields
  <2>2. _TF_SWEEP_THRESHOLD[tf] \in Int
    BY DEF _TF_SWEEP_THRESHOLD, Timeframes
  <2>3. proxy(m, tf) = -proxy(s, tf) /\ proxy(s, tf) \in Int
    BY <2>1, <2>2, ProxyTurns, ProxyRange DEF Within
  <2>4. Len(m.history[tf]) = Len(h)
    BY <2>1, SwingsTurn
  <2>5. swept(m, tf) = -swept(s, tf) /\ swept(s, tf) \in Int
    <3>1. swept(m, tf) = -swept(s, tf)
      BY <2>1, HistoricalTurns DEF SweepsOneSide
    <3>2. swept(s, tf) \in Int
      BY <2>1, HistoricalRange DEF Within
    <3>3. QED
      BY <3>1, <3>2
  <2> HIDE DEF proxy, swept, m
  <2>6. CASE Len(h) >= 2 * _SWING_LOOKBACK + 1
    <3>1. /\ f(s)[tf] = 6 * swept(s, tf) + 4 * proxy(s, tf)
          /\ f(m)[tf] = 6 * swept(m, tf) + 4 * proxy(m, tf)
      BY <2>4, <2>6
    <3> HIDE DEF f
    <3>2. QED
      BY <2>3, <2>5, <3>1
  <2>7. CASE ~(Len(h) >= 2 * _SWING_LOOKBACK + 1)
    <3>1. f(s)[tf] = 10 * proxy(s, tf) /\ f(m)[tf] = 10 * proxy(m, tf)
      BY <2>4, <2>7
    <3> HIDE DEF f
    <3>2. QED
      BY <2>3, <3>1
  <2>8. QED
    BY <2>6, <2>7
<1>2. /\ calculate_liquidity_sweeps(s) = Quotient(Weighted(f(s)), 10)
      /\ calculate_liquidity_sweeps(m) = Quotient(Weighted(f(m)), 10)
  BY DEF calculate_liquidity_sweeps
<1> HIDE DEF f
<1>3. Weighted(f(s)) \in Int /\ Weighted(f(m)) = -Weighted(f(s))
  BY <1>1, WeightedOdd
<1>4. 10 \in Nat \ {0}
  OBVIOUS
<1>5. QED
  BY <1>2, <1>3, <1>4, QuotientOdd
-----------------------------------------------------------------------------
(***************************************************************************)
(* What GPT is shown of the turned market, and what the aggregator answers.  *)
(***************************************************************************)
(* Three timeframes cannot close high and three low.                         *)
LEMMA OneAlignment ==
    ASSUME NEW S \in SUBSET Timeframes, NEW T \in SUBSET Timeframes, S \cap T = {}
    PROVE  Cardinality(S) \in Nat /\ Cardinality(T) \in Nat /\ Cardinality(S) + Cardinality(T) <= 4
<1>1. IsFiniteSet(Timeframes) /\ Cardinality(Timeframes) = 4
  <2>1. IsFiniteSet({"5m"}) /\ Cardinality({"5m"}) = 1
    BY FS_Singleton
  <2>2. IsFiniteSet({"5m"} \cup {"15m"}) /\ Cardinality({"5m"} \cup {"15m"}) = 2
    BY <2>1, FS_AddElement
  <2>3. /\ IsFiniteSet({"5m"} \cup {"15m"} \cup {"1h"})
        /\ Cardinality({"5m"} \cup {"15m"} \cup {"1h"}) = 3
    BY <2>2, FS_AddElement
  <2>4. /\ IsFiniteSet({"5m"} \cup {"15m"} \cup {"1h"} \cup {"4h"})
        /\ Cardinality({"5m"} \cup {"15m"} \cup {"1h"} \cup {"4h"}) = 4
    BY <2>3, FS_AddElement
  <2>5. Timeframes = {"5m"} \cup {"15m"} \cup {"1h"} \cup {"4h"}
    BY DEF Timeframes
  <2>6. QED
    BY <2>4, <2>5
<1>2. IsFiniteSet(S) /\ IsFiniteSet(T)
  BY <1>1, FS_Subset
<1>3. Cardinality(S) \in Nat /\ Cardinality(T) \in Nat
  BY <1>2, FS_CardinalityType
<1>4. Cardinality(S \cup T) = Cardinality(S) + Cardinality(T)
  BY <1>2, <1>3, FS_Union, FS_EmptySet
<1>5. Cardinality(S \cup T) <= Cardinality(Timeframes)
  <2>1. S \cup T \in SUBSET Timeframes
    OBVIOUS
  <2>2. QED
    BY <1>1, <2>1, FS_Subset
<1>6. QED
  BY <1>1, <1>3, <1>4, <1>5

(* rules.py: high closes turn into low ones, bodies and ranges stay.         *)
LEMMA CandleTurns ==
    ASSUME NEW c \in CandleData
    PROVE  /\ _is_bullish_close(Turned(c)) <=> _is_bearish_close(c)
           /\ _is_bearish_close(Turned(c)) <=> _is_bullish_close(c)
           /\ ~(_is_bullish_close(c) /\ _is_bearish_close(c))
           /\ \A n : BodyAtLeast(Turned(c), n) <=> BodyAtLeast(c, n)
           /\ Magnitude(Turned(c).close - Turned(c).open) = Magnitude(c.close - c.open)
           /\ Turned(c).high - Turned(c).low = c.high - c.low
<1>1. /\ c.open \in Int /\ c.close \in Int /\ c.high \in Int /\ c.low \in Int
      /\ Turned(c).open = 2 * Mid - c.open /\ Turned(c).close = 2 * Mid - c.close
      /\ Turned(c).high = 2 * Mid - c.low /\ Turned(c).low = 2 * Mid - c.high
  BY TurnedCandle
<1>2. /\ Turned(c).high - Turned(c).low = c.high - c.low
      /\ (Turned(c).high > Turned(c).low) <=> (c.high > c.low)
      /\ Turned(c).close - Turned(c).low = c.high - c.close
      /\ Turned(c).close - Turned(c).open = -(c.close - c.open)
  BY <1>1, MidIsPrice
<1>3. Magnitude(Turned(c).close - Turned(c).open) = Magnitude(c.close - c.open)
  <2>1. c.close - c.open \in Int
    BY <1>1
  <2>2. QED
    BY <1>2, <2>1, SignOdd
<1>4. \A n : BodyAtLeast(Turned(c), n) <=> BodyAtLeast(c, n)
  BY <1>2, <1>3 DEF BodyAtLeast
<1>5. /\ _is_bullish_close(Turned(c)) <=> _is_bearish_close(c)
      /\ _is_bearish_close(Turned(c)) <=> _is_bullish_close(c)
      /\ ~(_is_bullish_close(c) /\ _is_bearish_close(c))
  BY <1>1, <1>2 DEF _is_bullish_close, _is_bearish_close
<1>6. QED
  BY <1>2, <1>3, <1>4, <1>5

(* The alignment of the timeframes changes sides.                            *)
LEMMA AlignmentTurns ==
    ASSUME NEW s \in SnapshotFields
    PROVE  /\ assess_trend_alignment(s) \in {"BULLISH", "BEARISH", "MIXED", "NEUTRAL"}
           /\ assess_trend_alignment(Mirror(s)) = Exchanged(assess_trend_alignment(s))
<1> DEFINE high(x) == {tf \in Timeframes : _is_bullish_close(x.candles[tf])}
           low(x) == {tf \in Timeframes : _is_bearish_close(x.candles[tf])}
           named(b, r) == CASE b >= 3 -> "BULLISH" [] r >= 3 -> "BEARISH"
                            [] b \in 1..2 /\ r \in 1..2 -> "MIXED" [] OTHER -> "NEUTRAL"
           m == Mirror(s)
<1>1. \A x \in {s, m} : assess_trend_alignment(x) = named(Cardinality(high(x)), Cardinality(low(x)))
  BY DEF assess_trend_alignment
<1>2. high(m) = low(s) /\ low(m) = high(s) /\ high(s) \cap low(s) = {}
  <2>1. ASSUME NEW tf \in Timeframes
        PROVE  /\ _is_bullish_close(m.candles[tf]) <=> _is_bearish_close(s.candles[tf])
               /\ _is_bearish_close(m.candles[tf]) <=> _is_bullish_close(s.candles[tf])
               /\ ~(_is_bullish_close(s.candles[tf]) /\ _is_bearish_close(s.candles[tf]))
    <3>1. s.candles[tf] \in CandleData /\ m.candles[tf] = Turned(s.candles[tf])
      BY MirrorCandles
    <3> HIDE DEF m
    <3>2. QED
      BY <3>1, CandleTurns
  <2> HIDE DEF m
  <2>2. QED
    BY <2>1
<1>3. high(s) \in SUBSET Timeframes /\ low(s) \in SUBSET Timeframes
  OBVIOUS
<1> HIDE DEF high, low, m
<1>4. PICK b \in Nat, r \in Nat :
          b = Cardinality(high(s)) /\ r = Cardinality(low(s)) /\ b + r <= 4
  BY <1>2, <1>3, OneAlignment
<1>5. assess_trend_alignment(s) = named(b, r) /\ assess_trend_alignment(m) = named(r, b)
  BY <1>1, <1>2, <1>4
<1>6. ~(b >= 3 /\ r >= 3)
  BY <1>4
<1>7. /\ named(b, r) \in {"BULLISH", "BEARISH", "MIXED", "NEUTRAL"}
      /\ named(r, b) = Exchanged(named(b, r))
  <2>1. CASE b >= 3 /\ ~(r >= 3)
    <3>1. named(b, r) = "BULLISH" /\ named(r, b) = "BEARISH"
      BY <2>1
    <3>2. QED
      BY <3>1 DEF Exchanged
  <2>2. CASE r >= 3 /\ ~(b >= 3)
    <3>1. named(b, r) = "BEARISH" /\ named(r, b) = "BULLISH"
      BY <2>2
    <3>2. QED
      BY <3>1 DEF Exchanged
  <2>3. CASE ~(b >= 3) /\ ~(r >= 3)
    <3>1. CASE b \in 1..2 /\ r \in 1..2
      <4>1. named(b, r) = "MIXED" /\ named(r, b) = "MIXED"
        BY <2>3, <3>1
      <4>2. QED
        BY <4>1 DEF Exchanged
    <3>2. CASE ~(b \in 1..2 /\ r \in 1..2)
      <4>1. named(b, r) = "NEUTRAL" /\ named(r, b) = "NEUTRAL"
        BY <2>3, <3>2
      <4>2. QED
        BY <4>1 DEF Exchanged
    <3>3. QED
      BY <3>1, <3>2
  <2>4. QED
    BY <1>6, <2>1, <2>2, <2>3
<1>8. QED
  BY <1>5, <1>7 DEF m

(* A rate to be paid by one side is one to be paid by the other.             *)
LEMMA FundingStateTurns ==
    ASSUME NEW s \in SnapshotFields
    PROVE  assess_funding_state(Mirror(s)) = Exchanged(assess_funding_state(s))
<1>1. CASE s.funding = None
  <2>1. assess_funding_state(s) = "NEUTRAL" /\ assess_funding_state(Mirror(s)) = "NEUTRAL"
    BY <1>1, MirrorRest DEF assess_funding_state
  <2>2. QED
    BY <2>1 DEF Exchanged
<1>2. CASE s.funding # None
  <2> DEFINE named(f) == CASE Magnitude(f) >= 20 -> "EXTREME" [] f \in 1..19 -> "POSITIVE"
                           [] -f \in 1..19 -> "NEGATIVE" [] f = 0 -> "NEUTRAL"
  <2>1. PICK f \in Int : f = s.funding
    BY <1>2, SnapshotTypes
  <2>2. PICK g \in Int : g = -f
    BY <2>1
  <2>3. Mirror(s).funding = g /\ g # None
    BY <1>2, <2>1, <2>2, MirrorRest, NoneIsNoValue
  <2>4. assess_funding_state(s) = named(f) /\ assess_funding_state(Mirror(s)) = named(g)
    BY <1>2, <2>1, <2>3 DEF assess_funding_state
  <2>5. Magnitude(g) = Magnitude(f) /\ g + f = 0 /\ -f = 0 - f /\ -g = 0 - g
    BY <2>1, <2>2, SignOdd, Negated
  <2>6. CASE f >= 20 \/ f <= -20
    <3>1. Magnitude(f) >= 20 /\ ~(f \in 1..19) /\ ~(-f \in 1..19) /\ ~(f = 0)
          /\ ~(g \in 1..19) /\ ~(-g \in 1..19) /\ ~(g = 0)
      BY <2>5, <2>6 DEF Magnitude
    <3>2. named(f) = "EXTREME" /\ named(g) = "EXTREME"
      BY <2>5, <3>1
    <3>3. QED
      BY <2>4, <3>2 DEF Exchanged
  <2>7. CASE f \in 1..19
    <3>1. /\ ~(Magnitude(f) >= 20) /\ f \in 1..19 /\ ~(-f \in 1..19) /\ ~(f = 0)
          /\ ~(g \in 1..19) /\ -g \in 1..19 /\ ~(g = 0)
      BY <2>5, <2>7 DEF Magnitude
    <3>2. named(f) = "POSITIVE" /\ named(g) = "NEGATIVE"
      BY <2>5, <3>1
    <3>3. QED
      BY <2>4, <3>2 DEF Exchanged
  <2>8. CASE g \in 1..19
    <3>1. /\ ~(Magnitude(f) >= 20) /\ ~(f \in 1..19) /\ -f \in 1..19 /\ ~(f = 0)
          /\ g \in 1..19 /\ ~(-g \in 1..19) /\ ~(g = 0)
      BY <2>5, <2>8 DEF Magnitude
    <3>2. named(f) = "NEGATIVE" /\ named(g) = "POSITIVE"
      BY <2>5, <3>1
    <3>3. QED
      BY <2>4, <3>2 DEF Exchanged
  <2>9. CASE f = 0
    <3>1. g = 0 /\ -f = 0 - f /\ -g = 0 - g
      BY <2>5, <2>9
    <3>2. /\ ~(Magnitude(f) >= 20) /\ ~(f \in 1..19) /\ ~(-f \in 1..19) /\ f = 0
          /\ ~(g \in 1..19) /\ ~(-g \in 1..19) /\ g = 0
      BY <2>9, <3>1 DEF Magnitude
    <3>3. named(f) = "NEUTRAL" /\ named(g) = "NEUTRAL"
      BY <2>5, <3>2
    <3>4. QED
      BY <2>4, <3>3 DEF Exchanged
  <2>10. f >= 20 \/ f <= -20 \/ f \in 1..19 \/ g \in 1..19 \/ f = 0
    BY <2>5
  <2>11. QED
    BY <2>6, <2>7, <2>8, <2>9, <2>10
<1>3. QED
  BY <1>1, <1>2

(* engine.py of market_regime: the same regime with the sides exchanged.     *)
LEMMA RegimeTurns ==
    ASSUME NEW s \in SnapshotFields, MeasuresAlike(s)
    PROVE  /\ assess(Mirror(s)).primary_regime = assess(s).primary_regime
           /\ assess(Mirror(s)) = [k \in DOMAIN assess(s) |-> Exchanged(assess(s)[k])]
<1> DEFINE m == Mirror(s)
           c == s.candles["1h"]
           t == Turned(c)
           four == s.candles["4h"]
           align(x) == assess_trend_alignment(x)
           extreme(x) == _is_bullish_close(x) \/ _is_bearish_close(x)
           small(x) == 100 * Magnitude(x.close - x.open) <= 35 * (x.high - x.low)
           vol(x) == assess_volatility_state(x)
           Others == {"HIGH_VOLATILITY", "LOW_VOLATILITY", "BREAKOUT", "TRENDING", "RANGING",
                      "UNCLEAR", "HIGH", "LOW", "NORMAL", "UNKNOWN", "STABLE", None}
<1>1. /\ c \in CandleData /\ four \in CandleData
      /\ m.candles["1h"] = t /\ m.candles["4h"] = Turned(four)
  BY MirrorNamed
<1>2. /\ RangeReaches(t, 150) <=> RangeReaches(c, 150)
      /\ RangeReaches(t, 400) <=> RangeReaches(c, 400)
      /\ RangeWithin(t, 30) <=> RangeWithin(c, 30)
  BY DEF MeasuresAlike
<1>3. /\ extreme(t) <=> extreme(c)
      /\ small(t) <=> small(c)
      /\ BodyAtLeast(t, 75) <=> BodyAtLeast(c, 75)
      /\ BodyAtLeast(t, 50) <=> BodyAtLeast(c, 50)
      /\ BodyAtLeast(Turned(four), 40) <=> BodyAtLeast(four, 40)
  BY <1>1, CandleTurns
<1>4. /\ align(s) \in {"BULLISH", "BEARISH", "MIXED", "NEUTRAL"}
      /\ align(m) = Exchanged(align(s))
  BY AlignmentTurns
<1>5. align(m) \in {"BULLISH", "BEARISH"} <=> align(s) \in {"BULLISH", "BEARISH"}
  BY <1>4 DEF Exchanged
<1> HIDE DEF m, c, t, four
<1>6. vol(m) = vol(s) /\ vol(s) \in {"HIGH", "LOW", "NORMAL"}
  BY <1>1, <1>2 DEF assess_volatility_state, c
<1>7. \A x \in {s, m} : classify_primary_regime(x) =
          IF vol(x) = "HIGH" THEN "HIGH_VOLATILITY"
          ELSE IF vol(x) = "LOW" THEN "LOW_VOLATILITY"
          ELSE IF /\ BodyAtLeast(x.candles["1h"], 75) /\ extreme(x.candles["1h"])
                  /\ RangeReaches(x.candles["1h"], 150) THEN "BREAKOUT"
          ELSE IF /\ BodyAtLeast(x.candles["1h"], 50) /\ BodyAtLeast(x.candles["4h"], 40)
                  /\ align(x) \in {"BULLISH", "BEARISH"} THEN "TRENDING"
          ELSE IF ~extreme(x.candles["1h"]) /\ small(x.candles["1h"]) THEN "RANGING"
          ELSE "UNCLEAR"
  BY DEF classify_primary_regime
<1> HIDE DEF extreme, small, vol
<1>8. classify_primary_regime(m) = classify_primary_regime(s)
  BY <1>1, <1>2, <1>3, <1>5, <1>6, <1>7 DEF c, four
<1> DEFINE primary == classify_primary_regime(s)
           second(x) == classify_secondary_regime(primary, vol(s), align(x))
<1>9. primary \in Others
  BY <1>7
<1>10. second(m) = second(s) /\ second(s) \in Others
  BY <1>5 DEF classify_secondary_regime
<1>11. /\ assess_liquidity_state(m) = assess_liquidity_state(s)
       /\ assess_liquidity_state(s) \in Others
       /\ assess_open_interest_state(m) = assess_open_interest_state(s)
       /\ assess_open_interest_state(s) \in Others
  BY MirrorRest DEF assess_liquidity_state, assess_open_interest_state, m
<1>12. assess_funding_state(m) = Exchanged(assess_funding_state(s))
  BY FundingStateTurns DEF m
<1>13. ASSUME NEW x \in Others PROVE Exchanged(x) = x
  <2>1. x \notin {"BULLISH", "BEARISH", "POSITIVE", "NEGATIVE"}
    BY NoneIsNoValue
  <2>2. QED
    BY <2>1 DEF Exchanged
<1>14. /\ assess(s) = [primary_regime |-> primary, secondary_regime |-> second(s),
                       volatility_state |-> vol(s),
                       liquidity_state |-> assess_liquidity_state(s),
                       funding_state |-> assess_funding_state(s),
                       open_interest_state |-> assess_open_interest_state(s),
                       trend_alignment |-> align(s)]
       /\ assess(m) = [primary_regime |-> primary, secondary_regime |-> second(m),
                       volatility_state |-> vol(m),
                       liquidity_state |-> assess_liquidity_state(m),
                       funding_state |-> assess_funding_state(m),
                       open_interest_state |-> assess_open_interest_state(m),
                       trend_alignment |-> align(m)]
  BY <1>6, <1>8 DEF assess, vol
<1>15. vol(s) \in Others
  BY <1>6
<1> HIDE DEF primary, second, align, Others
<1>16. assess(m).primary_regime = assess(s).primary_regime
  BY <1>14
<1>17. assess(m) = [k \in DOMAIN assess(s) |-> Exchanged(assess(s)[k])]
  BY <1>4, <1>6, <1>9, <1>10, <1>11, <1>12, <1>13, <1>14, <1>15
<1>18. QED
  BY <1>16, <1>17 DEF m

(* volatility/engine.py: the score stays, and all that is made of it.        *)
LEMMA VolatilityTurns ==
    ASSUME NEW s \in SnapshotFields, MeasuresAlike(s)
    PROVE  \A k \in {"volatility_score", "volatility_regime", "leverage_cap"} :
               compute_volatility_assessment(Mirror(s))[k] = compute_volatility_assessment(s)[k]
<1>1. volatility_score(Mirror(s)) = volatility_score(s)
  BY DEF MeasuresAlike
<1>2. QED
  BY <1>1 DEF compute_volatility_assessment

(* aggregator.py: the signals are as strong and point the other way.         *)
LEMMA SignalsTurn ==
    ASSUME NEW s \in SnapshotFields, MarketSnapshot(s), MeasuresAlike(s), SweepsOneSide(s)
    PROVE  LET here == compute_quant_signals(s)
               there == compute_quant_signals(Mirror(s))
           IN  /\ _compute_quant_score(there) = _compute_quant_score(here)
               /\ _net_quant_direction(here) \in Int
               /\ _net_quant_direction(there) = -_net_quant_direction(here)
<1> DEFINE m == Mirror(s)
           here == compute_quant_signals(s)
           there == compute_quant_signals(m)
<1>1. /\ calculate_momentum(s) \in Int /\ compute_mean_reversion_signal(s) \in Int
      /\ calculate_breakout(s) \in Int /\ compute_funding_signal(s) \in Int
      /\ calculate_order_flow_imbalance(s) \in Int /\ calculate_liquidity_sweeps(s) \in Int
  BY SignalsWithin DEF Within
<1>2. /\ calculate_momentum(m) = -calculate_momentum(s)
      /\ compute_mean_reversion_signal(m) = -compute_mean_reversion_signal(s)
      /\ calculate_breakout(m) = -calculate_breakout(s)
  BY MomentumTurns, MeanReversionTurns, BreakoutTurns
<1>3. /\ compute_funding_signal(m) = -compute_funding_signal(s)
      /\ compute_open_interest_signal(m) = compute_open_interest_signal(s)
      /\ calculate_order_flow_imbalance(m) = -calculate_order_flow_imbalance(s)
      /\ calculate_liquidity_sweeps(m) = -calculate_liquidity_sweeps(s)
  BY FundingTurns, OrderFlowTurns, LiquiditySweepsTurn
<1> HIDE DEF m
<1>4. \A x \in {s, m} :
          /\ compute_quant_signals(x).momentum = calculate_momentum(x)
          /\ compute_quant_signals(x).mean_reversion = compute_mean_reversion_signal(x)
          /\ compute_quant_signals(x).breakout = calculate_breakout(x)
          /\ compute_quant_signals(x).funding = compute_funding_signal(x)
          /\ compute_quant_signals(x).open_interest = compute_open_interest_signal(x)
          /\ compute_quant_signals(x).order_flow = calculate_order_flow_imbalance(x)
          /\ compute_quant_signals(x).liquidity_sweep = calculate_liquidity_sweeps(x)
  BY DEF compute_quant_signals
<1>5. _compute_quant_score(there) = _compute_quant_score(here)
  <2>1. /\ Magnitude(there.momentum) = Magnitude(here.momentum)
        /\ Magnitude(there.mean_reversion) = Magnitude(here.mean_reversion)
        /\ Magnitude(there.breakout) = Magnitude(here.breakout)
    BY <1>1, <1>2, <1>4, SignOdd
  <2>2. /\ Magnitude(there.funding) = Magnitude(here.funding)
        /\ there.open_interest = here.open_interest
        /\ Magnitude(there.order_flow) = Magnitude(here.order_flow)
        /\ Magnitude(there.liquidity_sweep) = Magnitude(here.liquidity_sweep)
    BY <1>1, <1>3, <1>4, SignOdd
  <2> HIDE DEF here, there
  <2>3. QED
    BY <2>1, <2>2 DEF _compute_quant_score
<1>6. /\ _net_quant_direction(here) \in Int
      /\ _net_quant_direction(there) = -_net_quant_direction(here)
  <2>1. /\ here.momentum \in Int /\ here.mean_reversion \in Int /\ here.breakout \in Int
        /\ there.momentum = -here.momentum /\ there.mean_reversion = -here.mean_reversion
        /\ there.breakout = -here.breakout
    BY <1>1, <1>2, <1>4
  <2> HIDE DEF here, there
  <2>2. QED
    BY <2>1 DEF _net_quant_direction
<1>7. QED
  BY <1>5, <1>6 DEF m

(* The opposite answer, on the turned market, ends the opposite way.         *)
LEMMA AggregateTurns ==
    ASSUME NEW s \in SnapshotFields, MarketSnapshot(s), MeasuresAlike(s), SweepsOneSide(s),
           NEW answer \in AnswerFields
    PROVE  aggregate([answer EXCEPT !.decision = Opposite(answer.decision)], Mirror(s))
               = Opposite(aggregate(answer, s))
<1> DEFINE m == Mirror(s)
           other == [answer EXCEPT !.decision = Opposite(answer.decision)]
           here == compute_quant_signals(s)
           there == compute_quant_signals(m)
           weak(a, x, quant) == aggregated_score(a, x, quant) < 7 * 5000
<1>1. answer.decision \in {"LONG", "SHORT", "NO_OPERAR"}
  BY DEF AnswerFields, Directions
<1>2. other.decision = Opposite(answer.decision) /\ other.confidence = answer.confidence
  BY DEF AnswerFields
<1>3. /\ _compute_quant_score(there) = _compute_quant_score(here)
      /\ _net_quant_direction(here) \in Int
      /\ _net_quant_direction(there) = -_net_quant_direction(here)
  BY SignalsTurn
<1>4. /\ assess(m).primary_regime = assess(s).primary_regime
      /\ compute_volatility_assessment(m).volatility_score
            = compute_volatility_assessment(s).volatility_score
  BY RegimeTurns, VolatilityTurns
<1>5. /\ aggregate(answer, s) =
             IF \/ answer.decision = "NO_OPERAR" \/ _detect_contradictions(answer, here)
                \/ weak(answer, s, here)
             THEN "NO_OPERAR" ELSE answer.decision
      /\ aggregate(other, m) =
             IF \/ other.decision = "NO_OPERAR" \/ _detect_contradictions(other, there)
                \/ weak(other, m, there)
             THEN "NO_OPERAR" ELSE other.decision
  BY DEF aggregate
<1> HIDE DEF m, other, here, there
<1>6. weak(other, m, there) <=> weak(answer, s, here)
  BY <1>2, <1>3, <1>4 DEF aggregated_score
<1> HIDE DEF weak
<1>7. _detect_contradictions(other, there) <=> _detect_contradictions(answer, here)
  <2>1. /\ _net_quant_direction(there) < -3 * 2000 <=> _net_quant_direction(here) > 3 * 2000
        /\ _net_quant_direction(there) > 3 * 2000 <=> _net_quant_direction(here) < -3 * 2000
    BY <1>3
  <2>2. /\ other.decision = "LONG" <=> answer.decision = "SHORT"
        /\ other.decision = "SHORT" <=> answer.decision = "LONG"
    BY <1>1, <1>2 DEF Opposite
  <2>3. QED
    BY <1>2, <1>3, <2>1, <2>2 DEF _detect_contradictions
<1>8. aggregate(other, m) = Opposite(aggregate(answer, s))
  <2>1. CASE answer.decision = "NO_OPERAR"
    BY <1>2, <1>5, <2>1 DEF Opposite
  <2>2. CASE answer.decision # "NO_OPERAR"
    <3>1. other.decision # "NO_OPERAR"
      BY <1>1, <1>2, <2>2 DEF Opposite
    <3>2. QED
      BY <1>2, <1>5, <1>6, <1>7, <2>2, <3>1 DEF Opposite
  <2>3. QED
    BY <2>1, <2>2
<1>9. QED
  BY <1>8 DEF m, other
-----------------------------------------------------------------------------
(* Until the gate, final_action is what the aggregator made of its input.    *)
DecidedInv ==
    pc = "aggregated" => final.decision = aggregate(input.answer, Snapshots[input.snapshot])

(* Only the aggregator writes it, with what it has read.                     *)
LEMMA DecidedStep == DecidedInv /\ [Next]_vars => DecidedInv'
<1> SUFFICES ASSUME DecidedInv, [Next]_vars PROVE DecidedInv'
  OBVIOUS
<1>1. CASE Aggregate
  BY <1>1 DEF Aggregate, DecidedInv
<1>2. CASE UNCHANGED vars
  BY <1>2 DEF vars, risk, DecidedInv
<1>3. CASE Before
  BY <1>3, BeforeReads DEF DecidedInv
<1>4. CASE Gate \/ Validate \/ Execute \/ Finish
  <2>1. pc' # "aggregated"
    BY <1>4 DEF Gate, Validate, Execute, Finish
  <2>2. QED
    BY <2>1 DEF DecidedInv
<1>5. QED
  BY <1>1, <1>2, <1>3, <1>4, Steps

(* On the market turned upside down and the opposite answer the aggregator   *)
(* comes to the opposite conclusion, and GPT had been shown the same regime  *)
(* and volatility with the directions exchanged (aggregator.py:121-290):     *)
(* wherever the measures that divide by a price are what they were.          *)
THEOREM SidesAreAlike ==
    ASSUME \A k \in Delivered : MeasuresAlike(Snapshots[k]) /\ SweepsOneSide(Snapshots[k])
    PROVE  Spec => []SidesAlike
<1>1. ReadInv /\ DecidedInv => SidesAlike
  <2> SUFFICES ASSUME ReadInv, DecidedInv, pc = "aggregated" PROVE SidesAlike
    BY DEF SidesAlike
  <2> DEFINE s == Snapshots[input.snapshot]
             answer == input.answer
             here == Shown(s)
             there == Shown(Mirror(s))
  <2>1. input.snapshot \in Delivered /\ answer \in Answers
    BY DEF ReadInv
  <2>2. /\ s \in SnapshotFields /\ MarketSnapshot(s) /\ answer \in AnswerFields
        /\ MeasuresAlike(s) /\ SweepsOneSide(s)
    BY <2>1, InputsTyped DEF Delivered
  <2>3. final.decision = aggregate(answer, s)
    BY DEF DecidedInv
  <2> HIDE DEF s, answer
  <2>4. aggregate([answer EXCEPT !.decision = Opposite(answer.decision)], Mirror(s))
            = Opposite(final.decision)
    BY <2>2, <2>3, AggregateTurns
  <2>5. there.regime = [k \in DOMAIN here.regime |-> Exchanged(here.regime[k])]
    BY <2>2, RegimeTurns DEF Shown
  <2>6. \A k \in {"volatility_regime", "leverage_cap"} :
            there.volatility[k] = here.volatility[k]
    BY <2>2, VolatilityTurns DEF Shown
  <2>7. QED
    BY <2>4, <2>5, <2>6 DEF SidesAlike, s, answer
<1>2. Init => DecidedInv
  BY DEF Init, DecidedInv
<1>3. Spec => []DecidedInv
  BY <1>2, DecidedStep, PTL DEF Spec
<1>4. IInv => ReadInv
  BY DEF IInv
<1>5. QED
  BY <1>1, <1>3, <1>4, Invariant, PTL
=============================================================================
