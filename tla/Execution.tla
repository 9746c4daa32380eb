------------------------------ MODULE Execution ------------------------------
(***************************************************************************)
(* Opening positions: the part of CycleRunner._tick from the market data to *)
(* the decision pipeline, with the ExecutionEngine (execution/engine.py),   *)
(* the PaperAdapter it trades with, and the reconciliation engine and gate  *)
(* (reconciliation/) that compare what the exchange and the database say.   *)
(* The worker is one thread, but a place_order that times out goes on in a  *)
(* thread nobody waits for.  GPT chooses the decision id and nothing checks *)
(* that it is new: a decision may carry any.                                *)
(* Quantities, prices and sides are left out: an entry opens the position   *)
(* of its symbol or, netted or flipped, leaves it open.                     *)
(***************************************************************************)
EXTENDS Naturals, FiniteSets

CONSTANTS
    Symbols,        \* trading.allowed_symbols
    Decisions,      \* decision ids, which are the client order ids
    None,           \* Python's None
    MaxOpen,        \* risk.max_open_positions
    MaxDbErrors,    \* bound: database errors
    MaxTimeouts,    \* bound: place_order calls that time out
    MaxFetchErrors, \* bound: reconciliations with an unanswered query
    MaxRefusals     \* bound: exit plans refused after the fill

ASSUME SymbolsFinite == IsFiniteSet(Symbols)
ASSUME ExecutionBounds ==
    /\ MaxOpen \in Nat /\ MaxDbErrors \in Nat /\ MaxTimeouts \in Nat
    /\ MaxFetchErrors \in Nat /\ MaxRefusals \in Nat

VARIABLES
    orders,      \* adapter: orders by client order id (_orders)
    open,        \* adapter: symbols with a position (_positions)
    db,          \* committed rows of orders
    tracked,     \* symbols with a committed OPEN row in positions
    plans,       \* symbols with a PositionConfig in the PositionManager
    mode,        \* state of the bot: "ACTIVE" or "SAFE_MODE"
    pc,          \* where the worker is
    tick,        \* the locals of _tick, see Tick
    call,        \* the place_order call the worker waits for, or its result
    orphans,     \* calls that have timed out and whose thread goes on
    faults,      \* what has gone wrong so far, by kind; plan: exit plans refused
    fills,       \* observation: orders the adapter has created, by id
    late         \* observation: positions orphans have opened

exchange == <<orders, open, fills, late>>
rows == <<db, tracked>>
vars == <<exchange, rows, plans, mode, pc, tick, call, orphans, faults>>

(* count: open_positions_count of the snapshots; todo: symbols with a snapshot, not  *)
(* yet processed; unverified: failed_symbols of the reconciliation; reliable: was it *)
(* complete; opened: _opened_this_tick.  exposed is an observation: the positions    *)
(* without a plan that the gate could see, if SAFE_MODE could be written.            *)
Tick ==
    [count : 0..Cardinality(Symbols), todo : SUBSET Symbols, unverified : SUBSET Symbols,
     reliable : BOOLEAN, opened : Nat, exposed : SUBSET Symbols]
NoTick ==
    [count |-> 0, todo |-> {}, unverified |-> {}, reliable |-> TRUE, opened |-> 0,
     exposed |-> {}]

OrderResult == [symbol : Symbols, status : {"FILLED", "PENDING"}]

(* The row keeps what the adapter answered; client_order_id is unique.       *)
OrderRows == [Decisions -> OrderResult \cup {None}]
Pcs == {"market", "positions", "gate", "pipeline", "placing", "persist"}
Call ==
    [id : Decisions, symbol : Symbols, market : BOOLEAN, checked : BOOLEAN,
     result : OrderResult \cup {None}]

Faults ==
    [db : 0..MaxDbErrors, timeout : 0..MaxTimeouts, fetch : 0..MaxFetchErrors,
     plan : 0..MaxRefusals]

ASSUME NoneIsNoRecord == None \notin OrderResult /\ None \notin Call

(* The types; the worker holds a call while it places and persists, and a       *)
(* result only when it persists.                                                *)
TypeOK ==
    /\ orders \in [Decisions -> OrderResult \cup {None}]
    /\ db \in OrderRows
    /\ open \subseteq Symbols /\ tracked \subseteq Symbols /\ plans \subseteq Symbols
    /\ mode \in {"ACTIVE", "SAFE_MODE"}
    /\ pc \in Pcs
    /\ tick \in Tick
    /\ late \in Nat
    /\ call \in Call \cup {None}
    /\ (call # None) = (pc \in {"placing", "persist"})
    /\ call # None => (call.result # None) = (pc = "persist")
    /\ orphans \subseteq [call : Call, n : 1..MaxTimeouts]
    /\ faults \in Faults
    /\ fills \in [Decisions -> Nat]

Init ==
    /\ orders = [d \in Decisions |-> None] /\ db = [d \in Decisions |-> None]
    /\ open = {} /\ tracked = {} /\ plans = {}
    /\ mode = "ACTIVE" /\ pc = "market"
    /\ tick = NoTick
    /\ call = None /\ orphans = {}
    /\ faults = [db |-> 0, timeout |-> 0, fetch |-> 0, plan |-> 0]
    /\ fills = [d \in Decisions |-> 0] /\ late = 0

(* The next symbol of the tick's pipeline, or the next tick: the locals go.  *)
NextSymbol(t) ==
    IF t.todo = {} THEN pc' = "market" /\ tick' = NoTick
    ELSE pc' = "pipeline" /\ tick' = t

DbError ==
    /\ faults.db < MaxDbErrors
    /\ faults' = [faults EXCEPT !.db = @ + 1]
-----------------------------------------------------------------------------
(***************************************************************************)
(* The start of the tick.                                                   *)
(***************************************************************************)
(* MarketDataCycleService.tick_all: the account is read once, before the    *)
(* symbols are fetched; any of them may fail or be rejected.                *)
TickMarketData ==
    /\ pc = "market"
    /\ \E S \in SUBSET Symbols :
          tick' = [NoTick EXCEPT !.count = Cardinality(open), !.todo = S]
    /\ pc' = "positions"
    /\ UNCHANGED <<exchange, rows, plans, mode, call, orphans, faults>>

(* PositionTickService.tick_all: any of the plans may close its position; a  *)
(* plan goes with its position, and one without a position when its symbol  *)
(* is ticked.  No row of the position is updated.                           *)
TickPositions ==
    /\ pc = "positions"
    /\ \E closed \in SUBSET (open \cap plans), stale \in SUBSET (plans \ open) :
           /\ open' = open \ closed
           /\ plans' = plans \ (closed \cup stale)
    /\ pc' = "gate"
    /\ UNCHANGED <<orders, fills, late, rows, mode, tick, call, orphans, faults>>
-----------------------------------------------------------------------------
(***************************************************************************)
(* ReconciliationEngine and ReconciliationGate.                             *)
(***************************************************************************)
(* _reconcile_positions, for the symbols whose position could be read.      *)
_reconcile_positions(failed) ==
    [symbol : (open \ tracked) \ failed, type : {"MISSING_IN_DB"}]
        \cup [symbol : (tracked \ open) \ failed, type : {"MISSING_IN_ADAPTER"}]
        \cup [symbol : ((open \cap tracked) \ plans) \ failed, type : {"MISSING_PROTECTION"}]

(* _reconcile_orders: live orders against rows.  An order is PENDING on both *)
(* sides or on neither, so MISSING_IN_DB is the only difference left.       *)
_reconcile_orders(failed) ==
    {d \in Decisions :
        orders[d] # None /\ orders[d].status = "PENDING" /\ orders[d].symbol \notin failed
            /\ db[d] = None}

\* Fault: a position without a plan does not block.
reasons_unprotected_allowed(failed, balanceFailed) ==
    \/ balanceFailed
    \/ _reconcile_orders(failed) # {}
    \/ \E p \in _reconcile_positions(failed) : p.type = "MISSING_IN_DB"

\* Fault: rows that are OPEN without a position block as well.
reasons_any_discrepancy(failed, balanceFailed) ==
    balanceFailed \/ _reconcile_orders(failed) # {} \/ _reconcile_positions(failed) # {}

(* ReconciliationGate._blocking_reasons, with every flag of its config on.  *)
_blocking_reasons(failed, balanceFailed) ==
    \/ balanceFailed
    \/ _reconcile_orders(failed) # {}
    \/ \E p \in _reconcile_positions(failed) :
           p.type \in {"MISSING_IN_DB", "MISSING_PROTECTION"}

(* reconcile: the symbols whose position or orders could not be read, and    *)
(* whether the balance could not.                                            *)
reconcile == [failed : SUBSET Symbols, balanceFailed : BOOLEAN]

is_complete(report) == report.failed = {} /\ ~report.balanceFailed

(* run_and_enforce.  A failed symbol is skipped by the report and by the     *)
(* pipeline; reasons block only if the bot is ACTIVE, and a database error   *)
(* while SAFE_MODE is written lets the tick go on as it is.                  *)
Gate ==
    /\ pc = "gate"
    /\ \E report \in reconcile :
          LET complete == is_complete(report)
              blocks == mode = "ACTIVE" /\ _blocking_reasons(report.failed, report.balanceFailed)
              asked == [faults EXCEPT !.fetch = IF complete THEN @ ELSE @ + 1]
              reconciled(exposed) ==
                  NextSymbol([tick EXCEPT !.unverified = report.failed, !.reliable = complete,
                                          !.exposed = exposed])
          IN  /\ asked.fetch <= MaxFetchErrors
              /\ \/ /\ mode' = IF blocks THEN "SAFE_MODE" ELSE mode
                    /\ faults' = asked
                    /\ reconciled((open \ plans) \ report.failed)
                 \/ /\ blocks /\ faults.db < MaxDbErrors
                    /\ faults' = [asked EXCEPT !.db = @ + 1]
                    /\ mode' = mode
                    /\ reconciled({})
    /\ UNCHANGED <<exchange, rows, plans, call, orphans>>
-----------------------------------------------------------------------------
(***************************************************************************)
(* The decision pipeline, one symbol at a time.                             *)
(***************************************************************************)
(* The state does not allow entries, the symbol could not be verified, or    *)
(* GPT, the Aggregator or the Risk Engine does not approve.                  *)
SymbolSkipped ==
    /\ pc = "pipeline"
    /\ \E s \in tick.todo : NextSymbol([tick EXCEPT !.todo = @ \ {s}])
    /\ UNCHANGED <<exchange, rows, plans, mode, call, orphans, faults>>

\* Fault: only the snapshot's count is compared.
positions_limit_stale == tick.reliable /\ tick.count < MaxOpen

(* check_max_open_positions, with the count of _process_symbol: None, and a  *)
(* BLOCK, when the reconciliation was not complete.                          *)
check_max_open_positions == tick.reliable /\ tick.count + tick.opened < MaxOpen

\* Fault: a state that does not allow entries stops nothing.
MayEnterAlways(s) == s \notin tick.unverified

(* _run_decision_pipeline: can_trade and the symbols not verified.           *)
MayEnter(s) == mode = "ACTIVE" /\ s \notin tick.unverified

\* Fault: the row of an earlier execution is not looked up.
NeverExecuted(d) == FALSE

(* get_by_client_order_id: the decision has an order already.                *)
AlreadyExecuted(d) == db[d] # None

(* The Risk Engine approves an entry of symbol s.  The attempt is counted     *)
(* before anything else, and stays counted whatever comes of it: PaperAdapter *)
(* answers FILLED or PENDING, never the CANCELLED or FAILED that would take  *)
(* it back.  The symbol is the snapshot's (the slippage estimate raises for   *)
(* any other), the id is any.                                                *)
Approved(s) ==
    /\ pc = "pipeline" /\ s \in tick.todo
    /\ check_max_open_positions
    /\ MayEnter(s)
Counted(s) == [tick EXCEPT !.todo = @ \ {s}, !.opened = @ + 1]

(* The order of the decision is recorded: its row is the answer.             *)
Replay ==
    /\ \E s \in Symbols, d \in Decisions :
          Approved(s) /\ AlreadyExecuted(d) /\ NextSymbol(Counted(s))
    /\ UNCHANGED <<exchange, rows, plans, mode, call, orphans, faults>>

(* It ends in an error before it is sent: entry_type, price, no ATR, margin   *)
(* type, leverage.                                                           *)
NotSent ==
    /\ \E s \in Symbols, d \in Decisions :
          Approved(s) /\ ~AlreadyExecuted(d) /\ NextSymbol(Counted(s))
    /\ UNCHANGED <<exchange, rows, plans, mode, call, orphans, faults>>

Send ==
    /\ \E s \in Symbols, d \in Decisions, market \in BOOLEAN :
          /\ Approved(s) /\ ~AlreadyExecuted(d)
          /\ call' = [id |-> d, symbol |-> s, market |-> market,
                      checked |-> FALSE, result |-> None]
          /\ tick' = Counted(s)
    /\ pc' = "placing"
    /\ UNCHANGED <<exchange, rows, plans, mode, orphans, faults>>
-----------------------------------------------------------------------------
(***************************************************************************)
(* PaperAdapter.place_order, in the executor's thread: the look-up of the    *)
(* client order id, then the fill or the pending order.                      *)
(***************************************************************************)
\* Fault: the adapter does not look the id up.
UnknownAlways(c) == TRUE

Unknown(c) == orders[c.id] = None

(* _fill_market_order or _register_pending_order, and _orders[id] = result.  *)
Filled(c) == [symbol |-> c.symbol, status |-> IF c.market THEN "FILLED" ELSE "PENDING"]

\* Fault: positions are kept by order id.
FillById(c) ==
    /\ orders' = [orders EXCEPT ![c.id] = Filled(c)]
    /\ open' = IF c.market THEN open \cup {c.id} ELSE open
    /\ fills' = [fills EXCEPT ![c.id] = @ + 1]

Fill(c) ==
    /\ orders' = [orders EXCEPT ![c.id] = Filled(c)]
    /\ open' = IF c.market THEN open \cup {c.symbol} ELSE open
    /\ fills' = [fills EXCEPT ![c.id] = @ + 1]

PlaceLooksUp ==
    /\ pc = "placing" /\ ~call.checked
    /\ IF Unknown(call)
       THEN call' = [call EXCEPT !.checked = TRUE] /\ pc' = pc
       ELSE call' = [call EXCEPT !.result = orders[call.id]] /\ pc' = "persist"
    /\ UNCHANGED <<exchange, rows, plans, mode, tick, orphans, faults>>

PlaceFills ==
    /\ pc = "placing" /\ call.checked
    /\ Fill(call)
    /\ call' = [call EXCEPT !.result = Filled(call)]
    /\ pc' = "persist"
    /\ UNCHANGED <<late, rows, plans, mode, tick, orphans, faults>>

(* _place_order_with_timeout: the executor is replaced, its thread goes on,  *)
(* and the ExecutionTimeoutError rolls the symbol's SAVEPOINT back.          *)
PlaceTimesOut ==
    /\ pc = "placing"
    /\ faults.timeout < MaxTimeouts
    /\ faults' = [faults EXCEPT !.timeout = @ + 1]
    /\ orphans' = orphans \cup {[call |-> call, n |-> faults.timeout + 1]}
    /\ call' = None
    /\ NextSymbol(tick)
    /\ UNCHANGED <<exchange, rows, plans, mode>>

OrphanLooksUp ==
    /\ \E o \in orphans :
          /\ ~o.call.checked
          /\ orphans' = (orphans \ {o}) \cup
                (IF Unknown(o.call) THEN {[o EXCEPT !.call.checked = TRUE]} ELSE {})
    /\ UNCHANGED <<exchange, rows, plans, mode, pc, tick, call, faults>>

OrphanFills ==
    /\ \E o \in orphans :
          /\ o.call.checked
          /\ Fill(o.call)
          /\ late' = IF open' = open THEN late ELSE late + 1
          /\ orphans' = orphans \ {o}
    /\ UNCHANGED <<rows, plans, mode, pc, tick, call, faults>>
-----------------------------------------------------------------------------
(***************************************************************************)
(* The rest of execute_approved_plan.                                        *)
(***************************************************************************)
\* Fault: a symbol whose OPEN row is there is taken to have its plan.
RegisterNewSymbols(symbol) == IF symbol \in tracked THEN plans ELSE plans \cup {symbol}

(* _register_position_manager, PositionManager.set_config.                   *)
_register_position_manager(symbol) == plans \cup {symbol}

(* _persist_order, _persist_trade and _persist_position.                     *)
_persist_order(id, result) == [db EXCEPT ![id] = result]
_persist_position(symbol) == tracked \cup {symbol}

(* The rows are committed: the order's, and those of its position if filled. *)
PersistDone ==
    /\ pc = "persist"
    /\ db' = _persist_order(call.id, call.result)
    /\ IF call.result.status = "FILLED"
       THEN /\ tracked' = _persist_position(call.symbol)
            /\ plans' = _register_position_manager(call.symbol)
       ELSE UNCHANGED <<tracked, plans>>
    /\ call' = None
    /\ NextSymbol(tick)
    /\ UNCHANGED <<exchange, mode, orphans, faults>>

(* build_position_config: PositionConfig takes no ATR of 0, and the checks    *)
(* before the order let it pass (only None is refused).  The exception ends   *)
(* the symbol with the order on the exchange and the rows rolled back.       *)
PlanRefused ==
    /\ pc = "persist"
    /\ call.result.status = "FILLED"
    /\ faults.plan < MaxRefusals
    /\ faults' = [faults EXCEPT !.plan = @ + 1]
    /\ call' = None
    /\ NextSymbol(tick)
    /\ UNCHANGED <<exchange, rows, plans, mode, orphans>>

(* A flush fails, before the plan is registered, or the commit does, after:  *)
(* the rows are rolled back, the exchange's order and the plan are not.      *)
PersistFails ==
    /\ pc = "persist"
    /\ DbError
    /\ \/ plans' = plans
       \/ call.result.status = "FILLED" /\ plans' = _register_position_manager(call.symbol)
    /\ call' = None
    /\ NextSymbol(tick)
    /\ UNCHANGED <<exchange, rows, mode, orphans>>
-----------------------------------------------------------------------------
Worker ==
    \/ TickMarketData \/ TickPositions \/ Gate \/ SymbolSkipped \/ Replay \/ NotSent \/ Send
    \/ PlaceLooksUp \/ PlaceFills \/ PlaceTimesOut \/ PersistDone \/ PlanRefused
    \/ PersistFails

Next == Worker \/ OrphanLooksUp \/ OrphanFills

Spec == Init /\ [][Next]_vars

(* The loop keeps ticking: nothing else keeps the worker from its next step. *)
FairSpec == Spec /\ WF_vars(Worker)
-----------------------------------------------------------------------------
(***************************************************************************)
(* Properties.                                                               *)
(***************************************************************************)
(* max_open_positions holds although the positions are counted once, before  *)
(* any symbol of the tick is processed, and the executions in between may    *)
(* end unknown: only a position opened by a thread that had timed out can    *)
(* come on top (cycle_runner.py:338-341, 600-616).                           *)
OpenBounded == Cardinality(open) <= MaxOpen + late

(* A decision that comes back, after a failure of the database or with its   *)
(* first call still running, is filled again only if a call has timed out:   *)
(* the adapter's memory covers for the row that was not committed            *)
(* (engine.py:118-138, paper_adapter.py:123-130).                            *)
FilledOnce == \A d \in Decisions : fills[d] <= 1 + faults.timeout

(* An order is not sent twice, whatever times out or comes back: what the    *)
(* decision record on the idempotency of orders asks for                     *)
(* (docs/decisions/F10-05-order-idempotency.md:11).                          *)
NeverFilledTwice == \A d \in Decisions : fills[d] <= 1

(* Every open position has an exit plan, except one per call that timed out,  *)
(* per failure of the database between the fill and the commit, and per plan  *)
(* that PositionConfig refused once the order was filled (engine.py:177-223). *)
CoveredUnlessFault ==
    pc # "persist" =>
        Cardinality(open \ plans) <= faults.db + faults.timeout + faults.plan

(* A tick whose reconciliation sees a position without an exit plan sends no *)
(* order, unless the write of SAFE_MODE failed (gate.py:127-172).            *)
NoEntryOverUnprotected == pc = "placing" => tick.exposed = {}

(* The gate stops nothing by itself: SAFE_MODE follows a failure of the      *)
(* database, a timeout, an unanswered query or a refused plan, however       *)
(* positions and rows come and go, the rows that stay OPEN included          *)
(* (gate.py:174-207).                                                        *)
NoFalseAlarm == mode = "SAFE_MODE" => \E k \in DOMAIN faults : faults[k] > 0

(* A position that has lost its exit plan, or never got one, does not go     *)
(* unnoticed: it stops new entries, closes or is covered                     *)
(* (reconciliation/engine.py:249-304, gate.py:127-172).                      *)
UnprotectedNoticed ==
    \A s \in Symbols : s \in open \ plans ~> mode = "SAFE_MODE" \/ s \notin open \ plans

(* Execution implements OrderLedger: a call is the worker's or an orphan's,  *)
(* and an order is recorded when its row is committed.                       *)
LiveCalls(d) ==
    Cardinality({o \in orphans : o.call.id = d})
        + (IF pc = "placing" /\ call.id = d THEN 1 ELSE 0)

Ledger == INSTANCE OrderLedger WITH
    calls <- [d \in Decisions |-> LiveCalls(d)],
    accepted <- fills,
    recorded <- {d \in Decisions : db[d] # None}

LedgerKept == Ledger!Spec
=============================================================================
