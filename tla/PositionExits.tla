---------------------------- MODULE PositionExits ----------------------------
(***************************************************************************)
(* How an open position leaves the market: PositionManager                  *)
(* (position_manager/manager.py, break_even.py, trailing.py), the           *)
(* PositionTickService that calls it, and the adapter's position.  All the  *)
(* state is per symbol and symbols never interact, so the model has one.    *)
(* Prices are integers (any tick size), and a close is either partial (the  *)
(* position stays open) or full: no property depends on the quantity.       *)
(***************************************************************************)
EXTENDS Integers, Sequences

CONSTANTS
    Prices,       \* mark prices
    Plans,        \* entries the Risk Engine may approve: a side and an exit config
    None,         \* Python's None
    MaxEntries,   \* bound: entries filled
    MaxFailures   \* bound: close orders the exchange rejects

ASSUME PricesAreIntegers == Prices \subseteq Int /\ Prices # {} /\ None \notin Int
ASSUME ExitBounds == MaxEntries \in Nat /\ MaxFailures \in Nat

Sides == {"BUY", "SELL"}
Optional(S) == S \cup {None}

(***************************************************************************)
(* PositionConfig.  sl, tp: prices or None; levels: TakeProfitLevels, each  *)
(* with its price and whether it closes all that is left; trail: mode and   *)
(* distance (ATR: the snapshot times its multiplier); be: break-even        *)
(* trigger and offset; inv: invalidation price and InvalidationAction.      *)
(***************************************************************************)
Levels == [price : Int, full : BOOLEAN]
Trails == [mode : {"FIXED", "PERCENT", "ATR"}, dist : Int]
BreakEvens == [trigger : Int, offset : Int]
Invalidations == [price : Optional(Int), newSl : Optional(Int), close : {"no", "part", "full"}]
PositionConfig ==
    [sl : Optional(Int), tp : Optional(Int), levels : Seq(Levels), trail : Optional(Trails),
     be : Optional(BreakEvens), inv : Optional(Invalidations)]

\* Fault: the validator accepts every config.
validate_nothing(c) == TRUE

(* PositionConfig.validate_config and InvalidationAction.at_least_one_action. *)
validate_config(c) ==
    /\ c.tp = None \/ c.levels = <<>>
    /\ c.sl # None \/ c.tp # None \/ c.levels # <<>> \/ c.trail # None
    /\ c.trail # None =>
          c.trail.dist > 0 /\ (c.trail.mode = "PERCENT" => c.trail.dist < 100)
    /\ c.be # None => 0 <= c.be.offset /\ c.be.offset < c.be.trigger
    /\ c.inv # None => c.inv.newSl # None \/ c.inv.close # "no"

ValidPlans == {p \in Plans : validate_config(p.config)}
ValidConfigs == {p.config : p \in ValidPlans}

ASSUME PlansHaveConfigs == Plans \subseteq [side : Sides, config : PositionConfig]
ASSUME NoneIsNoConfig == \A p \in Plans : p.config # None

(* The caller's side of TakeProfitLevel: the last level closes all that is left. *)
ASSUME LastLevelCloses ==
    \A p \in Plans : p.config.levels # <<>> => p.config.levels[Len(p.config.levels)].full

VARIABLES
    position,   \* adapter: side and entry price of the open position, or None
    pm,         \* PositionManager: the symbol's entries in its dicts
    mark,       \* mark price
    entries,    \* entries filled so far
    failures,   \* close orders rejected so far
    last,       \* outcome of the last operation: a TickResult.trigger, "FAILED" or "idle"
    closes,     \* observation: successful closes per level of the current entry's plan
    failedFull  \* observation: failed full closes since the current entry

vars == <<position, pm, mark, entries, failures, last, closes, failedFull>>

(* remove_config and set_config. *)
Unmonitored ==
    [config |-> None, sl |-> None, tp |-> None, levels |-> <<>>, hw |-> None, ts |-> None,
     fired |-> FALSE]

set_config(c) ==
    [config |-> c, sl |-> c.sl, tp |-> c.tp, levels |-> c.levels, hw |-> None, ts |-> None,
     fired |-> FALSE]

Triggers == {"NONE", "SL_HIT", "SETUP_INVALIDATED", "TP_PARTIAL", "TP_HIT", "TRAILING_SL_HIT"}

(* The types; and a symbol without a config has no entry in any of the dicts.   *)
TypeOK ==
    /\ position \in Optional([side : Sides, entry : Int])
    /\ pm \in [config : Optional(ValidConfigs), sl : Optional(Int), tp : Optional(Int),
               levels : Seq(Levels), hw : Optional(Int), ts : Optional(Int), fired : BOOLEAN]
    /\ pm.config = None => pm = Unmonitored
    /\ mark \in Prices
    /\ entries \in 0..MaxEntries
    /\ failures \in 0..MaxFailures
    /\ last \in Triggers \cup {"FAILED", "idle"}
    /\ closes \in Seq(Nat)
    /\ failedFull \in Nat

Init ==
    /\ position = None
    /\ pm = Unmonitored
    /\ mark \in Prices
    /\ entries = 0
    /\ failures = 0
    /\ last = "idle"
    /\ closes = <<>>
    /\ failedFull = 0
-----------------------------------------------------------------------------
(* Has price p reached level x against the position / in its favour? *)
Against(side, p, x) == x # None /\ (IF side = "BUY" THEN p <= x ELSE p >= x)
InFavour(side, p, x) == x # None /\ (IF side = "BUY" THEN p >= x ELSE p <= x)

(* Is stop x at least as close to the price as stop y? *)
AsTight(side, x, y) ==
    y # None => x # None /\ (IF side = "BUY" THEN x >= y ELSE x <= y)

\* Fault: the high-water mark follows the price both ways.
high_water_is_mark(side, p, hw) == p

update_high_water(side, p, hw) ==
    IF hw = None THEN p
    ELSE IF side = "BUY" THEN (IF p > hw THEN p ELSE hw)
    ELSE (IF p < hw THEN p ELSE hw)

resolve_trailing_delta(trail, hw) ==
    IF trail.mode = "PERCENT" THEN (hw * trail.dist) \div 100 ELSE trail.dist

trailing_stop_from_delta(side, hw, delta) == IF side = "BUY" THEN hw - delta ELSE hw + delta

\* Fault: break-even overwrites a stop that is already better.
break_even_overwrites(side, entry, p, be, sl) ==
    LET sign == IF side = "BUY" THEN 1 ELSE -1
    IN  IF InFavour(side, p, entry + sign * be.trigger) THEN entry + sign * be.offset ELSE sl

(* The stop after maybe_move_to_break_even. *)
maybe_move_to_break_even(side, entry, p, be, sl) ==
    LET sign == IF side = "BUY" THEN 1 ELSE -1
        target == entry + sign * be.offset
    IN  IF InFavour(side, p, entry + sign * be.trigger) /\ ~AsTight(side, sl, target)
        THEN target ELSE sl

(* The first part of tick(): trailing stop and break-even follow the price. *)
Followed ==
    LET c == pm.config
        hw == update_high_water(position.side, mark, pm.hw)
        moved == IF c.trail = None THEN pm
                 ELSE [pm EXCEPT !.hw = hw,
                                 !.ts = trailing_stop_from_delta(position.side, hw,
                                            resolve_trailing_delta(c.trail, hw))]
    IN  IF c.be = None THEN moved
        ELSE [moved EXCEPT !.sl = maybe_move_to_break_even(position.side, position.entry, mark,
                                                           c.be, pm.sl)]

\* Fault: take profit and trailing are evaluated, the stop loss is not.
trigger_without_sl(m) ==
    IF m.levels # <<>> /\ InFavour(position.side, mark, Head(m.levels).price) THEN "TP_LEVEL"
    ELSE IF m.levels = <<>> /\ InFavour(position.side, mark, m.tp) THEN "TP_HIT"
    ELSE "NONE"

(* The rest of tick(): the first condition that holds wins. *)
TriggerOf(m) ==
    LET hit(x) == Against(position.side, mark, x)
        inv == m.config.inv
    IN  IF hit(m.sl) THEN "SL_HIT"
        ELSE IF inv # None /\ ~m.fired /\ hit(inv.price) THEN "SETUP_INVALIDATED"
        ELSE IF m.levels # <<>> /\ InFavour(position.side, mark, Head(m.levels).price)
             THEN "TP_LEVEL"
        ELSE IF m.levels = <<>> /\ InFavour(position.side, mark, m.tp) THEN "TP_HIT"
        ELSE IF hit(m.ts) THEN "TRAILING_SL_HIT"
        ELSE "NONE"
-----------------------------------------------------------------------------
Tickable == pm.config # None /\ position # None

\* Fault: the config of a position closed elsewhere stays.
TickKeepsOrphan ==
    /\ pm.config # None
    /\ position = None
    /\ last' = "NONE"
    /\ UNCHANGED <<position, pm, mark, entries, failures, closes, failedFull>>

(* The symbol is not held any more: the config is dropped. *)
TickOrphan ==
    /\ pm.config # None
    /\ position = None
    /\ pm' = Unmonitored
    /\ last' = "NONE"
    /\ UNCHANGED <<position, mark, entries, failures, closes, failedFull>>

TickNone ==
    /\ Tickable
    /\ TriggerOf(Followed) = "NONE"
    /\ pm' = Followed
    /\ last' = "NONE"
    /\ UNCHANGED <<position, mark, entries, failures, closes, failedFull>>

(* SL, single TP or trailing: one MARKET reduce-only order for everything. *)
FullTriggers == {"SL_HIT", "TP_HIT", "TRAILING_SL_HIT"}

TickFullClose ==
    /\ Tickable
    /\ TriggerOf(Followed) \in FullTriggers
    /\ position' = None
    /\ pm' = Unmonitored
    /\ last' = TriggerOf(Followed)
    /\ UNCHANGED <<mark, entries, failures, closes, failedFull>>

(* The next take-profit level: the last one drops the config. *)
LevelIndex == Len(pm.config.levels) - Len(pm.levels) + 1
IsLastLevel == Len(pm.levels) = 1

TickLevel ==
    /\ Tickable
    /\ TriggerOf(Followed) = "TP_LEVEL"
    /\ position' = IF Head(pm.levels).full THEN None ELSE position
    /\ pm' = IF IsLastLevel THEN Unmonitored ELSE [Followed EXCEPT !.levels = Tail(pm.levels)]
    /\ last' = IF IsLastLevel THEN "TP_HIT" ELSE "TP_PARTIAL"
    /\ closes' = [closes EXCEPT ![LevelIndex] = @ + 1]
    /\ UNCHANGED <<mark, entries, failures, failedFull>>

(* _apply_invalidation_action on manager state m, its order accepted. *)
Invalidated(m) ==
    LET inv == m.config.inv
    IN  IF inv.close = "full" THEN Unmonitored
        ELSE IF inv.newSl = None THEN m
        ELSE [m EXCEPT !.sl = inv.newSl]

\* Fault: the symbol is marked as invalidated even when its config is gone.
mark_fired_always(m) == [m EXCEPT !.fired = TRUE]

(* _auto_invalidation_fired.add, if the config is still there. *)
MarkFired(m) == IF m.config = None THEN m ELSE [m EXCEPT !.fired = TRUE]

TickInvalidates ==
    /\ Tickable
    /\ TriggerOf(Followed) = "SETUP_INVALIDATED"
    /\ position' = IF pm.config.inv.close = "full" THEN None ELSE position
    /\ pm' = MarkFired(Invalidated(Followed))
    /\ last' = "SETUP_INVALIDATED"
    /\ UNCHANGED <<mark, entries, failures, closes, failedFull>>

(* place_order raises, with the order executed or not.  A full close has       *)
(* dropped the config in its finally and the tick service registers the plan    *)
(* again, from the start; a partial close leaves what this tick followed, to be *)
(* tried again.                                                                 *)
PlacesOrder(t) == t # "NONE" /\ (t = "SETUP_INVALIDATED" => pm.config.inv.close # "no")

IsFullClose(t) ==
    \/ t \in FullTriggers
    \/ t = "TP_LEVEL" /\ IsLastLevel
    \/ t = "SETUP_INVALIDATED" /\ pm.config.inv.close = "full"

(* _close_or_reduce_position: does the order take all that is left? *)
ClosesAll(t) == IF t = "TP_LEVEL" THEN Head(pm.levels).full ELSE IsFullClose(t)

\* Fault: the tick service lets the exception of a full close go by.
failed_config_dropped(full) == IF full THEN Unmonitored ELSE Followed

\* Fault: the tick service registers the plan again after any failure.
failed_config_always_reset(full) == set_config(pm.config)

(* The except branch of tick_all: the manager after a failed close order. *)
reregister_if_dropped(full) == IF full THEN set_config(pm.config) ELSE Followed

TickFails ==
    LET t == TriggerOf(Followed)
    IN  /\ Tickable
        /\ PlacesOrder(t)
        /\ failures < MaxFailures
        /\ failures' = failures + 1
        /\ position' \in IF ClosesAll(t) THEN {position, None} ELSE {position}
        /\ pm' = reregister_if_dropped(IsFullClose(t))
        /\ failedFull' = IF IsFullClose(t) THEN failedFull + 1 ELSE failedFull
        /\ last' = "FAILED"
        /\ UNCHANGED <<mark, entries, closes>>
-----------------------------------------------------------------------------
(* ExecutionEngine: an entry fills and its plan is registered.  The adapter     *)
(* opens a position, adds to one of the same side or replaces one of the other. *)
(* The entry price is not the mark: it comes from the decision, slippage and    *)
(* spread, and is an average when the entry adds.                               *)
Enter(p) ==
    /\ entries < MaxEntries
    /\ entries' = entries + 1
    /\ \E entry \in Prices : position' = [side |-> p.side, entry |-> entry]
    /\ pm' = set_config(p.config)
    /\ last' = "idle"
    /\ closes' = [i \in 1..Len(p.config.levels) |-> 0]
    /\ failedFull' = 0
    /\ UNCHANGED <<mark, failures>>

(* Liquidation, or a close from outside. *)
ExternalClose ==
    /\ position # None
    /\ position' = None
    /\ last' = "idle"
    /\ UNCHANGED <<pm, mark, entries, failures, closes, failedFull>>

MarkMoves ==
    /\ \E p \in Prices \ {mark} : mark' = p
    /\ last' = "idle"
    /\ UNCHANGED <<position, pm, entries, failures, closes, failedFull>>

update_sl(p) ==
    /\ pm.config # None
    /\ pm' = [pm EXCEPT !.sl = p]
    /\ last' = "idle"
    /\ UNCHANGED <<position, mark, entries, failures, closes, failedFull>>

update_tp(p) ==
    /\ pm.config # None
    /\ pm' = [pm EXCEPT !.tp = p, !.levels = <<>>]
    /\ last' = "idle"
    /\ UNCHANGED <<position, mark, entries, failures, closes, failedFull>>

(* The manual call: applied as often as it is made; when its order is rejected *)
(* a full close has still dropped the config, and nobody registers it again.   *)
trigger_setup_invalidation ==
    /\ Tickable
    /\ pm.config.inv # None
    /\ last' = "idle"
    /\ \/ /\ position' = IF pm.config.inv.close = "full" THEN None ELSE position
          /\ pm' = Invalidated(pm)
          /\ UNCHANGED failures
       \/ /\ pm.config.inv.close # "no"
          /\ failures < MaxFailures
          /\ failures' = failures + 1
          /\ pm' = IF pm.config.inv.close = "full" THEN Unmonitored ELSE pm
          /\ position' \in IF pm.config.inv.close = "full" THEN {position, None} ELSE {position}
    /\ UNCHANGED <<mark, entries, closes, failedFull>>
-----------------------------------------------------------------------------
TickDone == TickOrphan \/ TickNone \/ TickFullClose \/ TickLevel \/ TickInvalidates

Next ==
    \/ TickDone \/ TickFails
    \/ \E p \in ValidPlans : Enter(p)
    \/ ExternalClose \/ MarkMoves
    \/ \E p \in Prices : update_sl(p) \/ update_tp(p)
    \/ trigger_setup_invalidation

Spec == Init /\ [][Next]_vars

(* CycleRunner ticks as long as it runs; orders are rejected finitely often. *)
FairSpec == Spec /\ WF_vars(TickDone)
-----------------------------------------------------------------------------
(* A tick cycle that has dealt with the symbol, its orders rejected or not,    *)
(* never leaves an open position without an exit plan (try/finally in tick,    *)
(* set_config again in tick_all).                                              *)
CoveredAfterTick == last # "idle" /\ position # None => pm.config # None

(* A position that survives a tick is not beyond its stop: the effective SL    *)
(* wins over everything, and a tick that takes no profit also honours the      *)
(* trailing stop (priorities of tick).                                         *)
StopsHonoured ==
    last \in {"NONE", "TP_PARTIAL"} /\ Tickable =>
        /\ ~Against(position.side, mark, pm.sl)
        /\ last = "NONE" => ~Against(position.side, mark, pm.ts)

(* Moving the stop to break-even never closes the position in the same tick:   *)
(* SL_HIT is always about the stop as it stood before the tick (the            *)
(* be_sl_offset < be_trigger_delta check of PositionConfig).                   *)
BreakEvenNeverStopsOut ==
    [][last' = "SL_HIT" => Against(position.side, mark, pm.sl)]_vars

(* While a plan is followed, a tick only moves its stops towards the price: a  *)
(* tick that closes nothing, or a take-profit level only, loosens neither the  *)
(* effective SL (maybe_move_to_break_even) nor the trailing stop               *)
(* (update_high_water).                                                        *)
StopsOnlyTighten ==
    [][(last' \in {"NONE", "TP_PARTIAL"} /\ Tickable /\ pm'.config # None) =>
            /\ AsTight(position.side, pm'.sl, pm.sl)
            /\ AsTight(position.side, pm'.ts, pm.ts)]_vars

(* A take-profit level that has closed its share closes again only if a full   *)
(* close has failed since (tick_all registers the plan again only then).       *)
ReclosedOnlyAfterFailure == \A i \in 1..Len(closes) : closes[i] <= 1 + failedFull

(* No take-profit level closes its share of the position twice.                *)
LevelsClosedOnce == \A i \in 1..Len(closes) : closes[i] <= 1

(* A monitored position never stays beyond its effective stop for ever.        *)
StopEventuallyCloses == []<>~(Tickable /\ Against(position.side, mark, pm.sl))

(* The exit plan of a position that is gone is dropped.                        *)
OrphanConfigDropped ==
    (position = None /\ pm.config # None) ~> (pm.config = None \/ position # None)
=============================================================================
