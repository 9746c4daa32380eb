------------------------ MODULE PositionExitsProofs ------------------------
(***************************************************************************)
(* Theorems about PositionExits, for any prices, plans and bounds.          *)
(***************************************************************************)
EXTENDS PositionExits, TLAPS

ManagerStates ==
    [config : Optional(ValidConfigs), sl : Optional(Int), tp : Optional(Int),
     levels : Seq(Levels), hw : Optional(Int), ts : Optional(Int), fired : BOOLEAN]

(* A config that passed the validator is a PositionConfig that satisfies it.   *)
LEMMA ValidConfig ==
  ASSUME NEW c \in ValidConfigs
  PROVE  c \in PositionConfig /\ validate_config(c)
BY PlansHaveConfigs DEF ValidConfigs, ValidPlans

(* set_config and remove_config leave the manager's dicts well-typed.          *)
LEMMA ConfigTypes ==
  /\ Unmonitored \in ManagerStates
  /\ \A c \in ValidConfigs : set_config(c) \in ManagerStates
<1>1. Unmonitored \in ManagerStates
  BY DEF Unmonitored, ManagerStates, Optional
<1>2. ASSUME NEW c \in ValidConfigs
      PROVE  set_config(c) \in ManagerStates
  BY <1>2, ValidConfig DEF set_config, ManagerStates, Optional, PositionConfig
<1> QED BY <1>1, <1>2

(* The arithmetic of the trailing stop and of break-even stays in the integers. *)
LEMMA StopTypes ==
  ASSUME NEW side \in Sides, NEW p \in Int, NEW entry \in Int,
         NEW hw \in Optional(Int), NEW sl \in Optional(Int), NEW c \in ValidConfigs
  PROVE  /\ update_high_water(side, p, hw) \in Int
         /\ c.trail # None => \A h \in Int :
               trailing_stop_from_delta(side, h, resolve_trailing_delta(c.trail, h)) \in Int
         /\ c.be # None => maybe_move_to_break_even(side, entry, p, c.be, sl) \in Optional(Int)
<1>1. update_high_water(side, p, hw) \in Int
  BY DEF update_high_water, Optional
<1>2. ASSUME c.trail # None, NEW h \in Int
      PROVE  trailing_stop_from_delta(side, h, resolve_trailing_delta(c.trail, h)) \in Int
  <2>1. c.trail \in Trails
    BY <1>2, ValidConfig DEF PositionConfig, Optional
  <2>2. c.trail.dist \in Int
    BY <2>1 DEF Trails
  <2>3. h * c.trail.dist \in Int
    BY <2>2
  <2>4. resolve_trailing_delta(c.trail, h) \in Int
    BY <2>2, <2>3 DEF resolve_trailing_delta
  <2> QED BY <2>4 DEF trailing_stop_from_delta
<1>3. ASSUME c.be # None
      PROVE  maybe_move_to_break_even(side, entry, p, c.be, sl) \in Optional(Int)
  <2>1. c.be \in BreakEvens
    BY <1>3, ValidConfig DEF PositionConfig, Optional
  <2> QED BY <2>1 DEF BreakEvens, maybe_move_to_break_even, Optional
<1> QED BY <1>1, <1>2, <1>3

(* What following the price changes of the manager's dicts: the trailing state  *)
(* and the stop, nothing else.                                                  *)
LEMMA FollowedTypes ==
  ASSUME TypeOK, Tickable
  PROVE  /\ Followed \in ManagerStates
         /\ Followed.config = pm.config
         /\ Followed.levels = pm.levels
         /\ Followed.fired = pm.fired
         /\ Followed.tp = pm.tp
<1> DEFINE hw == update_high_water(position.side, mark, pm.hw)
           ts == trailing_stop_from_delta(position.side, hw, resolve_trailing_delta(pm.config.trail, hw))
           be == maybe_move_to_break_even(position.side, position.entry, mark, pm.config.be, pm.sl)
<1>1. pm \in ManagerStates /\ pm.config \in ValidConfigs
  BY DEF TypeOK, Tickable, ManagerStates, Optional
<1>2. position.side \in Sides /\ position.entry \in Int /\ mark \in Int
  BY PricesAreIntegers DEF TypeOK, Tickable, Optional
<1>3. pm.hw \in Optional(Int) /\ pm.sl \in Optional(Int)
  BY <1>1 DEF ManagerStates
<1>4. /\ hw \in Int
      /\ pm.config.trail # None => ts \in Int
      /\ pm.config.be # None => be \in Optional(Int)
  BY <1>1, <1>2, <1>3, StopTypes
<1>5. Followed = [pm EXCEPT !.hw = IF pm.config.trail = None THEN pm.hw ELSE hw,
                            !.ts = IF pm.config.trail = None THEN pm.ts ELSE ts,
                            !.sl = IF pm.config.be = None THEN pm.sl ELSE be]
  <2> HIDE DEF hw, ts, be
  <2> QED BY <1>1 DEF Followed, ManagerStates, hw, ts, be
<1> HIDE DEF hw, ts, be
<1> QED BY <1>1, <1>4, <1>5 DEF ManagerStates, Optional
-----------------------------------------------------------------------------
(* The manager's dicts are well-typed, and empty for a symbol without a config. *)
Managed(m) == m \in ManagerStates /\ (m.config = None => m = Unmonitored)

(* remove_config and set_config leave them so.                                  *)
LEMMA ManagedForms ==
  /\ Managed(Unmonitored)
  /\ \A c \in ValidConfigs : c # None => Managed(set_config(c))
BY ConfigTypes DEF Managed, set_config

(* So does every step.                                                          *)
LEMMA ManagedStep ==
  ASSUME TypeOK, Next
  PROVE  Managed(pm')
<1>1. Managed(pm)
  BY DEF TypeOK, Managed, ManagerStates
<1>2. ASSUME Tickable
      PROVE  pm.config \in ValidConfigs /\ pm.config # None
  BY <1>2 DEF TypeOK, Tickable, Optional
<1>3. ASSUME Tickable
      PROVE  Managed(Followed)
  BY <1>2, <1>3, FollowedTypes DEF Managed
<1>4. CASE TickOrphan \/ TickFullClose
  BY <1>4, ManagedForms DEF TickOrphan, TickFullClose
<1>5. CASE TickNone
  BY <1>3, <1>5 DEF TickNone
<1>6. CASE TickLevel
  <2>1. CASE IsLastLevel
    BY <1>6, <2>1, ManagedForms DEF TickLevel
  <2>2. CASE ~IsLastLevel
    <3>1. pm.levels \in Seq(Levels) /\ pm.levels # <<>>
      BY <1>6, FollowedTypes DEF TickLevel, TypeOK, TriggerOf
    <3>2. Tail(pm.levels) \in Seq(Levels)
      BY <3>1
    <3>3. pm' = [Followed EXCEPT !.levels = Tail(pm.levels)]
      BY <1>6, <2>2 DEF TickLevel
    <3> QED BY <1>2, <1>3, <1>6, <3>2, <3>3, FollowedTypes DEF TickLevel, Managed, ManagerStates
  <2> QED BY <2>1, <2>2
<1>7. ASSUME NEW m, Managed(m), m.config \in ValidConfigs, m.config # None, m.config.inv # None
      PROVE  Managed(Invalidated(m))
  <2>1. m.config.inv \in Invalidations
    BY <1>7, ValidConfig DEF PositionConfig, Optional
  <2>2. m.config.inv.newSl \in Optional(Int)
    BY <2>1 DEF Invalidations
  <2> QED BY <1>7, <2>2, ManagedForms DEF Invalidated, Managed, ManagerStates
<1>8. CASE TickInvalidates
  <2>1. pm.config.inv # None
    BY <1>8, FollowedTypes DEF TickInvalidates, TriggerOf
  <2>2. Managed(Invalidated(Followed))
    BY <1>2, <1>3, <1>7, <1>8, <2>1, FollowedTypes DEF TickInvalidates
  <2>3. pm' = MarkFired(Invalidated(Followed))
    BY <1>8 DEF TickInvalidates
  <2> QED BY <2>2, <2>3 DEF MarkFired, Managed, ManagerStates
<1>9. CASE TickFails
  BY <1>2, <1>3, <1>9, ManagedForms DEF TickFails, reregister_if_dropped
<1>10. ASSUME NEW p \in ValidPlans, Enter(p)
       PROVE  Managed(pm')
  <2>1. p.config \in ValidConfigs /\ p.config # None
    BY NoneIsNoConfig DEF ValidConfigs, ValidPlans
  <2> QED BY <1>10, <2>1, ManagedForms DEF Enter
<1>11. CASE ExternalClose \/ MarkMoves
  BY <1>1, <1>11 DEF ExternalClose, MarkMoves
<1>12. ASSUME NEW p \in Prices, update_sl(p) \/ update_tp(p)
       PROVE  Managed(pm')
  <2>1. p \in Int
    BY PricesAreIntegers
  <2>2. CASE update_sl(p)
    BY <1>1, <2>1, <2>2 DEF update_sl, Managed, ManagerStates, Optional
  <2>3. CASE update_tp(p)
    <3>1. pm.config # None /\ pm' = [pm EXCEPT !.tp = p, !.levels = <<>>]
      BY <2>3 DEF update_tp
    <3>2. <<>> \in Seq(Levels)
      OBVIOUS
    <3> QED BY <1>1, <2>1, <3>1, <3>2 DEF Managed, ManagerStates, Optional
  <2> QED BY <1>12, <2>2, <2>3
<1>13. CASE trigger_setup_invalidation
  BY <1>1, <1>2, <1>7, <1>13, ManagedForms DEF trigger_setup_invalidation
<1> QED BY <1>4, <1>5, <1>6, <1>8, <1>9, <1>10, <1>11, <1>12, <1>13 DEF Next, TickDone

(* Counting one more close at a level keeps the counts natural numbers.         *)
LEMMA CountedOnce ==
  ASSUME NEW S, NEW f \in [S -> Nat], NEW k
  PROVE  [f EXCEPT ![k] = @ + 1] \in [S -> Nat]
<1>1. CASE k \in S
  BY <1>1
<1>2. CASE k \notin S
  <2>1. [f EXCEPT ![k] = @ + 1] = f
    BY <1>2, Zenon
  <2> QED BY <2>1
<1> QED BY <1>1, <1>2

(* Every step preserves the types.                                              *)
LEMMA TypeOKStep ==
  ASSUME TypeOK, Next
  PROVE  TypeOK'
<1>1. pm' \in ManagerStates /\ (pm'.config = None => pm' = Unmonitored)
  BY ManagedStep DEF Managed
<1>2. position' \in Optional([side : Sides, entry : Int])
  <2>1. ASSUME NEW p \in ValidPlans, Enter(p)
        PROVE  position' \in Optional([side : Sides, entry : Int])
    BY <2>1, PlansHaveConfigs, PricesAreIntegers DEF Enter, ValidPlans, Optional
  <2>2. ASSUME ~ \E p \in ValidPlans : Enter(p)
        PROVE  position' \in {position, None}
    BY <2>2 DEF Next, TickDone, TickOrphan, TickNone, TickFullClose, TickLevel, TickInvalidates,
                TickFails, ExternalClose, MarkMoves, update_sl, update_tp,
                trigger_setup_invalidation
  <2> QED BY <2>1, <2>2 DEF TypeOK, Optional
<1>3. /\ mark' \in Prices
      /\ entries' \in 0..MaxEntries
      /\ failures' \in 0..MaxFailures
      /\ failedFull' \in Nat
  <2>1. CASE TickFails
    BY <2>1, ExitBounds DEF TypeOK, TickFails
  <2>2. ASSUME NEW p \in ValidPlans, Enter(p)
        PROVE  entries' \in 0..MaxEntries /\ UNCHANGED <<mark, failures>> /\ failedFull' = 0
    BY <2>2, ExitBounds DEF TypeOK, Enter
  <2>3. CASE trigger_setup_invalidation
    BY <2>3, ExitBounds DEF TypeOK, trigger_setup_invalidation
  <2>4. CASE MarkMoves
    BY <2>4 DEF TypeOK, MarkMoves
  <2>5. ASSUME TickDone \/ ExternalClose \/ \E p \in Prices : update_sl(p) \/ update_tp(p)
        PROVE  UNCHANGED <<mark, entries, failures, failedFull>>
    BY <2>5 DEF TickDone, TickOrphan, TickNone, TickFullClose, TickLevel, TickInvalidates,
                ExternalClose, update_sl, update_tp
  <2> QED BY <2>1, <2>2, <2>3, <2>4, <2>5 DEF TypeOK, Next
<1>4. last' \in Triggers \cup {"FAILED", "idle"}
  <2>1. CASE TickFullClose
    BY <2>1 DEF TickFullClose, FullTriggers, Triggers
  <2>2. CASE ~TickFullClose
    BY <2>2 DEF Next, TickDone, TickOrphan, TickNone, TickLevel, TickInvalidates, Triggers,
                TickFails, Enter, ExternalClose, MarkMoves, update_sl, update_tp,
                trigger_setup_invalidation
  <2> QED BY <2>1, <2>2
<1>5. closes' \in Seq(Nat)
  <2>1. ASSUME NEW p \in ValidPlans, Enter(p)
        PROVE  closes' \in Seq(Nat)
    <3>1. p.config.levels \in Seq(Levels)
      BY PlansHaveConfigs DEF ValidPlans, PositionConfig
    <3>2. Len(p.config.levels) \in Nat
      BY <3>1
    <3> QED BY <2>1, <3>2 DEF Enter
  <2>2. CASE TickLevel
    <3>1. closes' = [closes EXCEPT ![LevelIndex] = @ + 1]
      BY <2>2 DEF TickLevel
    <3>2. closes \in Seq(Nat)
      BY DEF TypeOK
    <3>3. closes \in [1..Len(closes) -> Nat] /\ Len(closes) \in Nat
      BY <3>2
    <3>4. closes' \in [1..Len(closes) -> Nat]
      BY <3>1, <3>3, CountedOnce
    <3> QED BY <3>3, <3>4
  <2>3. ASSUME ~TickLevel, ~ \E p \in ValidPlans : Enter(p)
        PROVE  closes' = closes
    BY <2>3 DEF Next, TickDone, TickOrphan, TickNone, TickFullClose, TickInvalidates,
                TickFails, ExternalClose, MarkMoves, update_sl, update_tp,
                trigger_setup_invalidation
  <2> QED BY <2>1, <2>2, <2>3 DEF TypeOK
<1> QED BY <1>1, <1>2, <1>3, <1>4, <1>5 DEF TypeOK, ManagerStates

(* The types hold, and a symbol whose config is dropped leaves nothing behind   *)
(* in any dict of the PositionManager.                                          *)
THEOREM TypeCorrect == Spec => []TypeOK
<1>1. Init => TypeOK
  BY ConfigTypes, ExitBounds DEF Init, TypeOK, ManagerStates, Optional, Triggers
<1>2. TypeOK /\ [Next]_vars => TypeOK'
  <2>1. ASSUME TypeOK, UNCHANGED vars
        PROVE  TypeOK'
    BY <2>1 DEF TypeOK, vars
  <2> QED BY <2>1, TypeOKStep
<1> QED BY <1>1, <1>2, PTL DEF Spec
-----------------------------------------------------------------------------
(* The levels still to be taken end in the plan's last one, which closes all    *)
(* that is left: what CoveredAfterTick rests on when the last level closes.     *)
LastCloses(ls) == ls # <<>> => ls[Len(ls)].full
CoverInv == LastCloses(pm.levels) /\ CoveredAfterTick

(* Every plan that can be registered ends in a level that closes everything.    *)
LEMMA ConfigLastCloses ==
  ASSUME NEW c \in ValidConfigs
  PROVE  LastCloses(set_config(c).levels)
BY LastLevelCloses DEF ValidConfigs, ValidPlans, set_config, LastCloses

(* Taking a level that is not the last leaves the last one in place.            *)
LEMMA TailLastCloses ==
  ASSUME NEW ls \in Seq(Levels), LastCloses(ls), ls # <<>>
  PROVE  LastCloses(Tail(ls))
<1>1. CASE Tail(ls) = <<>>
  BY <1>1 DEF LastCloses
<1>2. CASE Tail(ls) # <<>>
  <2>1. /\ Len(ls) \in Nat
        /\ Len(Tail(ls)) = Len(ls) - 1
        /\ Len(ls) > 1
    BY <1>2
  <2>2. Tail(ls)[Len(ls) - 1] = ls[Len(ls)]
    BY <2>1
  <2> QED BY <2>1, <2>2 DEF LastCloses
<1> QED BY <1>1, <1>2

(* Every step keeps the last level of the plan, and covers the position that a  *)
(* tick leaves open.                                                            *)
LEMMA CoverStep ==
  ASSUME TypeOK, CoverInv, Next
  PROVE  CoverInv'
<1>1. ASSUME Tickable
      PROVE  /\ pm.config \in ValidConfigs /\ pm.config # None
             /\ Followed.config = pm.config /\ Followed.levels = pm.levels
             /\ pm.levels \in Seq(Levels)
  BY <1>1, FollowedTypes DEF TypeOK, Tickable, Optional
<1>2. LastCloses(Unmonitored.levels)
  BY DEF Unmonitored, LastCloses
<1>3. CASE TickOrphan \/ TickFullClose
  <2>1. pm' = Unmonitored /\ position' = None
    BY <1>3 DEF TickOrphan, TickFullClose
  <2> QED BY <1>2, <2>1 DEF CoverInv, CoveredAfterTick
<1>4. CASE TickNone
  BY <1>1, <1>4 DEF TickNone, CoverInv, CoveredAfterTick
<1>5. CASE TickLevel
  <2>1. pm.levels # <<>> /\ Tickable
    BY <1>1, <1>5 DEF TickLevel, TriggerOf
  <2>2. CASE IsLastLevel
    <3>1. Head(pm.levels) = pm.levels[Len(pm.levels)]
      BY <1>1, <2>1, <2>2 DEF IsLastLevel
    <3>2. position' = None /\ pm' = Unmonitored
      BY <1>5, <2>1, <2>2, <3>1 DEF TickLevel, CoverInv, LastCloses
    <3> QED BY <1>2, <3>2 DEF CoverInv, CoveredAfterTick
  <2>3. CASE ~IsLastLevel
    <3>1. pm' = [Followed EXCEPT !.levels = Tail(pm.levels)]
      BY <1>5, <2>3 DEF TickLevel
    <3>2. pm'.levels = Tail(pm.levels) /\ pm'.config = pm.config
      BY <1>1, <2>1, <3>1, FollowedTypes DEF ManagerStates
    <3>3. LastCloses(Tail(pm.levels))
      BY <1>1, <2>1, TailLastCloses DEF CoverInv
    <3> QED BY <1>1, <2>1, <3>2, <3>3 DEF CoverInv, CoveredAfterTick
  <2> QED BY <2>2, <2>3
<1>6. ASSUME NEW m, Managed(m), LastCloses(m.levels), m.config # None
      PROVE  /\ LastCloses(Invalidated(m).levels)
             /\ m.config.inv.close # "full" => Invalidated(m).config = m.config
             /\ m.config.inv.close = "full" => Invalidated(m) = Unmonitored
  BY <1>2, <1>6 DEF Invalidated, Managed, ManagerStates
<1>7. CASE TickInvalidates
  <2>1. Managed(Followed) /\ LastCloses(Followed.levels) /\ Followed.config # None
    BY <1>1, <1>7, FollowedTypes DEF TickInvalidates, Managed, CoverInv
  <2>2. pm' = MarkFired(Invalidated(Followed))
    BY <1>7 DEF TickInvalidates
  <2>3. CASE pm.config.inv.close = "full"
    <3>1. Tickable /\ position' = None
      BY <1>7, <2>3 DEF TickInvalidates
    <3>2. Invalidated(Followed) = Unmonitored
      BY <1>1, <1>6, <2>1, <2>3, <3>1
    <3>3. Unmonitored.config = None
      BY DEF Unmonitored
    <3>4. pm' = Unmonitored /\ position' = None
      BY <2>2, <3>1, <3>2, <3>3 DEF MarkFired
    <3> QED BY <1>2, <3>4 DEF CoverInv, CoveredAfterTick
  <2>4. CASE pm.config.inv.close # "full"
    <3>1. Invalidated(Followed) \in ManagerStates
      <4>1. pm.config.inv # None
        BY <1>1, <1>7 DEF TickInvalidates, TriggerOf
      <4>2. pm.config.inv \in Invalidations
        BY <1>1, <1>7, <4>1, ValidConfig DEF TickInvalidates, PositionConfig, Optional
      <4>3. Followed.config.inv.newSl \in Optional(Int)
        BY <1>1, <1>7, <4>2 DEF TickInvalidates, Invalidations
      <4> QED BY <2>1, <4>3, ConfigTypes DEF Invalidated, Managed, ManagerStates
    <3>2. pm'.levels = Invalidated(Followed).levels /\ pm'.config = pm.config
      BY <1>1, <1>6, <1>7, <2>1, <2>2, <2>4, <3>1 DEF TickInvalidates, MarkFired, ManagerStates
    <3> QED BY <1>1, <1>6, <1>7, <2>1, <3>2 DEF TickInvalidates, CoverInv, CoveredAfterTick
  <2> QED BY <2>3, <2>4
<1>8. CASE TickFails
  <2>1. pm' = set_config(pm.config) \/ pm' = Followed
    BY <1>8 DEF TickFails, reregister_if_dropped
  <2>2. Tickable /\ set_config(pm.config).config = pm.config
    BY <1>8 DEF TickFails, set_config
  <2> QED BY <1>1, <2>1, <2>2, ConfigLastCloses DEF CoverInv, CoveredAfterTick
<1>9. ASSUME NEW p \in ValidPlans, Enter(p)
      PROVE  CoverInv'
  BY <1>9, ConfigLastCloses DEF Enter, ValidConfigs, CoverInv, CoveredAfterTick
<1>10. CASE ExternalClose \/ MarkMoves
  BY <1>10 DEF ExternalClose, MarkMoves, CoverInv, CoveredAfterTick
<1>11. ASSUME NEW p \in Prices, update_sl(p) \/ update_tp(p)
       PROVE  CoverInv'
  <2>1. last' = "idle" /\ (pm'.levels = pm.levels \/ pm'.levels = <<>>)
    BY <1>11 DEF update_sl, update_tp, TypeOK
  <2> QED BY <2>1 DEF CoverInv, CoveredAfterTick, LastCloses
<1>12. CASE trigger_setup_invalidation
  <2>1. Managed(pm) /\ pm.config # None /\ LastCloses(pm.levels)
    BY <1>12 DEF TypeOK, Managed, ManagerStates, trigger_setup_invalidation, Tickable, CoverInv
  <2>2. pm' \in {Invalidated(pm), Unmonitored, pm} /\ last' = "idle"
    BY <1>12 DEF trigger_setup_invalidation
  <2> QED BY <1>2, <1>6, <2>1, <2>2 DEF CoverInv, CoveredAfterTick
<1> QED BY <1>3, <1>4, <1>5, <1>7, <1>8, <1>9, <1>10, <1>11, <1>12 DEF Next, TickDone

(* A tick, whatever became of its order, leaves no open position without an     *)
(* exit plan.                                                                   *)
THEOREM PositionsStayCovered == Spec => []CoveredAfterTick
<1>1. Init => CoverInv
  BY DEF Init, CoverInv, CoveredAfterTick, LastCloses, Unmonitored
<1>2. TypeOK /\ CoverInv /\ [Next]_vars => CoverInv'
  <2>1. ASSUME CoverInv, UNCHANGED vars
        PROVE  CoverInv'
    BY <2>1 DEF CoverInv, CoveredAfterTick, vars
  <2> QED BY <2>1, CoverStep
<1>3. CoverInv => CoveredAfterTick
  BY DEF CoverInv
<1> QED BY <1>1, <1>2, <1>3, TypeCorrect, PTL DEF Spec
-----------------------------------------------------------------------------
(* The steps of tick that say NONE or TP_PARTIAL, and what they leave of the    *)
(* stops: those of Followed, with the trigger that tick computed from them.     *)
LEMMA QuietTick ==
  ASSUME TypeOK, Next, last' \in {"NONE", "TP_PARTIAL"}, Tickable, pm'.config # None
  PROVE  /\ pm'.sl = Followed.sl /\ pm'.ts = Followed.ts
         /\ position' \in {position, None} /\ mark' = mark
         /\ TriggerOf(Followed) = IF last' = "NONE" THEN "NONE" ELSE "TP_LEVEL"
<1>1. TickNone \/ (TickLevel /\ ~IsLastLevel)
  <2>1. ~TickOrphan /\ ~TickFullClose /\ ~TickInvalidates
    BY DEF TickOrphan, TickFullClose, TickInvalidates, FullTriggers, Tickable
  <2>2. ~(TickLevel /\ IsLastLevel)
    BY DEF TickLevel
  <2>3. ~TickFails /\ ~ExternalClose /\ ~MarkMoves /\ ~trigger_setup_invalidation
    BY DEF TickFails, ExternalClose, MarkMoves, trigger_setup_invalidation
  <2>4. ~ \E p \in ValidPlans : Enter(p)
    BY DEF Enter
  <2>5. ~ \E p \in Prices : update_sl(p) \/ update_tp(p)
    BY DEF update_sl, update_tp
  <2> QED BY <2>1, <2>2, <2>3, <2>4, <2>5 DEF Next, TickDone
<1>2. CASE TickNone
  BY <1>2 DEF TickNone
<1>3. CASE TickLevel /\ ~IsLastLevel
  <2>1. pm' = [Followed EXCEPT !.levels = Tail(pm.levels)] /\ last' = "TP_PARTIAL"
    BY <1>3 DEF TickLevel
  <2>2. pm'.sl = Followed.sl /\ pm'.ts = Followed.ts
    BY <2>1, FollowedTypes DEF ManagerStates
  <2> QED BY <1>3, <2>1, <2>2 DEF TickLevel
<1> QED BY <1>1, <1>2, <1>3

(* A position that survives a tick is not beyond its effective stop, nor, when  *)
(* the tick took no profit, beyond its trailing stop.                           *)
THEOREM StopsAreHonoured == Spec => []StopsHonoured
<1>1. Init => StopsHonoured
  BY DEF Init, StopsHonoured
<1>2. ASSUME TypeOK, Next
      PROVE  StopsHonoured'
  <2> SUFFICES ASSUME last' \in {"NONE", "TP_PARTIAL"}, Tickable'
               PROVE  /\ ~Against(position'.side, mark', pm'.sl)
                      /\ last' = "NONE" => ~Against(position'.side, mark', pm'.ts)
    BY DEF StopsHonoured
  <2>1. Tickable
    <3>1. pm'.config # None /\ position' # None
      BY DEF Tickable
    <3>2. ~TickOrphan
      BY <3>1 DEF TickOrphan
    <3>3. ~ExternalClose /\ ~MarkMoves /\ ~ \E p \in ValidPlans : Enter(p)
      BY DEF ExternalClose, MarkMoves, Enter
    <3>4. ~ \E p \in Prices : update_sl(p) \/ update_tp(p)
      BY DEF update_sl, update_tp
    <3> QED BY <1>2, <3>2, <3>3, <3>4 DEF Next, TickDone, TickNone, TickFullClose, TickLevel,
                TickInvalidates, TickFails, trigger_setup_invalidation
  <2>2. /\ pm'.sl = Followed.sl /\ pm'.ts = Followed.ts
        /\ position' = position /\ mark' = mark
        /\ TriggerOf(Followed) = IF last' = "NONE" THEN "NONE" ELSE "TP_LEVEL"
    BY <1>2, <2>1, QuietTick DEF Tickable
  <2>3. ~Against(position.side, mark, Followed.sl)
    BY <2>2 DEF TriggerOf
  <2>4. last' = "NONE" => ~Against(position.side, mark, Followed.ts)
    BY <2>2 DEF TriggerOf
  <2> QED BY <2>2, <2>3, <2>4
<1>3. TypeOK /\ StopsHonoured /\ [Next]_vars => StopsHonoured'
  <2>1. ASSUME StopsHonoured, UNCHANGED vars
        PROVE  StopsHonoured'
    BY <2>1 DEF StopsHonoured, Tickable, Against, vars
  <2> QED BY <1>2, <2>1
<1> QED BY <1>1, <1>3, TypeCorrect, PTL DEF Spec

(* The stop that following the price leaves: the one before the tick, or the    *)
(* break-even target, which the mark price is strictly beyond.                  *)
LEMMA BreakEvenMove ==
  ASSUME TypeOK, Tickable
  PROVE  /\ Against(position.side, mark, Followed.sl) => Against(position.side, mark, pm.sl)
         /\ AsTight(position.side, Followed.sl, pm.sl)
<1>1. /\ position.side \in Sides /\ position.entry \in Int /\ mark \in Int
      /\ pm.sl \in Optional(Int) /\ pm.config \in ValidConfigs
  BY PricesAreIntegers DEF TypeOK, Tickable, Optional
<1>2. CASE pm.config.be = None
  <2>1. Followed.sl = pm.sl
    BY <1>2 DEF Followed, TypeOK
  <2> QED BY <1>1, <2>1 DEF AsTight, Optional
<1>3. CASE pm.config.be # None
  <2> DEFINE be == pm.config.be
             moved == maybe_move_to_break_even(position.side, position.entry, mark, be, pm.sl)
  <2>1. Followed.sl = moved
    BY <1>3, FollowedTypes DEF Followed, TypeOK
  <2>2. be \in BreakEvens /\ be.offset < be.trigger
    BY <1>1, <1>3, ValidConfig DEF PositionConfig, Optional, validate_config
  <2>3. be.offset \in Int /\ be.trigger \in Int
    BY <2>2 DEF BreakEvens
  <2> HIDE DEF be
  <2>4. /\ Against(position.side, mark, moved) => Against(position.side, mark, pm.sl)
        /\ AsTight(position.side, moved, pm.sl)
    BY <1>1, <2>2, <2>3, PricesAreIntegers
    DEF maybe_move_to_break_even, Against, InFavour, AsTight, Optional, Sides
  <2> QED BY <2>1, <2>4
<1> QED BY <1>2, <1>3

(* SL_HIT is always about the stop as it stood before the tick: moving it to    *)
(* break-even never closes the position by itself.                              *)
THEOREM BreakEvenIsSafe == Spec => BreakEvenNeverStopsOut
<1>1. ASSUME TypeOK, Next, last' = "SL_HIT"
      PROVE  Against(position.side, mark, pm.sl)
  <2>1. Tickable /\ TriggerOf(Followed) = "SL_HIT"
    BY <1>1 DEF Next, TickDone, TickOrphan, TickNone, TickFullClose, TickLevel, TickInvalidates,
                TickFails, Enter, ExternalClose, MarkMoves, update_sl, update_tp,
                trigger_setup_invalidation
  <2>2. Against(position.side, mark, Followed.sl)
    BY <2>1 DEF TriggerOf
  <2> QED BY <1>1, <2>1, <2>2, BreakEvenMove
<1>2. TypeOK /\ [Next]_vars =>
        [last' = "SL_HIT" => Against(position.side, mark, pm.sl)]_vars
  BY <1>1
<1> QED BY <1>2, TypeCorrect, PTL DEF Spec, BreakEvenNeverStopsOut
-----------------------------------------------------------------------------
(* The trailing stop of an open position is the one its high-water mark gives.  *)
StopAt(side, trail, hw) == trailing_stop_from_delta(side, hw, resolve_trailing_delta(trail, hw))
TrailInv ==
    position # None /\ pm.ts # None =>
        /\ pm.config.trail # None
        /\ pm.hw # None
        /\ pm.ts = StopAt(position.side, pm.config.trail, pm.hw)

(* Percent distances grow more slowly than the price they are a percentage of.  *)
LEMMA PercentMonotone ==
  ASSUME NEW h \in Int, NEW g \in Int, h <= g, NEW d \in Int, 0 < d, d < 100
  PROVE  /\ (h * d) \div 100 <= (g * d) \div 100
         /\ (g * d) \div 100 <= (h * d) \div 100 + (g - h)
<1> DEFINE k == g - h
<1>1. k \in Int /\ 0 <= k /\ k * d \in Int /\ h * d \in Int /\ g * d \in Int
  OBVIOUS
<1>2. g * d = h * d + k * d
  OBVIOUS
<1>3. 0 <= k * d /\ k * d <= 100 * k
  BY <1>1
<1> HIDE DEF k
<1>4. \A x \in Int, y \in Int : x <= y => x \div 100 <= y \div 100
  OBVIOUS
<1>5. \A x \in Int, j \in Int : (x + 100 * j) \div 100 = x \div 100 + j
  OBVIOUS
<1>6. (h * d) \div 100 <= (g * d) \div 100
  BY <1>1, <1>2, <1>3, <1>4
<1>7. (g * d) \div 100 <= (h * d + 100 * k) \div 100
  BY <1>1, <1>2, <1>3, <1>4
<1>8. (h * d + 100 * k) \div 100 = (h * d) \div 100 + k
  BY <1>1, <1>5
<1> QED BY <1>6, <1>7, <1>8 DEF k

(* A trailing stop follows its high-water mark, which only improves.            *)
LEMMA TrailTightens ==
  ASSUME NEW side \in Sides, NEW p \in Int, NEW hw \in Int,
         NEW c \in ValidConfigs, c.trail # None
  PROVE  AsTight(side, StopAt(side, c.trail, update_high_water(side, p, hw)),
                       StopAt(side, c.trail, hw))
<1> DEFINE g == update_high_water(side, p, hw)
           d == c.trail.dist
<1>1. c.trail \in Trails /\ 0 < d /\ (c.trail.mode = "PERCENT" => d < 100)
  BY ValidConfig DEF validate_config, PositionConfig, Optional
<1>2. d \in Int
  BY <1>1 DEF Trails
<1>3. g \in Int /\ (side = "BUY" => hw <= g) /\ (side = "SELL" => g <= hw)
  BY PricesAreIntegers DEF update_high_water
<1> HIDE DEF g, d
<1>4. CASE c.trail.mode = "PERCENT"
  <2>1. /\ StopAt(side, c.trail, g) = IF side = "BUY" THEN g - (g * d) \div 100 ELSE g + (g * d) \div 100
        /\ StopAt(side, c.trail, hw) = IF side = "BUY" THEN hw - (hw * d) \div 100 ELSE hw + (hw * d) \div 100
    BY <1>4 DEF StopAt, trailing_stop_from_delta, resolve_trailing_delta, d
  <2>2. g * d \in Int /\ hw * d \in Int
    BY <1>2, <1>3
  <2>3. (g * d) \div 100 \in Int /\ (hw * d) \div 100 \in Int
    BY <2>2
  <2>4. CASE side = "BUY"
    <3>1. (g * d) \div 100 <= (hw * d) \div 100 + (g - hw)
      BY <1>1, <1>2, <1>3, <1>4, <2>4, PercentMonotone
    <3>2. g - (g * d) \div 100 >= hw - (hw * d) \div 100 /\ g - (g * d) \div 100 \in Int
      BY <1>3, <2>3, <3>1
    <3> QED BY <2>1, <2>4, <3>2, PricesAreIntegers DEF AsTight, g
  <2>5. CASE side = "SELL"
    <3>1. (g * d) \div 100 <= (hw * d) \div 100
      BY <1>1, <1>2, <1>3, <1>4, <2>5, PercentMonotone
    <3>2. g + (g * d) \div 100 <= hw + (hw * d) \div 100 /\ g + (g * d) \div 100 \in Int
      BY <1>3, <2>3, <2>5, <3>1
    <3> QED BY <2>1, <2>5, <3>2, PricesAreIntegers DEF AsTight, g
  <2> QED BY <2>4, <2>5 DEF Sides
<1>5. CASE c.trail.mode # "PERCENT"
  <2>1. /\ StopAt(side, c.trail, g) = IF side = "BUY" THEN g - d ELSE g + d
        /\ StopAt(side, c.trail, hw) = IF side = "BUY" THEN hw - d ELSE hw + d
    BY <1>5 DEF StopAt, trailing_stop_from_delta, resolve_trailing_delta, d
  <2>2. AsTight(side, StopAt(side, c.trail, g), StopAt(side, c.trail, hw))
    BY <1>2, <1>3, <2>1, PricesAreIntegers DEF AsTight, Sides
  <2> QED BY <2>2 DEF g
<1> QED BY <1>4, <1>5

(* What a tick makes of the trailing state.                                     *)
LEMMA FollowedTrail ==
  ASSUME TypeOK, Tickable
  PROVE  /\ pm.config.trail = None => Followed.hw = pm.hw /\ Followed.ts = pm.ts
         /\ pm.config.trail # None =>
              /\ Followed.hw = update_high_water(position.side, mark, pm.hw)
              /\ Followed.hw \in Int
              /\ Followed.ts = StopAt(position.side, pm.config.trail, Followed.hw)
<1>1. pm \in ManagerStates
  BY DEF TypeOK, ManagerStates
<1>2. update_high_water(position.side, mark, pm.hw) \in Int
  BY <1>1, PricesAreIntegers DEF update_high_water, TypeOK, Optional, ManagerStates
<1>3. CASE pm.config.trail = None
  BY <1>1, <1>3 DEF Followed, ManagerStates
<1>4. CASE pm.config.trail # None
  BY <1>1, <1>2, <1>4 DEF Followed, ManagerStates, StopAt
<1> QED BY <1>3, <1>4

(* Every step keeps the trailing stop the one of its high-water mark.           *)
LEMMA TrailStep ==
  ASSUME TypeOK, TrailInv, Next
  PROVE  TrailInv'
<1>1. ASSUME NEW m, m.ts = None, pm' = m
      PROVE  TrailInv'
  BY <1>1 DEF TrailInv
<1>2. Unmonitored.ts = None /\ \A c : set_config(c).ts = None
  BY DEF Unmonitored, set_config
<1>3. ASSUME NEW m, m.config = pm.config, m.ts = Followed.ts, m.hw = Followed.hw,
             Tickable, position' \in {position, None}, pm' = m
      PROVE  TrailInv'
  <2>1. CASE pm.config.trail = None
    <3>1. pm.ts = None /\ m.ts = None
      BY <1>3, <2>1, FollowedTrail DEF TrailInv, Tickable
    <3> QED BY <1>1, <1>3, <3>1
  <2>2. CASE pm.config.trail # None
    <3>1. Followed.hw # None
      BY <1>3, <2>2, FollowedTrail, PricesAreIntegers
    <3> QED BY <1>3, <2>2, <3>1, FollowedTrail DEF TrailInv
  <2> QED BY <2>1, <2>2
<1>4. ASSUME NEW m, m.config = pm.config, m.ts = pm.ts, m.hw = pm.hw,
             position' \in {position, None}, pm' = m
      PROVE  TrailInv'
  BY <1>4 DEF TrailInv
<1>5. ASSUME NEW m, Managed(m)
      PROVE  \/ Invalidated(m) = Unmonitored
             \/ /\ Invalidated(m).config = m.config
                /\ Invalidated(m).ts = m.ts
                /\ Invalidated(m).hw = m.hw
                /\ Invalidated(m) = m \/ Invalidated(m) = [m EXCEPT !.sl = m.config.inv.newSl]
  BY <1>5 DEF Invalidated, Managed, ManagerStates
<1>6. ASSUME Tickable
      PROVE  Managed(Followed) /\ Followed.config = pm.config
  BY <1>6, FollowedTypes DEF Managed, Tickable
<1>7. CASE TickOrphan \/ TickFullClose
  BY <1>1, <1>2, <1>7 DEF TickOrphan, TickFullClose
<1>8. CASE TickNone
  BY <1>3, <1>6, <1>8 DEF TickNone
<1>9. CASE TickLevel
  <2>1. CASE IsLastLevel
    BY <1>1, <1>2, <1>9, <2>1 DEF TickLevel
  <2>2. CASE ~IsLastLevel
    <3>1. Tickable /\ position' \in {position, None}
      BY <1>9 DEF TickLevel
    <3>2. pm' = [Followed EXCEPT !.levels = Tail(pm.levels)]
      BY <1>9, <2>2 DEF TickLevel
    <3>3. pm'.config = pm.config /\ pm'.ts = Followed.ts /\ pm'.hw = Followed.hw
      BY <1>6, <3>1, <3>2 DEF Managed, ManagerStates
    <3> QED BY <1>3, <3>1, <3>3
  <2> QED BY <2>1, <2>2
<1>10. CASE TickInvalidates
  <2>1. Tickable /\ position' \in {position, None} /\ pm' = MarkFired(Invalidated(Followed))
    BY <1>10 DEF TickInvalidates
  <2>2. CASE Invalidated(Followed) = Unmonitored
    <3>1. pm' = Unmonitored
      BY <2>1, <2>2 DEF MarkFired, Unmonitored
    <3> QED BY <1>1, <1>2, <3>1
  <2>3. CASE Invalidated(Followed) # Unmonitored
    <3>1. /\ pm'.config = pm.config /\ pm'.ts = Followed.ts /\ pm'.hw = Followed.hw
      BY <1>5, <1>6, <2>1, <2>3 DEF MarkFired, Managed, ManagerStates
    <3> QED BY <1>3, <2>1, <3>1
  <2> QED BY <2>2, <2>3
<1>11. CASE TickFails
  <2>1. Tickable /\ position' \in {position, None}
    BY <1>11 DEF TickFails
  <2>2. pm' = set_config(pm.config) \/ pm' = Followed
    BY <1>11 DEF TickFails, reregister_if_dropped
  <2> QED BY <1>1, <1>2, <1>3, <1>6, <2>1, <2>2
<1>12. ASSUME NEW p \in ValidPlans, Enter(p)
       PROVE  TrailInv'
  BY <1>1, <1>2, <1>12 DEF Enter
<1>13. CASE ExternalClose \/ MarkMoves
  BY <1>4, <1>13 DEF ExternalClose, MarkMoves
<1>14. ASSUME NEW p \in Prices, update_sl(p) \/ update_tp(p)
       PROVE  TrailInv'
  <2>1. position' = position /\ pm'.config = pm.config /\ pm'.ts = pm.ts /\ pm'.hw = pm.hw
    BY <1>14 DEF update_sl, update_tp, TypeOK
  <2> QED BY <1>4, <2>1
<1>15. CASE trigger_setup_invalidation
  <2>1. Managed(pm) /\ position' \in {position, None} /\ pm' \in {Invalidated(pm), Unmonitored, pm}
    BY <1>15 DEF trigger_setup_invalidation, TypeOK, Managed, ManagerStates
  <2> QED BY <1>1, <1>2, <1>4, <1>5, <2>1
<1> QED BY <1>7, <1>8, <1>9, <1>10, <1>11, <1>12, <1>13, <1>14, <1>15 DEF Next, TickDone

(* A tick that closes nothing in full moves the effective stop and the trailing *)
(* stop towards the price, never away from it.                                  *)
THEOREM StopsTighten == Spec => StopsOnlyTighten
<1>1. Init => TrailInv
  BY DEF Init, TrailInv
<1>2. TypeOK /\ TrailInv /\ [Next]_vars => TrailInv'
  <2>1. ASSUME TrailInv, UNCHANGED vars
        PROVE  TrailInv'
    BY <2>1 DEF TrailInv, vars
  <2> QED BY <2>1, TrailStep
<1>3. ASSUME TypeOK, TrailInv, Next, last' \in {"NONE", "TP_PARTIAL"}, Tickable, pm'.config # None
      PROVE  /\ AsTight(position.side, pm'.sl, pm.sl)
             /\ AsTight(position.side, pm'.ts, pm.ts)
  <2>1. pm'.sl = Followed.sl /\ pm'.ts = Followed.ts
    BY <1>3, QuietTick
  <2>2. AsTight(position.side, Followed.sl, pm.sl)
    BY <1>3, BreakEvenMove
  <2>3. AsTight(position.side, Followed.ts, pm.ts)
    <3>1. CASE pm.ts = None
      BY <3>1 DEF AsTight
    <3>2. CASE pm.ts # None
      <4>1. /\ pm.config.trail # None
            /\ pm.hw # None
            /\ pm.ts = StopAt(position.side, pm.config.trail, pm.hw)
        BY <1>3, <3>2 DEF TrailInv, Tickable
      <4>2. /\ position.side \in Sides /\ mark \in Int /\ pm.hw \in Int
            /\ pm.config \in ValidConfigs
        BY <1>3, <4>1, PricesAreIntegers DEF TypeOK, Tickable, Optional
      <4>3. Followed.ts = StopAt(position.side, pm.config.trail,
                                 update_high_water(position.side, mark, pm.hw))
        BY <1>3, <4>1, FollowedTrail
      <4> QED BY <4>1, <4>2, <4>3, TrailTightens
    <3> QED BY <3>1, <3>2
  <2> QED BY <2>1, <2>2, <2>3
<1>4. TypeOK /\ TrailInv /\ [Next]_vars =>
        [(last' \in {"NONE", "TP_PARTIAL"} /\ Tickable /\ pm'.config # None) =>
            /\ AsTight(position.side, pm'.sl, pm.sl)
            /\ AsTight(position.side, pm'.ts, pm.ts)]_vars
  BY <1>3
<1> QED BY <1>1, <1>2, <1>4, TypeCorrect, PTL DEF Spec, StopsOnlyTighten
-----------------------------------------------------------------------------
(* The closes counted at level i: one for each plan registered again after a    *)
(* failed full close, and one more if the present plan has taken the level.     *)
Counted(m, n, failed) ==
    m.config # None =>
        /\ Len(n) = Len(m.config.levels)
        /\ Len(m.levels) <= Len(m.config.levels)
        /\ \A i \in 1..Len(n) :
              n[i] <= failed + (IF i <= Len(m.config.levels) - Len(m.levels) THEN 1 ELSE 0)
CountInv == Counted(pm, closes, failedFull) /\ ReclosedOnlyAfterFailure

(* Every step counts no more closes than the plans registered allow.            *)
LEMMA CountStep ==
  ASSUME TypeOK, CountInv, Next
  PROVE  CountInv'
<1>1. /\ closes \in Seq(Nat) /\ failedFull \in Nat /\ Len(closes) \in Nat
      /\ \A i \in 1..Len(closes) : closes[i] \in Nat
      /\ pm.levels \in Seq(Levels) /\ Len(pm.levels) \in Nat
      /\ Managed(pm)
  BY DEF TypeOK, Managed, ManagerStates
<1>2. ASSUME pm.config # None
      PROVE  /\ pm.config \in ValidConfigs
             /\ pm.config.levels \in Seq(Levels) /\ Len(pm.config.levels) \in Nat
  <2>1. pm.config \in ValidConfigs
    BY <1>2 DEF TypeOK, Optional
  <2>2. pm.config.levels \in Seq(Levels)
    BY <2>1, ValidConfig DEF PositionConfig
  <2> QED BY <2>1, <2>2
<1>3. ASSUME UNCHANGED <<closes, failedFull>>, pm'.config = None
      PROVE  CountInv'
  BY <1>3 DEF CountInv, Counted, ReclosedOnlyAfterFailure
<1>4. ASSUME UNCHANGED <<closes, failedFull>>, pm'.config = pm.config, pm'.levels = pm.levels
      PROVE  CountInv'
  BY <1>4 DEF CountInv, Counted, ReclosedOnlyAfterFailure
<1>5. Unmonitored.config = None
  BY DEF Unmonitored
<1>6. ASSUME Tickable
      PROVE  Managed(Followed) /\ Followed.config = pm.config /\ Followed.levels = pm.levels
  BY <1>6, FollowedTypes DEF Managed, Tickable
<1>7. ASSUME NEW m, Managed(m)
      PROVE  \/ Invalidated(m).config = None
             \/ /\ Invalidated(m).config = m.config
                /\ Invalidated(m).levels = m.levels
                /\ Invalidated(m) = m \/ Invalidated(m) = [m EXCEPT !.sl = m.config.inv.newSl]
  BY <1>5, <1>7 DEF Invalidated, Managed, ManagerStates
<1>8. CASE TickOrphan \/ TickFullClose
  BY <1>3, <1>5, <1>8 DEF TickOrphan, TickFullClose
<1>9. CASE TickNone
  BY <1>4, <1>6, <1>9 DEF TickNone
<1>10. CASE TickLevel
  <2>1. Tickable /\ pm.config # None /\ pm.levels # <<>>
    BY <1>6, <1>10 DEF TickLevel, Tickable, TriggerOf
  <2> DEFINE n == Len(pm.config.levels)
             k == Len(pm.levels)
             i0 == n - k + 1
  <2>2. n \in Nat /\ k \in Nat /\ k >= 1 /\ k <= n /\ Len(closes) = n /\ i0 \in 1..n
    <3>1. n \in Nat /\ k \in Nat /\ k <= n /\ Len(closes) = n
      BY <1>1, <1>2, <2>1 DEF CountInv, Counted
    <3>2. k >= 1
      BY <1>1, <2>1
    <3> HIDE DEF n, k
    <3> QED BY <3>1, <3>2
  <2>3. /\ closes' = [closes EXCEPT ![i0] = @ + 1] /\ failedFull' = failedFull
    BY <1>10 DEF TickLevel, LevelIndex
  <2>4. \A i \in 1..n : closes[i] <= failedFull + (IF i <= n - k THEN 1 ELSE 0)
    BY <2>1, <2>2 DEF CountInv, Counted
  <2>5. closes \in [1..n -> Nat]
    BY <1>1, <2>2
  <2>6. Len(closes') = n
    <3>1. closes' \in [1..n -> Nat]
      BY <2>3, <2>5, CountedOnce
    <3> QED BY <2>2, <3>1
  <2>7. \A i \in 1..n : closes'[i] = IF i = i0 THEN closes[i] + 1 ELSE closes[i]
    BY <2>3, <2>5
  <2> HIDE DEF n, k, i0
  <2>8. \A i \in 1..n : closes'[i] <= failedFull + (IF i <= n - k + 1 THEN 1 ELSE 0)
    <3> SUFFICES ASSUME NEW i \in 1..n
                 PROVE  closes'[i] <= failedFull + (IF i <= n - k + 1 THEN 1 ELSE 0)
      OBVIOUS
    <3>1. closes[i] \in Nat /\ closes[i] <= failedFull + (IF i <= n - k THEN 1 ELSE 0)
      BY <2>4, <2>5
    <3>2. CASE i = i0
      BY <1>1, <2>2, <2>7, <3>1, <3>2 DEF i0
    <3>3. CASE i # i0
      BY <1>1, <2>2, <2>7, <3>1, <3>3 DEF i0
    <3> QED BY <3>2, <3>3
  <2>9. ReclosedOnlyAfterFailure'
    <3> SUFFICES ASSUME NEW i \in 1..n PROVE closes'[i] <= 1 + failedFull
      BY <1>1, <2>2, <2>3, <2>6 DEF ReclosedOnlyAfterFailure
    <3>1. closes'[i] <= failedFull + (IF i <= n - k + 1 THEN 1 ELSE 0)
      BY <2>8
    <3> QED BY <1>1, <2>2, <2>3, <3>1
  <2>10. CASE IsLastLevel
    <3>1. pm'.config = None
      BY <1>5, <1>10, <2>10 DEF TickLevel
    <3> QED BY <2>9, <3>1 DEF CountInv, Counted
  <2>11. CASE ~IsLastLevel
    <3>1. pm' = [Followed EXCEPT !.levels = Tail(pm.levels)]
      BY <1>10, <2>11 DEF TickLevel
    <3>2. pm'.config = pm.config /\ pm'.levels = Tail(pm.levels)
      BY <1>6, <2>1, <3>1 DEF Managed, ManagerStates
    <3>3. Len(pm'.levels) = k - 1
      BY <1>1, <2>1, <3>2 DEF k
    <3>4. /\ Len(pm'.config.levels) = n /\ Len(pm'.levels) <= Len(pm'.config.levels)
          /\ Len(pm'.config.levels) - Len(pm'.levels) = n - k + 1
      <4>1. Len(pm'.config.levels) = n
        BY <3>2 DEF n
      <4> QED BY <2>2, <3>3, <4>1
    <3>5. \A i \in 1..Len(closes') : closes'[i] <= failedFull' +
               (IF i <= Len(pm'.config.levels) - Len(pm'.levels) THEN 1 ELSE 0)
      BY <2>3, <2>6, <2>8, <3>4
    <3>6. Counted(pm', closes', failedFull')
      BY <2>6, <3>4, <3>5 DEF Counted
    <3> QED BY <2>9, <3>6 DEF CountInv
  <2> QED BY <2>10, <2>11
<1>11. CASE TickInvalidates
  <2>1. Tickable /\ UNCHANGED <<closes, failedFull>> /\ pm' = MarkFired(Invalidated(Followed))
    BY <1>11 DEF TickInvalidates
  <2>2. \/ pm'.config = None
        \/ pm'.config = pm.config /\ pm'.levels = pm.levels
    BY <1>6, <1>7, <2>1 DEF MarkFired, Managed, ManagerStates
  <2> QED BY <1>3, <1>4, <2>1, <2>2
<1>12. CASE TickFails
  <2>1. Tickable /\ pm.config # None /\ closes' = closes
    BY <1>12 DEF TickFails, Tickable
  <2>2. CASE IsFullClose(TriggerOf(Followed))
    <3>1. pm' = set_config(pm.config) /\ failedFull' = failedFull + 1
      BY <1>12, <2>2 DEF TickFails, reregister_if_dropped
    <3>2. pm'.config = pm.config /\ pm'.levels = pm.config.levels
      BY <3>1 DEF set_config
    <3>3. \A i \in 1..Len(closes) : closes[i] <= failedFull + 1
      BY <1>1 DEF CountInv, ReclosedOnlyAfterFailure
    <3>4. Counted(pm', closes', failedFull')
      <4>1. /\ Len(pm'.config.levels) - Len(pm'.levels) = 0
            /\ Len(closes') = Len(pm'.config.levels) /\ Len(pm'.levels) <= Len(pm'.config.levels)
        BY <1>2, <2>1, <3>2 DEF Counted, CountInv
      <4>2. \A i \in 1..Len(closes') : closes'[i] <= failedFull' +
                 (IF i <= Len(pm'.config.levels) - Len(pm'.levels) THEN 1 ELSE 0)
        BY <1>1, <2>1, <3>1, <3>3, <4>1
      <4> QED BY <4>1, <4>2 DEF Counted
    <3>5. ReclosedOnlyAfterFailure'
      BY <1>1, <2>1, <3>1, <3>3 DEF ReclosedOnlyAfterFailure
    <3> QED BY <3>4, <3>5 DEF CountInv
  <2>3. CASE ~IsFullClose(TriggerOf(Followed))
    BY <1>4, <1>6, <1>12, <2>1, <2>3 DEF TickFails, reregister_if_dropped
  <2> QED BY <2>2, <2>3
<1>13. ASSUME NEW p \in ValidPlans, Enter(p)
       PROVE  CountInv'
  <2>1. p.config.levels \in Seq(Levels) /\ Len(p.config.levels) \in Nat
    BY PlansHaveConfigs DEF ValidPlans, PositionConfig
  <2>2. /\ pm'.config = p.config /\ pm'.levels = p.config.levels /\ failedFull' = 0
        /\ closes' = [i \in 1..Len(p.config.levels) |-> 0]
    BY <1>13 DEF Enter, set_config
  <2>3. Len(closes') = Len(p.config.levels) /\ \A i \in 1..Len(closes') : closes'[i] = 0
    BY <2>1, <2>2
  <2> QED BY <2>1, <2>2, <2>3 DEF CountInv, Counted, ReclosedOnlyAfterFailure
<1>14. CASE ExternalClose \/ MarkMoves
  BY <1>4, <1>14 DEF ExternalClose, MarkMoves
<1>15. ASSUME NEW p \in Prices, update_sl(p)
       PROVE  CountInv'
  BY <1>4, <1>15 DEF update_sl, TypeOK
<1>16. ASSUME NEW p \in Prices, update_tp(p)
       PROVE  CountInv'
  <2>1. /\ pm.config # None /\ pm'.config = pm.config /\ pm'.levels = <<>>
        /\ UNCHANGED <<closes, failedFull>>
    BY <1>16 DEF update_tp, TypeOK
  <2>2. Len(pm'.levels) = 0
    BY <2>1
  <2>3. \A i \in 1..Len(closes) : closes[i] <= failedFull + 1
    BY <1>1 DEF CountInv, ReclosedOnlyAfterFailure
  <2>4. Counted(pm', closes', failedFull')
    BY <1>1, <1>2, <2>1, <2>2, <2>3 DEF Counted, CountInv
  <2> QED BY <2>1, <2>4 DEF CountInv, ReclosedOnlyAfterFailure
<1>17. CASE trigger_setup_invalidation
  <2>1. UNCHANGED <<closes, failedFull>> /\ pm' \in {Invalidated(pm), Unmonitored, pm}
    BY <1>17 DEF trigger_setup_invalidation
  <2> QED BY <1>1, <1>3, <1>4, <1>5, <1>7, <2>1
<1> QED BY <1>8, <1>9, <1>10, <1>11, <1>12, <1>13, <1>14, <1>15, <1>16, <1>17 DEF Next, TickDone

(* A take-profit level closes its share again at most once for every full close *)
(* that has failed since the entry: never after a failed partial close.         *)
THEOREM ReclosesAreFailures == Spec => []ReclosedOnlyAfterFailure
<1>1. Init => CountInv
  BY DEF Init, CountInv, Counted, ReclosedOnlyAfterFailure, Unmonitored
<1>2. TypeOK /\ CountInv /\ [Next]_vars => CountInv'
  <2>1. ASSUME CountInv, UNCHANGED vars
        PROVE  CountInv'
    BY <2>1 DEF CountInv, Counted, ReclosedOnlyAfterFailure, vars
  <2> QED BY <2>1, CountStep
<1>3. CountInv => ReclosedOnlyAfterFailure
  BY DEF CountInv
<1> QED BY <1>1, <1>2, <1>3, TypeCorrect, PTL DEF Spec
============================================================================
