----------------------------- MODULE MCDecision -----------------------------
(* Instances of Decision for TLC.                                           *)
EXTENDS Decision, TLC

(* Candles that open at 1000: a body of r, up or down; a wick of r below or  *)
(* above; and half a body with the rest a wick.                              *)
Candle(close, high, low) == [open |-> 1000, close |-> 1000 + close, high |-> 1000 + high,
                             low |-> 1000 - low]
Up(r) == Candle(r, r, 0)
Down(r) == Candle(-r, 0, r)
Doji(r) == Candle(0, r \div 2, r \div 2)
Hammer(r) == Candle(0, 0, r)
Star(r) == Candle(0, r, 0)
UpWick(r) == Candle(r \div 2, r, 0)
DownWick(r) == Candle(-(r \div 2), 0, r)

(* Seven candles around a low of 990 and a high of 1010.                     *)
Levels == [i \in 1..7 |-> IF i = 4 THEN Doji(20) ELSE Doji(10)]

(* The last three are not delivered: too old, a gap, a wide spread.          *)
Scenarios ==
    <<[funding |-> None, interest |-> None, quiet |-> FALSE, history |-> <<>>,
       age |-> 1, count |-> 3, half |-> 1],
      [funding |-> 12, interest |-> 900, quiet |-> TRUE, history |-> Levels,
       age |-> 30, count |-> 48, half |-> 1],
      [funding |-> -3, interest |-> 100, quiet |-> FALSE, history |-> Levels,
       age |-> 1, count |-> 3, half |-> 20],
      [funding |-> 0, interest |-> 100, quiet |-> FALSE, history |-> Levels,
       age |-> 31, count |-> 3, half |-> 1],
      [funding |-> 0, interest |-> 100, quiet |-> FALSE, history |-> Levels,
       age |-> 1, count |-> 2, half |-> 1],
      [funding |-> 0, interest |-> 100, quiet |-> FALSE, history |-> Levels,
       age |-> 1, count |-> 3, half |-> 50]>>

Snapshot(fast, hour, four, away, e) ==
    LET last == CASE away = 1 -> four.high + 25 [] away = -1 -> four.low - 25
                  [] away = 0 -> (four.high + four.low) \div 2
    IN  [candles |-> [tf \in Timeframes |->
                         CASE tf \in {"5m", "15m"} -> fast [] tf = "1h" -> hour [] tf = "4h" -> four],
         history |-> [tf \in Timeframes |-> e.history],
         last |-> last, bid |-> last - e.half, ask |-> last + e.half, age |-> e.age,
         funding |-> e.funding, interest |-> e.interest, volume |-> 500,
         volumes |-> [tf \in Timeframes |-> IF e.quiet /\ tf = "5m" THEN 1 ELSE 48],
         counts |-> [tf \in Timeframes |-> IF tf = "5m" THEN 1 ELSE e.count]]

Fast == <<Up(20), Down(20), Hammer(20), Star(20)>>
Hour == <<Up(20), Down(20), Doji(20), Hammer(20), UpWick(20), DownWick(20), Up(60), Doji(2)>>
Four == <<Up(60), Down(60), Doji(20)>>

MCSnapshots ==
    [k \in [fast : 1..4, hour : 1..8, four : 1..3, away : -1..1, scenario : 1..6] |->
        Snapshot(Fast[k.fast], Hour[k.hour], Four[k.four], k.away, Scenarios[k.scenario])]

(* The hypothesis of SidesAreAlike (DecisionProofs) is true of what is delivered. *)
ASSUME DeliveredTurn == \A k \in Delivered : MeasuresAlike(Snapshots[k]) /\ SweepsOneSide(Snapshots[k])

MCAnswers ==
    [decision : {"LONG", "SHORT"}, confidence : {69, 90}]
        \cup {[decision |-> "NO_OPERAR", confidence |-> 90]}

(* Entries at 100: side 1 is a LONG, -1 a SHORT.  One with no entry and no    *)
(* liquidation is not for execution.  NearLiquidation: the stop comes before  *)
(* the liquidation, and the liquidation before its minimal distance.         *)
Entries ==
    [side : {1, -1}, sl : {-2, 3}, tp : {4, 6}, type : {"MARKET", "LIMIT", "NO_ENTRY"},
     liquidation : {0, 3, 10, 100, 120}, margin : {5, 8}, leverage : {5, 8}]
NearLiquidation ==
    [side : {1, -1}, sl : {3}, tp : {6}, type : {"MARKET"}, liquidation : {4}, margin : {5},
     leverage : {5, 8}]

MCTerms ==
    [k \in Entries \cup NearLiquidation |->
        [decision |-> IF k.side = 1 THEN "LONG" ELSE "SHORT",
         execute |-> k.type # "NO_ENTRY" \/ k.liquidation # 0, entry_type |-> k.type,
         entry |-> 100, sl |-> 100 - k.side * k.sl, tp |-> 100 + k.side * k.tp,
         margin |-> k.margin, leverage |-> k.leverage, liquidation |-> k.liquidation,
         plan |-> FALSE]]

Good ==
    [trades |-> <<>>, funding |-> None, count |-> 0, open_pnl |-> None,
     rates |-> [maker |-> 2, taker |-> 5]]

Trade(own, today, pnl, margin, leverage) ==
    [own |-> own, today |-> today, pnl |-> pnl, margin |-> margin, leverage |-> leverage]
With(trades) == [Good EXCEPT !.trades = trades]

(* A loss of today at and below the limit, of all days, before a gain, of     *)
(* another symbol, with less margin and with less leverage.                  *)
MCAccounts ==
    <<Good, [Good EXCEPT !.count = None], [Good EXCEPT !.count = 1],
      [Good EXCEPT !.rates = None], [Good EXCEPT !.rates = [maker |-> -1, taker |-> 5]],
      [Good EXCEPT !.rates = [maker |-> 40, taker |-> 90]], [Good EXCEPT !.open_pnl = -1],
      With(<<Trade(TRUE, TRUE, -6, 5, 5), Trade(TRUE, TRUE, 3, 2, 2),
             Trade(FALSE, TRUE, -4, 5, 5)>>),
      With(<<Trade(TRUE, FALSE, -30, 5, 5), Trade(TRUE, FALSE, -20, 5, 5)>>),
      With(<<Trade(TRUE, TRUE, -1, 3, 5), Trade(FALSE, TRUE, 1, 5, 3)>>),
      With(<<Trade(TRUE, TRUE, -9, 3, 5), Trade(TRUE, FALSE, 1, 3, 3)>>),
      With(<<Trade(TRUE, TRUE, 1, 5, 5), Trade(FALSE, TRUE, -9, 3, 3)>>),
      With(<<Trade(FALSE, FALSE, -9, 5, 5), Trade(TRUE, FALSE, -1, 5, 5)>>)>>

MCLeverage == [paper |-> 5, testnet |-> 5, live_initial |-> 3, live_absolute |-> 5,
               live_phase |-> "INITIAL"]
=============================================================================
