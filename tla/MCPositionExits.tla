--------------------------- MODULE MCPositionExits ---------------------------
(***************************************************************************)
(* An instance of PositionExits for TLC: four prices ten ticks apart, long   *)
(* entries with an exit config of every kind, the distances falling on and   *)
(* between the prices, and short ones with one config of each, mirrored.     *)
(***************************************************************************)
EXTENDS PositionExits

MCPrices == {10, 20, 30, 40}

plain == [sl |-> 20, tp |-> 40, levels |-> <<>>, trail |-> None, be |-> None, inv |-> None]
breakEven(trigger, offset) == [trigger |-> trigger, offset |-> offset]
action(p, newSl, close) == [price |-> p, newSl |-> newSl, close |-> close]
Level(p, f) == [price |-> p, full |-> f]

BreakEven == [plain EXCEPT !.sl = None, !.be = breakEven(10, 0)]
Trailed(m) == [plain EXCEPT !.tp = None, !.trail = [mode |-> m, dist |-> 15]]
Invalidatable(newSl, c) == [plain EXCEPT !.sl = 10, !.inv = action(20, newSl, c)]

(* The second level may already close everything that is left. *)
Levelled(f) ==
    [plain EXCEPT !.tp = None, !.trail = [mode |-> "FIXED", dist |-> 10],
                  !.levels = <<Level(30, FALSE), Level(35, f), Level(40, TRUE)>>]

OneOfEach == {BreakEven, Trailed("PERCENT"), Levelled(FALSE), Invalidatable(20, "part")}

(* Break-even offsets below, at and above the trigger: the last two are refused. *)
Others ==
    {[plain EXCEPT !.be = breakEven(10, o)] : o \in {5, 10, 15}}
        \cup {Trailed("ATR"), Levelled(TRUE), Invalidatable(20, "no"), Invalidatable(None, "full")}

(* The same config for a short: every price reflected at 25. *)
Reflect(x) == IF x = None THEN None ELSE 50 - x
Mirror(c) ==
    [c EXCEPT !.sl = Reflect(@), !.tp = Reflect(@),
              !.levels = [i \in 1..Len(@) |-> [@[i] EXCEPT !.price = Reflect(@)]],
              !.inv = IF @ = None THEN None
                      ELSE [@ EXCEPT !.price = Reflect(@), !.newSl = Reflect(@)]]

AllPlans ==
    {[side |-> "BUY", config |-> c] : c \in OneOfEach \cup Others}
        \cup {[side |-> "SELL", config |-> Mirror(c)] : c \in OneOfEach}
=============================================================================
