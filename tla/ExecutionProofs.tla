--------------------------- MODULE ExecutionProofs ---------------------------
(***************************************************************************)
(* Proofs about Execution, for any finite set of symbols, every set of       *)
(* decisions and every bound of positions and faults.                        *)
(*                                                                           *)
(* A call of place_order that has timed out goes on in its thread, and may   *)
(* fill the order, open a position or be asked for again while the worker is *)
(* elsewhere.  So no property is inductive: each is proved with a count of   *)
(* what the threads can still do, and faults pay for the threads.            *)
(*   OrphansInv  every thread left behind took a timeout of its own;         *)
(*   MemoryInv   the adapter's memory, its fills and the rows agree;         *)
(*   FilledInv   fills so far and calls about to fill are bounded together;  *)
(*   OpenInv     positions, and the one on its way, against the worker's     *)
(*               count of the tick;                                          *)
(*   CoverInv    positions without a plan and threads against the faults;    *)
(*   SeenInv     while entries are possible the gate has seen none of them;  *)
(*   QuietInv    without a fault everything is recorded and tracked.         *)
(* The last part shows that Execution implements OrderLedger, and what       *)
(* follows from that for its orders.                                         *)
(***************************************************************************)
EXTENDS Execution, FiniteSetTheorems, TLAPS

(* What NextSymbol leaves: the next symbol of this tick, or no tick.           *)
LEMMA NextSymbolMoves ==
    ASSUME NEW t \in Tick, NextSymbol(t)
    PROVE  /\ pc' \in {"market", "pipeline"}
           /\ tick' \in Tick
           /\ tick' = t \/ (pc' = "market" /\ tick' = NoTick)
<1>1. NoTick \in Tick
  <2>1. Cardinality(Symbols) \in Nat
    BY SymbolsFinite, FS_CardinalityType
  <2>2. QED
    BY <2>1 DEF NoTick, Tick
<1>2. QED
  BY <1>1 DEF NextSymbol

(* The position of no symbol is counted twice.                                  *)
LEMMA OpenCounted ==
    ASSUME NEW S \in SUBSET Symbols
    PROVE  IsFiniteSet(S) /\ Cardinality(S) \in 0..Cardinality(Symbols)
  BY SymbolsFinite, FS_CardinalityType, FS_Subset

(* One element more or less, and a part, of a finite set.                      *)
LEMMA OneMoreOrLess ==
    ASSUME NEW S, IsFiniteSet(S), NEW x
    PROVE  /\ Cardinality(S) \in Nat
           /\ IsFiniteSet(S \cup {x}) /\ Cardinality(S \cup {x}) \in Nat
           /\ Cardinality(S \cup {x}) = IF x \in S THEN Cardinality(S) ELSE Cardinality(S) + 1
           /\ IsFiniteSet(S \ {x}) /\ Cardinality(S \ {x}) \in Nat
           /\ Cardinality(S \ {x}) = IF x \in S THEN Cardinality(S) - 1 ELSE Cardinality(S)
<1>1. Cardinality(S) \in Nat
  BY FS_CardinalityType
<1>2. IsFiniteSet(S \cup {x}) /\ IsFiniteSet(S \ {x})
  BY FS_AddElement, FS_RemoveElement
<1>3. Cardinality(S \cup {x}) \in Nat /\ Cardinality(S \ {x}) \in Nat
  BY <1>2, FS_CardinalityType
<1>4. QED
  BY <1>1, <1>2, <1>3, FS_AddElement, FS_RemoveElement

(* The same, where it does not matter whether x was in the set.                 *)
LEMMA OneMoreAtMost ==
    ASSUME NEW S, IsFiniteSet(S), NEW x
    PROVE  /\ Cardinality(S) \in Nat
           /\ IsFiniteSet(S \cup {x}) /\ Cardinality(S \cup {x}) \in Nat
           /\ Cardinality(S \cup {x}) <= Cardinality(S) + 1
<1>1. IsFiniteSet(S \cup {x})
  BY FS_AddElement
<1>2. Cardinality(S) \in Nat /\ Cardinality(S \cup {x}) \in Nat
  BY <1>1, FS_CardinalityType
<1>3. Cardinality(S \cup {x}) = IF x \in S THEN Cardinality(S) ELSE Cardinality(S) + 1
  BY FS_AddElement
<1>4. QED
  BY <1>1, <1>2, <1>3

(* A part of a finite set is finite, and no larger.                             *)
LEMMA PartIsNoLarger ==
    ASSUME NEW S, IsFiniteSet(S), NEW T, T \subseteq S
    PROVE  /\ IsFiniteSet(T) /\ Cardinality(T) \in Nat
           /\ Cardinality(S) \in Nat /\ Cardinality(T) <= Cardinality(S)
<1>1. T \in SUBSET S
  OBVIOUS
<1>2. QED
  BY <1>1, FS_Subset, FS_CardinalityType

(* What the worker writes into its locals are locals again.                     *)
LEMMA TickTypes ==
    /\ \A S \in SUBSET Symbols, P \in SUBSET Symbols :
           [NoTick EXCEPT !.count = Cardinality(P), !.todo = S] \in Tick
    /\ \A t \in Tick : \A s : /\ [t EXCEPT !.todo = @ \ {s}] \in Tick
                                 /\ [t EXCEPT !.todo = @ \ {s}, !.opened = @ + 1] \in Tick
    /\ \A t \in Tick, F, E \in SUBSET Symbols, b \in BOOLEAN :
           [t EXCEPT !.unverified = F, !.reliable = b, !.exposed = E] \in Tick
<1>1. ASSUME NEW S \in SUBSET Symbols, NEW P \in SUBSET Symbols
      PROVE  [NoTick EXCEPT !.count = Cardinality(P), !.todo = S] \in Tick
  <2>1. Cardinality(P) \in 0..Cardinality(Symbols)
    BY OpenCounted
  <2>2. QED
    BY <2>1 DEF NoTick, Tick
<1>2. ASSUME NEW t \in Tick, NEW s
      PROVE  /\ [t EXCEPT !.todo = @ \ {s}] \in Tick
             /\ [t EXCEPT !.todo = @ \ {s}, !.opened = @ + 1] \in Tick
  <2>1. t.opened + 1 \in Nat
    BY DEF Tick
  <2>2. QED
    BY <2>1 DEF Tick
<1>3. ASSUME NEW t \in Tick, NEW F \in SUBSET Symbols, NEW E \in SUBSET Symbols,
             NEW b \in BOOLEAN
      PROVE  [t EXCEPT !.unverified = F, !.reliable = b, !.exposed = E] \in Tick
  BY DEF Tick
<1>4. QED
  BY <1>1, <1>2, <1>3

(* A call that looks the id up, or ends with an answer, is a call again.        *)
LEMMA CallTypes ==
    ASSUME NEW c \in Call
    PROVE  /\ c.id \in Decisions /\ c.symbol \in Symbols
           /\ [c EXCEPT !.checked = TRUE] \in Call
           /\ \A r \in OrderResult : [c EXCEPT !.result = r] \in Call
  BY DEF Call

(* Every step preserves the types.                                              *)
LEMMA TypeOKStep == TypeOK /\ [Next]_vars => TypeOK'
<1> SUFFICES ASSUME TypeOK, [Next]_vars PROVE TypeOK'
  OBVIOUS
<1> USE ExecutionBounds, NoneIsNoRecord DEF TypeOK, OrderRows, Pcs, Faults, exchange, rows
<1>1. CASE TickMarketData
  <2>1. tick' \in Tick
    <3>1. PICK S \in SUBSET Symbols :
             tick' = [NoTick EXCEPT !.count = Cardinality(open), !.todo = S]
      BY <1>1 DEF TickMarketData
    <3>2. open \in SUBSET Symbols
      OBVIOUS
    <3>3. QED
      BY <3>1, <3>2, TickTypes
  <2>2. QED
    BY <1>1, <2>1 DEF TickMarketData
<1>2. CASE TickPositions
  BY <1>2 DEF TickPositions
<1>3. CASE Gate
  <2>1. PICK report \in reconcile, exposed \in SUBSET Symbols :
           NextSymbol([tick EXCEPT !.unverified = report.failed,
                                   !.reliable = is_complete(report), !.exposed = exposed])
    BY <1>3 DEF Gate
  <2>2. [tick EXCEPT !.unverified = report.failed, !.reliable = is_complete(report),
                     !.exposed = exposed] \in Tick
    BY TickTypes DEF reconcile, is_complete
  <2>3. pc' \in {"market", "pipeline"} /\ tick' \in Tick
    BY <2>1, <2>2, NextSymbolMoves
  <2>4. faults' \in Faults
    <3> DEFINE asked(r) == [faults EXCEPT !.fetch = IF is_complete(r) THEN @ ELSE @ + 1]
    <3>1. PICK r \in reconcile :
             /\ asked(r).fetch <= MaxFetchErrors
             /\ \/ faults' = asked(r)
                \/ faults.db < MaxDbErrors /\ faults' = [asked(r) EXCEPT !.db = @ + 1]
      BY <1>3 DEF Gate
    <3>2. /\ asked(r) \in Faults
          /\ asked(r).db = faults.db
      BY <3>1
    <3> HIDE DEF asked
    <3>3. QED
      BY <3>1, <3>2
  <2>5. mode' \in {"ACTIVE", "SAFE_MODE"}
    BY <1>3 DEF Gate
  <2>6. pc = "gate" /\ UNCHANGED <<exchange, rows, plans, call, orphans>>
    BY <1>3 DEF Gate
  <2>7. QED
    BY <2>3, <2>4, <2>5, <2>6
<1>4. CASE SymbolSkipped
  <2>1. PICK s \in tick.todo : NextSymbol([tick EXCEPT !.todo = @ \ {s}])
    BY <1>4 DEF SymbolSkipped
  <2>2. [tick EXCEPT !.todo = @ \ {s}] \in Tick
    BY TickTypes
  <2>3. QED
    BY <1>4, <2>1, <2>2, NextSymbolMoves DEF SymbolSkipped
<1>5. \A s \in Symbols : Counted(s) \in Tick
  BY TickTypes DEF Counted
<1>6. CASE Replay \/ NotSent
  BY <1>5, <1>6, NextSymbolMoves DEF Replay, NotSent, Approved
<1>7. CASE Send
  <2>1. call' \in Call /\ call'.result = None
    BY <1>7 DEF Send, Call
  <2>2. tick' \in Tick
    BY <1>5, <1>7 DEF Send
  <2>3. QED
    BY <1>7, <2>1, <2>2 DEF Send
<1>8. CASE PlaceLooksUp
  <2>1. call \in Call
    BY <1>8 DEF PlaceLooksUp
  <2>2. call' \in Call /\ (call'.result # None) = (pc' = "persist")
    BY <1>8, <2>1, ZenonT(60) DEF PlaceLooksUp, Unknown, Call
  <2>3. QED
    BY <1>8, <2>2 DEF PlaceLooksUp
<1>9. ASSUME NEW c \in Call, Fill(c)
      PROVE  /\ orders' \in [Decisions -> OrderResult \cup {None}]
             /\ open' \subseteq Symbols
             /\ fills' \in [Decisions -> Nat]
             /\ Filled(c) \in OrderResult
  BY <1>9 DEF Fill, Filled, Call, OrderResult
<1>10. CASE PlaceFills
  <2>1. call \in Call
    BY <1>10 DEF PlaceFills
  <2>2. call' \in Call /\ call'.result \in OrderResult
    BY <1>9, <1>10, <2>1 DEF PlaceFills, Call
  <2>3. QED
    BY <1>9, <1>10, <2>1, <2>2 DEF PlaceFills
<1>11. CASE PlaceTimesOut
  <2>1. pc' \in {"market", "pipeline"} /\ tick' \in Tick
    BY <1>11, NextSymbolMoves DEF PlaceTimesOut
  <2>2. orphans' \subseteq [call : Call, n : 1..MaxTimeouts]
    BY <1>11 DEF PlaceTimesOut
  <2>3. QED
    BY <1>11, <2>1, <2>2 DEF PlaceTimesOut
<1>12. CASE OrphanLooksUp
  <2>1. PICK o \in orphans :
          orphans' = (orphans \ {o}) \cup
              (IF Unknown(o.call) THEN {[o EXCEPT !.call.checked = TRUE]} ELSE {})
    BY <1>12 DEF OrphanLooksUp
  <2>2. [o EXCEPT !.call.checked = TRUE] \in [call : Call, n : 1..MaxTimeouts]
    <3>1. [o.call EXCEPT !.checked = TRUE] \in Call
      BY CallTypes
    <3>2. QED
      BY <3>1
  <2>3. orphans' \subseteq [call : Call, n : 1..MaxTimeouts]
    BY <2>1, <2>2
  <2>4. QED
    BY <1>12, <2>3 DEF OrphanLooksUp
<1>13. CASE OrphanFills
  <2>1. PICK o \in orphans : Fill(o.call) /\ late' \in Nat /\ orphans' = orphans \ {o}
    BY <1>13 DEF OrphanFills
  <2>2. QED
    BY <1>9, <1>13, <2>1 DEF OrphanFills
<1>14. CASE PersistDone
  <2>1. call \in Call /\ call.result \in OrderResult
    BY <1>14 DEF PersistDone, Call
  <2>2. db' \in OrderRows
    BY <1>14, <2>1 DEF PersistDone, _persist_order, Call
  <2>3. tracked' \subseteq Symbols /\ plans' \subseteq Symbols
    BY <1>14, <2>1 DEF PersistDone, _persist_position, _register_position_manager, Call
  <2>4. pc' \in {"market", "pipeline"} /\ tick' \in Tick
    BY <1>14, NextSymbolMoves DEF PersistDone
  <2>5. QED
    BY <1>14, <2>2, <2>3, <2>4 DEF PersistDone
<1>15. CASE PersistFails
  <2>1. call \in Call
    BY <1>15 DEF PersistFails
  <2>2. plans' \subseteq Symbols
    BY <1>15, <2>1 DEF PersistFails, _register_position_manager, Call
  <2>3. pc' \in {"market", "pipeline"} /\ tick' \in Tick
    BY <1>15, NextSymbolMoves DEF PersistFails
  <2>4. faults' \in Faults
    BY <1>15 DEF PersistFails, DbError
  <2>5. QED
    BY <1>15, <2>2, <2>3, <2>4 DEF PersistFails
<1>16. CASE PlanRefused
  <2>1. pc' \in {"market", "pipeline"} /\ tick' \in Tick
    BY <1>16, NextSymbolMoves DEF PlanRefused
  <2>2. faults' \in Faults
    BY <1>16 DEF PlanRefused
  <2>3. QED
    BY <1>16, <2>1, <2>2 DEF PlanRefused
<1>17. CASE UNCHANGED vars
  BY <1>17 DEF vars
<1>18. QED
  BY <1>1, <1>2, <1>3, <1>4, <1>6, <1>7, <1>8, <1>10, <1>11, <1>12, <1>13, <1>14, <1>15, <1>16,
     <1>17 DEF Next, Worker
-----------------------------------------------------------------------------
(***************************************************************************)
(* The threads that have timed out.                                          *)
(***************************************************************************)
(* Each took one of the timeouts, and none took two.                            *)
OrphansInv ==
    /\ IsFiniteSet(orphans)
    /\ Cardinality(orphans) <= faults.timeout
    /\ \A o \in orphans : o.n <= faults.timeout
    /\ \A o, p \in orphans : o.n = p.n => o = p

(* Faults are only ever added; a timeout is the one of PlaceTimesOut.           *)
LEMMA FaultsGrow ==
    ASSUME TypeOK, [Next]_vars
    PROVE  /\ \A k \in {"db", "timeout", "fetch", "plan"} :
                 faults[k] \in Nat /\ faults'[k] \in Nat /\ faults[k] <= faults'[k]
           /\ ~PlaceTimesOut => faults'.timeout = faults.timeout
           /\ PlaceTimesOut => /\ faults'.timeout = faults.timeout + 1
                              /\ faults'.db = faults.db /\ faults'.plan = faults.plan
<1>1. /\ faults \in Faults
      /\ \A k \in {"db", "timeout", "fetch", "plan"} : faults[k] \in Nat
  BY ExecutionBounds DEF TypeOK, Faults
<1> USE DEF Faults
<1>2. CASE Gate
  <2> DEFINE asked(r) == [faults EXCEPT !.fetch = IF is_complete(r) THEN @ ELSE @ + 1]
  <2>1. PICK r \in reconcile :
           faults' = asked(r) \/ faults' = [asked(r) EXCEPT !.db = @ + 1]
    BY <1>2 DEF Gate
  <2>2. ~PlaceTimesOut
    BY <1>2 DEF Gate, PlaceTimesOut
  <2>3. /\ asked(r) \in [db : Nat, timeout : Nat, fetch : Nat, plan : Nat]
        /\ asked(r).db = faults.db /\ asked(r).timeout = faults.timeout
        /\ asked(r).plan = faults.plan
        /\ asked(r).fetch >= faults.fetch
    BY <1>1
  <2> HIDE DEF asked
  <2>4. QED
    BY <1>1, <2>1, <2>2, <2>3
<1>3. CASE PlaceTimesOut
  BY <1>1, <1>3 DEF PlaceTimesOut
<1>4. CASE PersistFails
  BY <1>1, <1>4 DEF PersistFails, PlaceTimesOut, DbError
<1>5. CASE PlanRefused
  BY <1>1, <1>5 DEF PlanRefused, PlaceTimesOut
<1>6. CASE UNCHANGED faults /\ ~PlaceTimesOut
  BY <1>1, <1>6
<1>7. UNCHANGED faults \/ Gate \/ PersistFails \/ PlanRefused \/ PlaceTimesOut
  BY DEF Next, Worker, vars, TickMarketData, TickPositions, SymbolSkipped, Replay, NotSent, Send,
         PlaceLooksUp, PlaceFills, PersistDone, OrphanLooksUp, OrphanFills
<1>8. QED
  BY <1>2, <1>3, <1>4, <1>5, <1>6, <1>7

(* A timeout adds one, a look-up none, and a fill takes one away.               *)
LEMMA OrphansCounted ==
    ASSUME TypeOK, OrphansInv
    PROVE  /\ Cardinality(orphans) \in Nat
           /\ PlaceTimesOut \/ OrphanLooksUp \/ OrphanFills =>
                 IsFiniteSet(orphans') /\ Cardinality(orphans') \in Nat
           /\ PlaceTimesOut => Cardinality(orphans') <= Cardinality(orphans) + 1
           /\ OrphanLooksUp => Cardinality(orphans') <= Cardinality(orphans)
           /\ OrphanFills => Cardinality(orphans') = Cardinality(orphans) - 1
<1>1. IsFiniteSet(orphans) /\ Cardinality(orphans) \in Nat
  BY FS_CardinalityType DEF OrphansInv
<1>2. ASSUME PlaceTimesOut
      PROVE  /\ IsFiniteSet(orphans') /\ Cardinality(orphans') \in Nat
             /\ Cardinality(orphans') <= Cardinality(orphans) + 1
  <2>1. PICK o : orphans' = orphans \cup {o}
    BY <1>2 DEF PlaceTimesOut
  <2>2. QED
    BY <1>1, <2>1, OneMoreAtMost
<1>3. ASSUME NEW o \in orphans
      PROVE  /\ IsFiniteSet(orphans \ {o})
             /\ Cardinality(orphans \ {o}) \in Nat
             /\ Cardinality(orphans \ {o}) = Cardinality(orphans) - 1
  BY <1>1, OneMoreOrLess
<1>4. ASSUME OrphanLooksUp
      PROVE  /\ IsFiniteSet(orphans') /\ Cardinality(orphans') \in Nat
             /\ Cardinality(orphans') <= Cardinality(orphans)
  <2>1. \E o \in orphans : \E p :
           orphans' = orphans \ {o} \/ orphans' = (orphans \ {o}) \cup {p}
    BY <1>4 DEF OrphanLooksUp
  <2> PICK o \in orphans : \E p :
           orphans' = orphans \ {o} \/ orphans' = (orphans \ {o}) \cup {p}
    BY <2>1
  <2> PICK p : orphans' = orphans \ {o} \/ orphans' = (orphans \ {o}) \cup {p}
    OBVIOUS
  <2>2. /\ IsFiniteSet(orphans \ {o})
        /\ Cardinality(orphans \ {o}) \in Nat
        /\ Cardinality(orphans \ {o}) = Cardinality(orphans) - 1
    BY <1>3
  <2>3. /\ IsFiniteSet((orphans \ {o}) \cup {p})
        /\ Cardinality((orphans \ {o}) \cup {p}) \in Nat
        /\ Cardinality((orphans \ {o}) \cup {p}) <= Cardinality(orphans \ {o}) + 1
    BY <2>2, OneMoreAtMost
  <2>4. CASE orphans' = orphans \ {o}
    BY <1>1, <2>2, <2>4
  <2>5. CASE orphans' = (orphans \ {o}) \cup {p}
    BY <1>1, <2>2, <2>3, <2>5
  <2>6. QED
    BY <2>4, <2>5
<1>5. ASSUME OrphanFills
      PROVE  /\ IsFiniteSet(orphans') /\ Cardinality(orphans') \in Nat
             /\ Cardinality(orphans') = Cardinality(orphans) - 1
  BY <1>3, <1>5 DEF OrphanFills
<1>6. QED
  BY <1>1, <1>2, <1>4, <1>5

(* Every step keeps a timeout of its own for each thread.                       *)
LEMMA OrphansStep == TypeOK /\ OrphansInv /\ [Next]_vars => OrphansInv'
<1> SUFFICES ASSUME TypeOK, OrphansInv, [Next]_vars PROVE OrphansInv'
  OBVIOUS
<1>1. orphans \subseteq [call : Call, n : 1..MaxTimeouts] /\ faults.timeout \in Nat
  BY FaultsGrow DEF TypeOK
<1>2. CASE PlaceTimesOut
  <2>1. /\ orphans' = orphans \cup {[call |-> call, n |-> faults.timeout + 1]}
        /\ faults'.timeout = faults.timeout + 1
    BY <1>2, FaultsGrow DEF PlaceTimesOut
  <2>2. \A p \in orphans : p.n \in Nat /\ p.n <= faults.timeout
    BY <1>1 DEF OrphansInv
  <2>3. /\ \A p \in orphans' : p.n <= faults'.timeout
        /\ \A o, p \in orphans' : o.n = p.n => o = p
    BY <1>1, <2>1, <2>2 DEF OrphansInv
  <2>4. IsFiniteSet(orphans') /\ Cardinality(orphans') <= faults'.timeout
    BY <1>1, <1>2, <2>1, OrphansCounted DEF OrphansInv
  <2>5. QED
    BY <2>3, <2>4 DEF OrphansInv
<1>3. CASE OrphanLooksUp
  <2>1. PICK o \in orphans :
          orphans' = (orphans \ {o}) \cup
              (IF Unknown(o.call) THEN {[o EXCEPT !.call.checked = TRUE]} ELSE {})
    BY <1>3 DEF OrphanLooksUp
  <2>2. [o EXCEPT !.call.checked = TRUE].n = o.n
    BY <1>1
  <2>3. faults'.timeout = faults.timeout
    BY <1>3 DEF OrphanLooksUp
  <2>4. /\ \A p \in orphans' : p.n <= faults'.timeout
        /\ \A q, p \in orphans' : q.n = p.n => q = p
    BY <2>1, <2>2, <2>3, ZenonT(60) DEF OrphansInv
  <2>5. IsFiniteSet(orphans') /\ Cardinality(orphans') <= faults'.timeout
    BY <1>1, <1>3, <2>3, OrphansCounted DEF OrphansInv
  <2>6. QED
    BY <2>4, <2>5 DEF OrphansInv
<1>4. CASE OrphanFills
  <2>1. orphans' \subseteq orphans /\ faults'.timeout = faults.timeout
    BY <1>4 DEF OrphanFills
  <2>2. IsFiniteSet(orphans') /\ Cardinality(orphans') <= faults'.timeout
    BY <1>1, <1>4, <2>1, OrphansCounted DEF OrphansInv
  <2>3. QED
    BY <2>1, <2>2 DEF OrphansInv
<1>5. CASE UNCHANGED orphans /\ ~PlaceTimesOut
  BY <1>5, FaultsGrow DEF OrphansInv
<1>6. UNCHANGED orphans \/ PlaceTimesOut \/ OrphanLooksUp \/ OrphanFills
  BY DEF Next, Worker, vars, TickMarketData, TickPositions, Gate, SymbolSkipped, Replay, NotSent,
         Send, PlaceLooksUp, PlaceFills, PersistDone, PlanRefused, PersistFails
<1>7. QED
  BY <1>2, <1>3, <1>4, <1>5, <1>6
-----------------------------------------------------------------------------
(***************************************************************************)
(* An order is filled once, and once more for each call that timed out.      *)
(***************************************************************************)
(* The adapter's memory, its fills and the rows agree.                          *)
MemoryInv ==
    /\ \A d \in Decisions : fills[d] > 0 <=> orders[d] # None
    /\ \A d \in Decisions : db[d] # None => fills[d] > 0
    /\ pc = "persist" => fills[call.id] > 0

(* A fill counts one for its decision, and is remembered.                       *)
LEMMA FillCounts ==
    ASSUME TypeOK, MemoryInv, NEW c \in Call, Fill(c)
    PROVE  /\ fills'[c.id] = fills[c.id] + 1
           /\ \A d \in Decisions \ {c.id} : fills'[d] = fills[d] /\ orders'[d] = orders[d]
           /\ \A d \in Decisions : fills'[d] >= fills[d]
           /\ \A d \in Decisions : fills'[d] > 0 <=> orders'[d] # None
<1>1. c.id \in Decisions /\ Filled(c) # None
  BY NoneIsNoRecord DEF Call, Filled, OrderResult
<1>2. /\ fills \in [Decisions -> Nat] /\ orders \in [Decisions -> OrderResult \cup {None}]
      /\ fills' = [fills EXCEPT ![c.id] = @ + 1] /\ orders' = [orders EXCEPT ![c.id] = Filled(c)]
  BY DEF TypeOK, Fill
<1>3. QED
  BY <1>1, <1>2 DEF MemoryInv

(* Every step keeps memory, fills and rows in agreement.                        *)
LEMMA MemoryStep == TypeOK /\ MemoryInv /\ [Next]_vars => MemoryInv'
<1> SUFFICES ASSUME TypeOK, MemoryInv, [Next]_vars PROVE MemoryInv'
  OBVIOUS
<1>1. CASE PlaceLooksUp
  <2>1. call \in Call /\ call.id \in Decisions
    BY <1>1, CallTypes DEF TypeOK, PlaceLooksUp
  <2>2. UNCHANGED <<fills, orders, db>>
    BY <1>1 DEF PlaceLooksUp, exchange, rows
  <2>3. pc' = "persist" => call'.id = call.id /\ orders[call.id] # None
    BY <1>1, <2>1 DEF PlaceLooksUp, Unknown, Call
  <2>4. QED
    BY <2>1, <2>2, <2>3 DEF MemoryInv
<1>2. CASE PlaceFills
  <2>1. call \in Call /\ call.id \in Decisions
    BY <1>2, CallTypes DEF TypeOK, PlaceFills
  <2>2. Fill(call) /\ db' = db /\ call'.id = call.id /\ fills \in [Decisions -> Nat]
    BY <1>2, <2>1 DEF PlaceFills, rows, Call, TypeOK
  <2>3. QED
    BY <2>1, <2>2, FillCounts DEF MemoryInv
<1>3. CASE OrphanFills
  <2>1. PICK o \in orphans : Fill(o.call)
    BY <1>3 DEF OrphanFills
  <2>2. o.call \in Call /\ fills \in [Decisions -> Nat]
    BY DEF TypeOK
  <2>3. UNCHANGED <<db, pc, call>>
    BY <1>3 DEF OrphanFills, rows
  <2>4. pc = "persist" => call.id \in Decisions
    BY CallTypes DEF TypeOK
  <2>5. QED
    BY <2>1, <2>2, <2>3, <2>4, FillCounts DEF MemoryInv
<1>4. CASE PersistDone
  <2>1. call \in Call /\ call.id \in Decisions
    BY <1>4, CallTypes DEF TypeOK, PersistDone
  <2>2. /\ UNCHANGED <<fills, orders>> /\ pc = "persist" /\ pc' # "persist"
        /\ db' = [db EXCEPT ![call.id] = call.result] /\ db \in [Decisions -> OrderResult \cup {None}]
    BY <1>4 DEF PersistDone, exchange, _persist_order, NextSymbol, TypeOK, OrderRows
  <2>3. QED
    BY <2>1, <2>2 DEF MemoryInv
<1>5. CASE UNCHANGED <<fills, orders, db>> /\ pc' # "persist"
  BY <1>5 DEF MemoryInv
<1>6. CASE UNCHANGED <<fills, orders, db, pc, call>>
  BY <1>6 DEF MemoryInv
<1>7. CASE TickMarketData \/ TickPositions \/ Gate \/ SymbolSkipped \/ Replay \/ NotSent \/ Send
  BY <1>5, <1>7 DEF TickMarketData, TickPositions, Gate, SymbolSkipped, Replay, NotSent, Send,
                    NextSymbol, exchange, rows
<1>8. CASE PlaceTimesOut \/ PlanRefused \/ PersistFails
  BY <1>5, <1>8 DEF PlaceTimesOut, PlanRefused, PersistFails, NextSymbol, exchange, rows
<1>9. CASE OrphanLooksUp \/ UNCHANGED vars
  BY <1>6, <1>9 DEF OrphanLooksUp, vars, exchange, rows
<1>10. QED
  BY <1>1, <1>2, <1>3, <1>4, <1>7, <1>8, <1>9 DEF Next, Worker

(* The calls for d that will fill it, having found nothing when they looked.    *)
Ready(d) == {o \in orphans : o.call.id = d /\ o.call.checked}
WorkerReady(d) == IF pc = "placing" /\ call.id = d /\ call.checked THEN 1 ELSE 0

(* No call finds nothing once there is a fill: the fills, and those that are    *)
(* still to come, are at most one of the worker and one per timeout.            *)
FilledInv ==
    \A d \in Decisions :
        fills[d] + Cardinality(Ready(d)) + WorkerReady(d) <= 1 + faults.timeout

(* Not more calls are ready than have timed out, before and after a step.       *)
LEMMA ReadyCounted ==
    ASSUME TypeOK, OrphansInv, [Next]_vars, NEW d
    PROVE  /\ IsFiniteSet(Ready(d)) /\ Cardinality(Ready(d)) \in Nat
           /\ Cardinality(Ready(d)') \in Nat /\ Cardinality(Ready(d)') <= faults'.timeout
           /\ faults'.timeout \in Nat
<1>1. Ready(d) \subseteq orphans /\ Ready(d)' \subseteq orphans'
  BY DEF Ready
<1>2. OrphansInv' /\ faults'.timeout \in Nat
  BY OrphansStep, FaultsGrow
<1>3. /\ IsFiniteSet(Ready(d)) /\ Cardinality(Ready(d)) \in Nat
      /\ Cardinality(Ready(d)') \in Nat /\ Cardinality(Ready(d)') <= Cardinality(orphans')
      /\ Cardinality(orphans') \in Nat
  BY <1>1, <1>2, PartIsNoLarger DEF OrphansInv
<1>4. QED
  BY <1>2, <1>3 DEF OrphansInv

(* Every step keeps fills and calls about to fill within the timeouts.          *)
LEMMA FilledStep ==
    TypeOK /\ OrphansInv /\ MemoryInv /\ FilledInv /\ [Next]_vars => FilledInv'
<1> SUFFICES ASSUME TypeOK, OrphansInv, MemoryInv, FilledInv, [Next]_vars,
                    NEW d \in Decisions
             PROVE  fills'[d] + Cardinality(Ready(d)') + WorkerReady(d)' <= 1 + faults'.timeout
  BY DEF FilledInv
<1>1. /\ fills[d] \in Nat /\ fills'[d] \in Nat
      /\ WorkerReady(d) \in {0, 1} /\ WorkerReady(d)' \in {0, 1}
      /\ faults.timeout \in Nat /\ faults'.timeout \in Nat
  <2>1. TypeOK'
    BY TypeOKStep
  <2>2. QED
    BY <2>1, FaultsGrow DEF TypeOK, WorkerReady
<1>2. /\ IsFiniteSet(Ready(d)) /\ Cardinality(Ready(d)) \in Nat
      /\ Cardinality(Ready(d)') \in Nat /\ Cardinality(Ready(d)') <= faults'.timeout
  BY ReadyCounted
<1>3. /\ fills[d] + Cardinality(Ready(d)) + WorkerReady(d) <= 1 + faults.timeout
      /\ faults.timeout <= faults'.timeout
      /\ orders[d] = None => fills[d] = 0
  BY <1>1, FaultsGrow DEF FilledInv, MemoryInv
<1>4. CASE UNCHANGED <<orphans, fills>> /\ WorkerReady(d)' <= WorkerReady(d)
  <2>1. Ready(d)' = Ready(d)
    BY <1>4 DEF Ready
  <2>2. QED
    BY <1>1, <1>2, <1>3, <1>4, <2>1
\* Whoever finds nothing proves that nothing has been filled yet.
<1>5. CASE orders[d] = None /\ fills' = fills
  BY <1>1, <1>2, <1>3, <1>5
<1>6. CASE PlaceLooksUp
  <2>1. UNCHANGED <<orphans, fills>> /\ call \in Call /\ pc = "placing"
    BY <1>6 DEF PlaceLooksUp, exchange, TypeOK
  <2>2. CASE call.id = d /\ Unknown(call)
    BY <1>5, <2>1, <2>2 DEF Unknown
  <2>3. CASE call.id # d \/ ~Unknown(call)
    BY <1>4, <1>6, <2>1, <2>3 DEF PlaceLooksUp, WorkerReady, Call
  <2>4. QED
    BY <2>2, <2>3
<1>7. CASE PlaceFills
  <2>1. /\ call \in Call /\ call.checked /\ Fill(call) /\ orphans' = orphans
        /\ pc = "placing" /\ pc' = "persist"
    BY <1>7 DEF PlaceFills, TypeOK
  <2>2. Ready(d)' = Ready(d) /\ WorkerReady(d)' = 0
    BY <2>1 DEF Ready, WorkerReady
  <2>3. CASE call.id = d
    BY <1>1, <1>2, <1>3, <2>1, <2>2, <2>3, FillCounts DEF WorkerReady
  <2>4. CASE call.id # d
    BY <1>1, <1>2, <1>3, <2>1, <2>2, <2>4, FillCounts
  <2>5. QED
    BY <2>3, <2>4
<1>8. CASE PlaceTimesOut
  <2> DEFINE o == [call |-> call, n |-> faults.timeout + 1]
  <2>1. /\ fills' = fills /\ orphans' = orphans \cup {o} /\ pc = "placing" /\ pc' # "placing"
        /\ faults'.timeout = faults.timeout + 1
    BY <1>8, FaultsGrow DEF PlaceTimesOut, exchange, NextSymbol
  <2>2. WorkerReady(d)' = 0
    BY <2>1 DEF WorkerReady
  <2>3. Ready(d)' = Ready(d) \/ Ready(d)' = Ready(d) \cup {o}
    BY <2>1 DEF Ready
  <2>4. Cardinality(Ready(d)') <= Cardinality(Ready(d)) + 1
    <3> HIDE DEF o
    <3>1. Cardinality(Ready(d) \cup {o}) <= Cardinality(Ready(d)) + 1
      BY <1>2, OneMoreAtMost
    <3>2. CASE Ready(d)' = Ready(d)
      BY <1>2, <3>2
    <3>3. CASE Ready(d)' = Ready(d) \cup {o}
      BY <3>1, <3>3
    <3>4. QED
      BY <2>3, <3>2, <3>3
  <2>5. QED
    BY <1>1, <1>2, <1>3, <2>1, <2>2, <2>4
<1>9. CASE OrphanLooksUp
  <2>1. PICK o \in orphans :
          /\ ~o.call.checked
          /\ orphans' = (orphans \ {o}) \cup
                (IF Unknown(o.call) THEN {[o EXCEPT !.call.checked = TRUE]} ELSE {})
    BY <1>9 DEF OrphanLooksUp
  <2>2. fills' = fills /\ UNCHANGED <<pc, call>>
    BY <1>9 DEF OrphanLooksUp, exchange
  <2>3. CASE o.call.id = d /\ Unknown(o.call)
    BY <1>5, <2>2, <2>3 DEF Unknown
  <2>4. CASE o.call.id # d \/ ~Unknown(o.call)
    <3>1. [o EXCEPT !.call.checked = TRUE].call.id = o.call.id
      BY DEF TypeOK, Call
    <3>2. Ready(d)' = Ready(d)
      BY <2>1, <2>4, <3>1 DEF Ready
    <3>3. QED
      BY <1>1, <1>2, <1>3, <2>2, <3>2 DEF WorkerReady
  <2>5. QED
    BY <2>3, <2>4
<1>10. CASE OrphanFills
  <2>1. PICK o \in orphans : o.call.checked /\ Fill(o.call) /\ orphans' = orphans \ {o}
    BY <1>10 DEF OrphanFills
  <2>2. o.call \in Call /\ UNCHANGED <<pc, call>>
    BY <1>10 DEF OrphanFills, TypeOK
  <2>3. WorkerReady(d)' = WorkerReady(d)
    BY <2>2 DEF WorkerReady
  <2>4. CASE o.call.id = d
    <3>1. o \in Ready(d) /\ Ready(d)' = Ready(d) \ {o}
      BY <2>1, <2>4 DEF Ready
    <3>2. Cardinality(Ready(d)') = Cardinality(Ready(d)) - 1
      BY <1>2, <3>1, OneMoreOrLess
    <3>3. fills'[d] = fills[d] + 1
      BY <2>1, <2>2, <2>4, FillCounts
    <3>4. QED
      BY <1>1, <1>2, <1>3, <2>3, <3>2, <3>3
  <2>5. CASE o.call.id # d
    <3>1. Ready(d)' = Ready(d)
      BY <2>1, <2>5 DEF Ready
    <3>2. fills'[d] = fills[d]
      BY <2>1, <2>2, <2>5, FillCounts
    <3>3. QED
      BY <1>1, <1>2, <1>3, <2>3, <3>1, <3>2
  <2>6. QED
    BY <2>4, <2>5
<1>11. CASE Send
  <2>1. UNCHANGED <<orphans, fills>> /\ ~call'.checked
    BY <1>11 DEF Send, exchange
  <2>2. WorkerReady(d)' = 0
    BY <2>1 DEF WorkerReady
  <2>3. QED
    BY <1>1, <1>4, <2>1, <2>2
<1>12. CASE TickMarketData \/ TickPositions \/ Gate \/ SymbolSkipped \/ Replay \/ NotSent
  <2>1. UNCHANGED <<orphans, fills>> /\ pc' # "placing"
    BY <1>12 DEF TickMarketData, TickPositions, Gate, SymbolSkipped, Replay, NotSent, NextSymbol,
                 exchange
  <2>2. QED
    BY <1>1, <1>4, <2>1 DEF WorkerReady
<1>13. CASE PersistDone \/ PlanRefused \/ PersistFails
  <2>1. UNCHANGED <<orphans, fills>> /\ pc' # "placing"
    BY <1>13 DEF PersistDone, PlanRefused, PersistFails, NextSymbol, exchange
  <2>2. QED
    BY <1>1, <1>4, <2>1 DEF WorkerReady
<1>14. CASE UNCHANGED vars
  BY <1>1, <1>4, <1>14 DEF vars, exchange, WorkerReady
<1>15. QED
  BY <1>6, <1>7, <1>8, <1>9, <1>10, <1>11, <1>12, <1>13, <1>14 DEF Next, Worker
-----------------------------------------------------------------------------
(***************************************************************************)
(* The limit of open positions.                                              *)
(***************************************************************************)
(* The snapshot's count and the attempts since cover every position, and the    *)
(* one on its way, but for those of the threads that timed out.                 *)
OnItsWay == IF pc = "placing" THEN 1 ELSE 0
OpenInv ==
    /\ pc # "market" => Cardinality(open) + OnItsWay <= tick.count + tick.opened + late
    /\ pc = "placing" => tick.count + tick.opened <= MaxOpen
    /\ OpenBounded

(* A fill opens one position at most.                                           *)
LEMMA FillOpens ==
    ASSUME TypeOK, NEW c \in Call, Fill(c)
    PROVE  /\ Cardinality(open) \in Nat /\ Cardinality(open') \in Nat
           /\ Cardinality(open') <= Cardinality(open) + 1
           /\ open' = open \/ open' = open \cup {c.symbol}
<1>1. IsFiniteSet(open)
  BY OpenCounted DEF TypeOK
<1>2. open' = open \/ open' = open \cup {c.symbol}
  BY DEF Fill
<1>3. /\ Cardinality(open) \in Nat /\ Cardinality(open \cup {c.symbol}) \in Nat
      /\ Cardinality(open \cup {c.symbol}) <= Cardinality(open) + 1
  BY <1>1, OneMoreAtMost
<1>4. QED
  BY <1>2, <1>3

(* Every step keeps the positions within what the worker and the threads count. *)
LEMMA OpenStep == TypeOK /\ OpenInv /\ [Next]_vars => OpenInv'
<1> SUFFICES ASSUME TypeOK, OpenInv, [Next]_vars PROVE OpenInv'
  OBVIOUS
<1>1. /\ Cardinality(open) \in Nat /\ Cardinality(open') \in Nat
      /\ late \in Nat /\ late' \in Nat /\ MaxOpen \in Nat
      /\ tick.count \in Nat /\ tick.opened \in Nat
      /\ tick'.count \in Nat /\ tick'.opened \in Nat
  <2>1. TypeOK'
    BY TypeOKStep
  <2>2. \A t \in Tick : t.count \in Nat /\ t.opened \in Nat
    BY SymbolsFinite, FS_CardinalityType DEF Tick
  <2>3. open \in SUBSET Symbols /\ open' \in SUBSET Symbols
    BY <2>1 DEF TypeOK
  <2>4. QED
    BY <2>1, <2>2, <2>3, OpenCounted, ExecutionBounds DEF TypeOK
<1>2. CASE TickMarketData
  <2>1. tick'.count = Cardinality(open) /\ tick'.opened = 0
    BY <1>2 DEF TickMarketData, NoTick
  <2>2. UNCHANGED <<open, late>> /\ pc' = "positions"
    BY <1>2 DEF TickMarketData, exchange
  <2>3. QED
    BY <1>1, <2>1, <2>2 DEF OpenInv, OpenBounded, OnItsWay
<1>3. CASE TickPositions
  <2>1. open' \subseteq open /\ UNCHANGED <<tick, late>> /\ pc = "positions" /\ pc' = "gate"
    BY <1>3 DEF TickPositions
  <2>2. Cardinality(open') <= Cardinality(open)
    BY <2>1, OpenCounted, PartIsNoLarger DEF TypeOK
  <2>3. QED
    BY <1>1, <2>1, <2>2 DEF OpenInv, OpenBounded, OnItsWay
\* The tick goes on as it is, or with one more attempt counted, or ends.
<1>4. ASSUME UNCHANGED <<open, late>>, pc # "market", pc' \in {"market", "pipeline"},
             pc' # "market" => /\ tick'.count = tick.count
                               /\ tick'.opened \in {tick.opened, tick.opened + 1}
      PROVE  OpenInv'
  BY <1>1, <1>4 DEF OpenInv, OpenBounded, OnItsWay
<1>5. CASE Gate
  <2>1. PICK report \in reconcile, exposed \in SUBSET Symbols :
           NextSymbol([tick EXCEPT !.unverified = report.failed,
                                   !.reliable = is_complete(report), !.exposed = exposed])
    BY <1>5 DEF Gate, TypeOK
  <2>2. UNCHANGED <<open, late>> /\ pc = "gate"
    BY <1>5 DEF Gate, exchange
  <2>3. QED
    BY <1>4, <2>1, <2>2 DEF NextSymbol, TypeOK, Tick
<1>6. CASE SymbolSkipped \/ PlaceTimesOut \/ PersistDone \/ PlanRefused \/ PersistFails
  <2>1. UNCHANGED <<open, late>> /\ pc # "market" /\ pc' \in {"market", "pipeline"}
    BY <1>6 DEF SymbolSkipped, PlaceTimesOut, PersistDone, PlanRefused, PersistFails, NextSymbol,
                exchange
  <2>2. pc' # "market" => tick'.count = tick.count /\ tick'.opened = tick.opened
    BY <1>6 DEF SymbolSkipped, PlaceTimesOut, PersistDone, PlanRefused, PersistFails, NextSymbol,
                TypeOK, Tick
  <2>3. QED
    BY <1>4, <2>1, <2>2
<1>7. \A s : Counted(s).count = tick.count /\ Counted(s).opened = tick.opened + 1
  BY DEF Counted, TypeOK, Tick
<1>8. CASE Replay \/ NotSent
  <2>1. UNCHANGED <<open, late>> /\ pc # "market" /\ pc' \in {"market", "pipeline"}
    BY <1>8 DEF Replay, NotSent, Approved, NextSymbol, exchange
  <2>2. pc' # "market" => \E s : tick' = Counted(s)
    BY <1>8 DEF Replay, NotSent, NextSymbol
  <2>3. QED
    BY <1>4, <1>7, <2>1, <2>2
\* The attempt is counted before the order is sent.
<1>9. CASE Send
  <2>1. UNCHANGED <<open, late>> /\ pc = "pipeline" /\ pc' = "placing"
    BY <1>9 DEF Send, Approved, exchange
  <2>2. tick.count + tick.opened < MaxOpen
    BY <1>9 DEF Send, Approved, check_max_open_positions
  <2>3. tick'.count = tick.count /\ tick'.opened = tick.opened + 1
    BY <1>7, <1>9 DEF Send
  <2>4. QED
    BY <1>1, <2>1, <2>2, <2>3 DEF OpenInv, OpenBounded, OnItsWay
<1>10. CASE PlaceLooksUp
  <2>1. UNCHANGED <<open, late, tick>> /\ pc = "placing" /\ pc' \in {"placing", "persist"}
    BY <1>10 DEF PlaceLooksUp, exchange
  <2>2. QED
    BY <1>1, <2>1 DEF OpenInv, OpenBounded, OnItsWay
<1>11. CASE PlaceFills
  <2>1. UNCHANGED <<late, tick>> /\ pc = "placing" /\ pc' = "persist" /\ Fill(call) /\ call \in Call
    BY <1>11 DEF PlaceFills, TypeOK
  <2>2. Cardinality(open') <= Cardinality(open) + 1
    BY <2>1, FillOpens
  <2>3. QED
    BY <1>1, <2>1, <2>2 DEF OpenInv, OpenBounded, OnItsWay
<1>12. CASE OrphanFills
  <2>1. PICK o \in orphans : Fill(o.call) /\ late' = IF open' = open THEN late ELSE late + 1
    BY <1>12 DEF OrphanFills
  <2>2. o.call \in Call /\ UNCHANGED <<pc, tick>>
    BY <1>12 DEF OrphanFills, TypeOK
  <2>3. Cardinality(open') <= Cardinality(open) + 1
    BY <2>1, <2>2, FillOpens
  <2>4. Cardinality(open') + late <= Cardinality(open) + late'
    BY <1>1, <2>1, <2>3
  <2>5. QED
    BY <1>1, <2>2, <2>4 DEF OpenInv, OpenBounded, OnItsWay
<1>13. CASE OrphanLooksUp \/ UNCHANGED vars
  <2>1. UNCHANGED <<open, late, tick, pc>>
    BY <1>13 DEF OrphanLooksUp, vars, exchange
  <2>2. QED
    BY <2>1 DEF OpenInv, OpenBounded, OnItsWay
<1>14. QED
  BY <1>2, <1>3, <1>5, <1>6, <1>8, <1>9, <1>10, <1>11, <1>12, <1>13 DEF Next, Worker
-----------------------------------------------------------------------------
(***************************************************************************)
(* Exit plans, and what the gate makes of them.                              *)
(***************************************************************************)
(* The symbol whose position the worker is about to give its plan and its rows. *)
Registering == IF pc = "persist" /\ call.result.status = "FILLED" THEN {call.symbol} ELSE {}
Uncovered == (open \ plans) \ Registering

(* Every position without a plan has a fault of its own, and so has every       *)
(* thread that may still open one.                                              *)
CoverInv ==
    Cardinality(Uncovered) + Cardinality(orphans) <= faults.db + faults.timeout + faults.plan

(* While entries are possible, the gate has seen no position without a plan.    *)
SeenInv ==
    /\ mode = "ACTIVE" => tick.exposed = {}
    /\ pc = "placing" => mode = "ACTIVE"

(* Without a fault, every position and every pending order has its row; and     *)
(* only a fault has stopped the bot.                                            *)
FaultFree == \A k \in DOMAIN faults : faults[k] = 0
QuietInv ==
    /\ FaultFree => /\ open \subseteq tracked \cup Registering
                   /\ \A d \in Decisions :
                         orders[d] # None => db[d] # None \/ (pc = "persist" /\ call.id = d)
    /\ NoFalseAlarm

(* The inductive invariant.                                                     *)
IInv ==
    /\ TypeOK /\ OrphansInv /\ MemoryInv /\ FilledInv
    /\ OpenInv /\ CoverInv /\ SeenInv /\ QuietInv

(* Uncovered grows by one position at most, and only with a fault.              *)
LEMMA UncoveredCounted ==
    ASSUME TypeOK
    PROVE  /\ IsFiniteSet(Uncovered) /\ Cardinality(Uncovered) \in Nat
           /\ \A U : U \subseteq Uncovered =>
                 Cardinality(U) \in Nat /\ Cardinality(U) <= Cardinality(Uncovered)
           /\ \A U, s : U \subseteq Uncovered \cup {s} =>
                 Cardinality(U) \in Nat /\ Cardinality(U) <= Cardinality(Uncovered) + 1
<1>1. IsFiniteSet(Uncovered)
  <2>1. IsFiniteSet(open) /\ Uncovered \subseteq open
    BY OpenCounted DEF TypeOK, Uncovered
  <2>2. QED
    BY <2>1, PartIsNoLarger
<1>2. ASSUME NEW s
      PROVE  /\ IsFiniteSet(Uncovered \cup {s})
             /\ Cardinality(Uncovered) \in Nat /\ Cardinality(Uncovered \cup {s}) \in Nat
             /\ Cardinality(Uncovered \cup {s}) <= Cardinality(Uncovered) + 1
  BY <1>1, OneMoreAtMost
<1>3. ASSUME NEW U, U \subseteq Uncovered
      PROVE  Cardinality(U) \in Nat /\ Cardinality(U) <= Cardinality(Uncovered)
  BY <1>1, <1>3, PartIsNoLarger
<1>4. ASSUME NEW U, NEW s, U \subseteq Uncovered \cup {s}
      PROVE  Cardinality(U) \in Nat /\ Cardinality(U) <= Cardinality(Uncovered) + 1
  <2>1. /\ IsFiniteSet(Uncovered \cup {s})
        /\ Cardinality(Uncovered) \in Nat /\ Cardinality(Uncovered \cup {s}) \in Nat
        /\ Cardinality(Uncovered \cup {s}) <= Cardinality(Uncovered) + 1
    BY <1>2
  <2>2. Cardinality(U) \in Nat /\ Cardinality(U) <= Cardinality(Uncovered \cup {s})
    BY <1>4, <2>1, PartIsNoLarger
  <2>3. QED
    BY <2>1, <2>2
<1>5. QED
  BY <1>1, <1>2, <1>3, <1>4

(* Every step that leaves one more position uncovered is, or uses up, a fault.  *)
LEMMA CoverStep == TypeOK /\ OrphansInv /\ CoverInv /\ [Next]_vars => CoverInv'
<1> SUFFICES ASSUME TypeOK, OrphansInv, CoverInv, [Next]_vars PROVE CoverInv'
  OBVIOUS
<1> USE DEF CoverInv
<1>1. /\ Cardinality(Uncovered) \in Nat /\ Cardinality(orphans) \in Nat
      /\ faults.db \in Nat /\ faults.timeout \in Nat /\ faults.plan \in Nat
      /\ faults'.db \in Nat /\ faults'.timeout \in Nat /\ faults'.plan \in Nat
      /\ faults.db <= faults'.db /\ faults.timeout <= faults'.timeout
      /\ faults.plan <= faults'.plan
  BY UncoveredCounted, OrphansCounted, FaultsGrow
\* Nothing loses its plan.
<1>2. CASE Uncovered' \subseteq Uncovered /\ UNCHANGED orphans
  <2>1. Cardinality(Uncovered') \in Nat /\ Cardinality(Uncovered') <= Cardinality(Uncovered)
    BY <1>2, UncoveredCounted
  <2>2. QED
    BY <1>1, <1>2, <2>1
<1>3. CASE TickMarketData \/ Gate \/ SymbolSkipped \/ Replay \/ NotSent \/ Send
  <2>1. UNCHANGED <<open, plans, orphans>> /\ pc # "persist" /\ pc' # "persist"
    BY <1>3 DEF TickMarketData, Gate, SymbolSkipped, Replay, NotSent, Send, Approved, NextSymbol,
                exchange
  <2>2. QED
    BY <1>2, <2>1 DEF Uncovered, Registering
<1>4. CASE TickPositions
  <2>1. open' \ plans' = open \ plans /\ pc = "positions" /\ pc' = "gate" /\ orphans' = orphans
    BY <1>4 DEF TickPositions
  <2>2. QED
    BY <1>2, <2>1 DEF Uncovered, Registering
<1>5. CASE PlaceLooksUp
  <2>1. UNCHANGED <<open, plans, orphans>> /\ pc = "placing"
    BY <1>5 DEF PlaceLooksUp, exchange
  <2>2. QED
    BY <1>2, <2>1 DEF Uncovered, Registering
<1>6. CASE PlaceFills
  <2>1. /\ call \in Call /\ Fill(call) /\ UNCHANGED <<plans, orphans>>
        /\ pc = "placing" /\ pc' = "persist"
        /\ call'.symbol = call.symbol /\ call'.result = Filled(call)
    BY <1>6 DEF PlaceFills, TypeOK, Call
  <2>2. open' \subseteq open \cup Registering'
    BY <2>1 DEF Fill, Filled, Registering
  <2>3. QED
    BY <1>2, <2>1, <2>2 DEF Uncovered, Registering
<1>7. CASE PlaceTimesOut
  <2>1. UNCHANGED <<open, plans>> /\ pc = "placing" /\ pc' # "persist"
    BY <1>7 DEF PlaceTimesOut, NextSymbol, exchange
  <2>2. Uncovered' = Uncovered
    BY <2>1 DEF Uncovered, Registering
  <2>3. QED
    BY <1>1, <1>7, <2>2, OrphansCounted, FaultsGrow
<1>8. CASE OrphanLooksUp
  <2>1. Uncovered' = Uncovered
    BY <1>8 DEF OrphanLooksUp, exchange, Uncovered, Registering
  <2>2. QED
    BY <1>1, <1>8, <2>1, OrphansCounted
<1>9. CASE OrphanFills
  <2>1. PICK o \in orphans : Fill(o.call)
    BY <1>9 DEF OrphanFills
  <2>2. Uncovered' \subseteq Uncovered \cup {o.call.symbol}
    BY <1>9, <2>1 DEF OrphanFills, Fill, Uncovered, Registering
  <2>3. Cardinality(Uncovered') \in Nat /\ Cardinality(Uncovered') <= Cardinality(Uncovered) + 1
    BY <2>2, UncoveredCounted
  <2>4. QED
    BY <1>1, <1>9, <2>3, OrphansCounted
<1>10. CASE PersistDone
  <2>1. UNCHANGED <<open, orphans>> /\ pc = "persist" /\ pc' # "persist"
    BY <1>10 DEF PersistDone, NextSymbol, exchange
  <2>2. plans \subseteq plans' /\ Registering \subseteq plans'
    BY <1>10 DEF PersistDone, _register_position_manager, Registering
  <2>3. QED
    BY <1>2, <2>1, <2>2 DEF Uncovered, Registering
<1>11. CASE PersistFails
  <2>1. UNCHANGED <<open, orphans>> /\ pc' # "persist" /\ plans \subseteq plans'
    BY <1>11 DEF PersistFails, NextSymbol, exchange, _register_position_manager
  <2>2. Uncovered' \subseteq Uncovered \cup {call.symbol}
    BY <2>1 DEF Uncovered, Registering
  <2>3. Cardinality(Uncovered') \in Nat /\ Cardinality(Uncovered') <= Cardinality(Uncovered) + 1
    BY <2>2, UncoveredCounted
  <2>4. faults'.db = faults.db + 1
    BY <1>11 DEF PersistFails, DbError, TypeOK, Faults
  <2>5. QED
    BY <1>1, <2>1, <2>3, <2>4
<1>12. CASE PlanRefused
  <2>1. UNCHANGED <<open, plans, orphans>> /\ pc' # "persist"
    BY <1>12 DEF PlanRefused, NextSymbol, exchange
  <2>2. Uncovered' \subseteq Uncovered \cup {call.symbol}
    BY <2>1 DEF Uncovered, Registering
  <2>3. Cardinality(Uncovered') \in Nat /\ Cardinality(Uncovered') <= Cardinality(Uncovered) + 1
    BY <2>2, UncoveredCounted
  <2>4. faults'.plan = faults.plan + 1
    BY <1>12 DEF PlanRefused, TypeOK, Faults
  <2>5. QED
    BY <1>1, <2>1, <2>3, <2>4
<1>13. CASE UNCHANGED vars
  BY <1>2, <1>13 DEF vars, exchange, Uncovered, Registering
<1>14. QED
  BY <1>3, <1>4, <1>5, <1>6, <1>7, <1>8, <1>9, <1>10, <1>11, <1>12, <1>13 DEF Next, Worker

(* Every step that lets entries on has a gate that found every plan.            *)
LEMMA SeenStep == TypeOK /\ SeenInv /\ [Next]_vars => SeenInv'
<1> SUFFICES ASSUME TypeOK, SeenInv, [Next]_vars PROVE SeenInv'
  OBVIOUS
<1>1. CASE Gate
  <2>1. pc' # "placing"
    BY <1>1 DEF Gate, NextSymbol
  <2>2. ASSUME mode' = "ACTIVE" PROVE tick'.exposed = {}
    <3>1. PICK report \in reconcile, exposed \in SUBSET Symbols :
             /\ NextSymbol([tick EXCEPT !.unverified = report.failed,
                                        !.reliable = is_complete(report), !.exposed = exposed])
             /\ \/ /\ exposed = (open \ plans) \ report.failed
                   /\ ~(mode = "ACTIVE" /\ _blocking_reasons(report.failed, report.balanceFailed))
                   /\ mode = "ACTIVE"
                \/ exposed = {}
      BY <1>1, <2>2 DEF Gate, TypeOK
    <3>2. ASSUME NEW s \in (open \ plans) \ report.failed
          PROVE  _blocking_reasons(report.failed, report.balanceFailed)
      <4> DEFINE p == [symbol |-> s,
                       type |-> IF s \in tracked THEN "MISSING_PROTECTION" ELSE "MISSING_IN_DB"]
      <4>1. p \in _reconcile_positions(report.failed)
        BY <3>2 DEF _reconcile_positions
      <4>2. p.type \in {"MISSING_IN_DB", "MISSING_PROTECTION"}
        OBVIOUS
      <4> HIDE DEF p
      <4>3. QED
        BY <4>1, <4>2 DEF _blocking_reasons
    <3>3. exposed = {}
      BY <3>1, <3>2
    <3>4. tick \in Tick
      BY DEF TypeOK
    <3>5. [tick EXCEPT !.unverified = report.failed,
                       !.reliable = is_complete(report), !.exposed = exposed].exposed = exposed
      BY <3>4 DEF Tick
    <3>6. \/ tick' = NoTick
          \/ tick' = [tick EXCEPT !.unverified = report.failed,
                                  !.reliable = is_complete(report), !.exposed = exposed]
      BY <3>1 DEF NextSymbol
    <3>7. NoTick.exposed = {}
      BY DEF NoTick
    <3>8. QED
      BY <3>3, <3>5, <3>6, <3>7
  <2>3. QED
    BY <2>1, <2>2 DEF SeenInv
<1>2. CASE Send
  <2>1. mode = "ACTIVE" /\ mode' = mode /\ tick'.exposed = tick.exposed
    BY <1>2 DEF Send, Approved, MayEnter, Counted, TypeOK, Tick
  <2>2. QED
    BY <2>1 DEF SeenInv
<1>3. CASE TickMarketData
  BY <1>3 DEF TickMarketData, NoTick, SeenInv
\* The locals of the tick go on or go away.
<1>4. ASSUME mode' = mode, pc' # "placing", tick'.exposed \in {tick.exposed, {}} PROVE SeenInv'
  BY <1>4 DEF SeenInv
<1>5. CASE \/ SymbolSkipped \/ Replay \/ NotSent \/ PlaceTimesOut \/ PersistDone \/ PlanRefused
           \/ PersistFails
  <2>1. mode' = mode /\ pc' # "placing"
    BY <1>5 DEF SymbolSkipped, Replay, NotSent, PlaceTimesOut, PersistDone, PlanRefused,
                PersistFails, NextSymbol
  <2>2. tick'.exposed \in {tick.exposed, {}}
    <3>1. tick \in Tick
      BY DEF TypeOK
    <3>2. \A s : Counted(s).exposed = tick.exposed /\ [tick EXCEPT !.todo = @ \ {s}].exposed = tick.exposed
      BY <3>1 DEF Counted, Tick
    <3>3. \/ tick' = NoTick \/ tick' = tick
          \/ \E s : tick' = Counted(s) \/ tick' = [tick EXCEPT !.todo = @ \ {s}]
      BY <1>5 DEF SymbolSkipped, Replay, NotSent, PlaceTimesOut, PersistDone, PlanRefused,
                  PersistFails, NextSymbol
    <3>4. NoTick.exposed = {}
      BY DEF NoTick
    <3>5. CASE \E s : tick' = Counted(s)
      BY <3>2, <3>5
    <3>6. CASE \E s : tick' = [tick EXCEPT !.todo = @ \ {s}]
      BY <3>2, <3>6
    <3>7. QED
      BY <3>3, <3>4, <3>5, <3>6
  <2>3. QED
    BY <1>4, <2>1, <2>2
<1>6. CASE TickPositions
  BY <1>4, <1>6 DEF TickPositions
<1>7. CASE PlaceLooksUp \/ PlaceFills
  BY <1>7 DEF PlaceLooksUp, PlaceFills, SeenInv
<1>8. CASE OrphanLooksUp \/ OrphanFills \/ UNCHANGED vars
  BY <1>8 DEF OrphanLooksUp, OrphanFills, vars, SeenInv
<1>9. QED
  BY <1>1, <1>2, <1>3, <1>5, <1>6, <1>7, <1>8 DEF Next, Worker

(* What is free of faults after a step was so before it.                        *)
LEMMA FaultFreeBefore ==
    ASSUME TypeOK, [Next]_vars
    PROVE  /\ FaultFree => /\ faults.db = 0 /\ faults.timeout = 0
                          /\ faults.fetch = 0 /\ faults.plan = 0
           /\ FaultFree' => FaultFree /\ ~PlaceTimesOut /\ ~PersistFails /\ ~PlanRefused
           /\ (\E k \in DOMAIN faults : faults[k] > 0) => \E k \in DOMAIN faults' : faults'[k] > 0
           /\ ~FaultFree => \E k \in DOMAIN faults : faults[k] > 0
<1>1. TypeOK'
  BY TypeOKStep
<1>2. /\ DOMAIN faults = {"db", "timeout", "fetch", "plan"}
      /\ DOMAIN faults' = {"db", "timeout", "fetch", "plan"}
  BY <1>1 DEF TypeOK, Faults
<1>3. \A k \in {"db", "timeout", "fetch", "plan"} :
          faults[k] \in Nat /\ faults'[k] \in Nat /\ faults[k] <= faults'[k]
  BY FaultsGrow
<1>4. ASSUME FaultFree', PlaceTimesOut \/ PersistFails \/ PlanRefused PROVE FALSE
  <2>1. \E k \in {"db", "timeout", "plan"} : faults' = [faults EXCEPT ![k] = @ + 1]
    BY <1>4 DEF PlaceTimesOut, PersistFails, PlanRefused, DbError
  <2>2. QED
    BY <1>2, <1>3, <1>4, <2>1 DEF FaultFree, TypeOK, Faults
<1>5. QED
  BY <1>2, <1>3, <1>4 DEF FaultFree

(* The gate finds nothing to block for while there has been no fault.           *)
LEMMA NothingToBlock ==
    ASSUME TypeOK, OrphansInv, CoverInv, QuietInv, FaultFree, pc = "gate"
    PROVE  ~_blocking_reasons({}, FALSE)
<1>1. Registering = {} /\ Uncovered = open \ plans
  BY DEF Registering, Uncovered
<1>2. Uncovered = {}
  <2>1. faults.db = 0 /\ faults.timeout = 0 /\ faults.plan = 0
    BY DEF FaultFree, TypeOK, Faults
  <2>2. Cardinality(Uncovered) = 0
    BY <2>1, UncoveredCounted, OrphansCounted DEF CoverInv
  <2>3. QED
    BY <2>2, UncoveredCounted, FS_EmptySet
<1>3. _reconcile_orders({}) = {}
  BY DEF _reconcile_orders, QuietInv
<1>4. \A p \in _reconcile_positions({}) : p.type = "MISSING_IN_ADAPTER"
  BY <1>1, <1>2 DEF _reconcile_positions, QuietInv
<1>5. QED
  BY <1>3, <1>4 DEF _blocking_reasons

(* Without a fault, every step leaves all recorded and tracked.                 *)
LEMMA QuietStep ==
    TypeOK /\ OrphansInv /\ MemoryInv /\ CoverInv /\ QuietInv /\ [Next]_vars => QuietInv'
<1> SUFFICES ASSUME TypeOK, OrphansInv, MemoryInv, CoverInv, QuietInv, [Next]_vars PROVE QuietInv'
  OBVIOUS
<1> DEFINE Recorded ==
        /\ open \subseteq tracked \cup Registering
        /\ \A d \in Decisions :
              orders[d] # None => db[d] # None \/ (pc = "persist" /\ call.id = d)
<1>1. NoFalseAlarm'
  <2>1. CASE mode = "SAFE_MODE" \/ ~FaultFree
    BY <2>1, FaultFreeBefore DEF QuietInv, NoFalseAlarm
  <2>2. CASE mode # "SAFE_MODE" /\ FaultFree /\ Gate
    <3>1. PICK r \in reconcile :
             LET asked == [faults EXCEPT !.fetch = IF is_complete(r) THEN @ ELSE @ + 1]
                 blocks == mode = "ACTIVE" /\ _blocking_reasons(r.failed, r.balanceFailed)
             IN  \/ mode' = (IF blocks THEN "SAFE_MODE" ELSE mode) /\ faults' = asked
                 \/ mode' = mode
      BY <2>2 DEF Gate
    <3>2. faults.fetch = 0 /\ pc = "gate"
      BY <2>2, FaultFreeBefore DEF Gate
    <3>3. CASE is_complete(r)
      BY <2>2, <3>1, <3>2, <3>3, NothingToBlock DEF NoFalseAlarm, is_complete, reconcile
    <3>4. CASE ~is_complete(r)
      <4>1. mode' = mode \/ (DOMAIN faults' = DOMAIN faults /\ faults'.fetch = 1)
        BY <3>1, <3>2, <3>4 DEF TypeOK, Faults
      <4>2. QED
        BY <2>2, <4>1 DEF NoFalseAlarm, TypeOK, Faults
    <3>5. QED
      BY <3>3, <3>4
  <2>3. CASE mode # "SAFE_MODE" /\ ~Gate
    <3>1. mode' = mode
      BY <2>3 DEF Next, Worker, vars, TickMarketData, TickPositions, SymbolSkipped, Replay, NotSent,
                  Send, PlaceLooksUp, PlaceFills, PlaceTimesOut, PersistDone, PlanRefused,
                  PersistFails, OrphanLooksUp, OrphanFills
    <3>2. QED
      BY <2>3, <3>1 DEF NoFalseAlarm
  <2>4. QED
    BY <2>1, <2>2, <2>3
<1>2. ASSUME FaultFree' PROVE Recorded'
  <2>1. Recorded /\ ~PlaceTimesOut /\ ~PersistFails /\ ~PlanRefused
    BY <1>2, FaultFreeBefore DEF QuietInv
  <2>2. orphans = {}
    BY <1>2, FaultFreeBefore, OrphansCounted, FS_EmptySet DEF OrphansInv
  <2>3. CASE PlaceFills
    <3>1. /\ call \in Call /\ Fill(call) /\ UNCHANGED <<tracked, db>>
          /\ pc = "placing" /\ pc' = "persist"
          /\ call'.id = call.id /\ call'.symbol = call.symbol /\ call'.result = Filled(call)
      BY <2>3 DEF PlaceFills, TypeOK, Call, rows
    <3>2. open' \subseteq open \cup Registering' /\ Registering = {}
      BY <3>1 DEF Fill, Filled, Registering
    <3>3. \A d \in Decisions : d # call.id => orders'[d] = orders[d]
      BY <3>1, FillCounts
    <3>4. QED
      BY <2>1, <3>1, <3>2, <3>3
  <2>4. CASE PersistDone
    <3>1. /\ call \in Call /\ call.result \in OrderResult /\ call.id \in Decisions
          /\ UNCHANGED <<open, orders>> /\ pc = "persist" /\ pc' # "persist"
          /\ db' = [db EXCEPT ![call.id] = call.result]
      BY <2>4, CallTypes DEF PersistDone, NextSymbol, exchange, TypeOK, Call, _persist_order
    <3>2. tracked \cup Registering \subseteq tracked'
      BY <2>4 DEF PersistDone, _persist_position, Registering
    <3>3. \A d \in Decisions : db'[d] # None <=> db[d] # None \/ d = call.id
      BY <3>1, NoneIsNoRecord DEF TypeOK, OrderRows
    <3>4. QED
      BY <2>1, <3>1, <3>2, <3>3
  <2>5. CASE TickPositions
    BY <2>1, <2>5 DEF TickPositions, rows, Registering
  <2>6. CASE /\ UNCHANGED <<open, orders, tracked, db>>
             /\ pc # "persist" \/ UNCHANGED <<pc, call>>
    BY <2>1, <2>6 DEF Registering
  <2>7. CASE TickMarketData \/ Gate \/ SymbolSkipped \/ Replay \/ NotSent \/ Send \/ PlaceLooksUp
    BY <2>6, <2>7 DEF TickMarketData, Gate, SymbolSkipped, Replay, NotSent, Send, Approved,
                      PlaceLooksUp, exchange, rows
  <2>8. CASE UNCHANGED vars
    BY <2>6, <2>8 DEF vars, exchange, rows
  <2>9. ~OrphanLooksUp /\ ~OrphanFills
    BY <2>2 DEF OrphanLooksUp, OrphanFills
  <2>10. QED
    BY <2>1, <2>3, <2>4, <2>5, <2>7, <2>8, <2>9 DEF Next, Worker
<1>3. QED
  BY <1>1, <1>2 DEF QuietInv
-----------------------------------------------------------------------------
(***************************************************************************)
(* The theorems.                                                             *)
(***************************************************************************)
(* The inductive invariant holds initially.                                     *)
LEMMA InvariantInit == Init => IInv
<1> SUFFICES ASSUME Init PROVE IInv
  OBVIOUS
<1>1. TypeOK
  <2>1. Cardinality(Symbols) \in Nat
    BY SymbolsFinite, FS_CardinalityType
  <2>2. NoTick \in Tick
    BY <2>1 DEF NoTick, Tick
  <2>3. QED
    BY <2>2, ExecutionBounds DEF Init, TypeOK, OrderRows, Pcs, Faults
<1>2. OrphansInv
  BY FS_EmptySet DEF Init, OrphansInv
<1>3. MemoryInv
  BY DEF Init, MemoryInv
<1>4. FilledInv
  <2>1. \A d : Ready(d) = {} /\ WorkerReady(d) = 0
    BY DEF Init, Ready, WorkerReady
  <2>2. QED
    BY <2>1, FS_EmptySet DEF Init, FilledInv
<1>5. OpenInv
  BY FS_EmptySet, ExecutionBounds DEF Init, OpenInv, OpenBounded
<1>6. CoverInv
  <2>1. Uncovered = {}
    BY DEF Init, Uncovered
  <2>2. QED
    BY <2>1, FS_EmptySet DEF Init, CoverInv
<1>7. SeenInv
  BY DEF Init, SeenInv, NoTick
<1>8. QuietInv
  BY DEF Init, QuietInv, NoFalseAlarm
<1>9. QED
  BY <1>1, <1>2, <1>3, <1>4, <1>5, <1>6, <1>7, <1>8 DEF IInv

(* Every state of an execution satisfies the inductive invariant.               *)
THEOREM Invariant == Spec => []IInv
<1>1. IInv /\ [Next]_vars => IInv'
  BY TypeOKStep, OrphansStep, MemoryStep, FilledStep, OpenStep, CoverStep, SeenStep, QuietStep
     DEF IInv
<1>2. QED
  BY <1>1, InvariantInit, PTL DEF Spec

(* Every variable keeps its type, and the worker holds a call just while it     *)
(* places and persists, whatever times out around it (execution/engine.py).     *)
THEOREM TypeCorrect == Spec => []TypeOK
<1>1. IInv => TypeOK
  BY DEF IInv
<1>2. QED
  BY <1>1, Invariant, PTL

(* max_open_positions is exceeded by late fills only, for any number of         *)
(* symbols, decisions and faults (cycle_runner.py:338-341, 600-616).            *)
THEOREM PositionsBounded == Spec => []OpenBounded
<1>1. IInv => OpenBounded
  BY DEF IInv, OpenInv
<1>2. QED
  BY <1>1, Invariant, PTL

(* A decision that comes back is filled again only if a call has timed out      *)
(* (engine.py:118-138, paper_adapter.py:123-130).                               *)
THEOREM DecisionsFilledOnce == Spec => []FilledOnce
<1>1. IInv => FilledOnce
  <2> SUFFICES ASSUME IInv, NEW d \in Decisions PROVE fills[d] <= 1 + faults.timeout
    BY DEF FilledOnce
  <2>1. IsFiniteSet(orphans) /\ Ready(d) \subseteq orphans
    BY DEF IInv, OrphansInv, Ready
  <2>2. Cardinality(Ready(d)) \in Nat
    BY <2>1, PartIsNoLarger
  <2>3. fills[d] \in Nat /\ WorkerReady(d) \in {0, 1} /\ faults.timeout \in Nat
    BY ExecutionBounds DEF IInv, TypeOK, Faults, WorkerReady
  <2>4. QED
    BY <2>2, <2>3 DEF IInv, FilledInv
<1>2. QED
  BY <1>1, Invariant, PTL

(* Positions without an exit plan are no more than the faults between a fill    *)
(* and set_config and the plans that were refused after a fill, as the plan of  *)
(* an ATR of 0 is (engine.py:177-223, 420-434).                                 *)
THEOREM PositionsCovered == Spec => []CoveredUnlessFault
<1>1. IInv => CoveredUnlessFault
  <2> SUFFICES ASSUME IInv, pc # "persist"
               PROVE  Cardinality(open \ plans) <= faults.db + faults.timeout + faults.plan
    BY DEF CoveredUnlessFault
  <2>1. Uncovered = open \ plans
    BY DEF Uncovered, Registering
  <2>2. Cardinality(Uncovered) \in Nat /\ Cardinality(orphans) \in Nat
    BY UncoveredCounted, OrphansCounted DEF IInv
  <2>3. faults.db \in Nat /\ faults.timeout \in Nat /\ faults.plan \in Nat
    BY ExecutionBounds DEF IInv, TypeOK, Faults
  <2>4. QED
    BY <2>1, <2>2, <2>3 DEF IInv, CoverInv
<1>2. QED
  BY <1>1, Invariant, PTL

(* No order is sent in a tick whose reconciliation has seen a position without  *)
(* an exit plan (gate.py:127-172).                                              *)
THEOREM NoEntrySent == Spec => []NoEntryOverUnprotected
<1>1. IInv => NoEntryOverUnprotected
  BY DEF IInv, SeenInv, NoEntryOverUnprotected
<1>2. QED
  BY <1>1, Invariant, PTL

(* The gate stops the bot only after a failure, a timeout, an unanswered query  *)
(* or a plan refused after its fill (gate.py:174-207, engine.py:420-434).       *)
THEOREM GateStopsForFaults == Spec => []NoFalseAlarm
<1>1. IInv => NoFalseAlarm
  BY DEF IInv, QuietInv
<1>2. QED
  BY <1>1, Invariant, PTL
-----------------------------------------------------------------------------
(***************************************************************************)
(* Execution implements OrderLedger.                                         *)
(***************************************************************************)
OrphansOf(d) == {o \in orphans : o.call.id = d}
WorkerCalls(d) == IF pc = "placing" /\ call.id = d THEN 1 ELSE 0

(* What each step does to the calls of a decision.                              *)
OneFewer(d) ==
    /\ LiveCalls(d) > 0
    /\ \A x \in Decisions : LiveCalls(x)' = IF x = d THEN LiveCalls(x) - 1 ELSE LiveCalls(x)
OneMore(d) ==
    \A x \in Decisions : LiveCalls(x)' = IF x = d THEN LiveCalls(x) + 1 ELSE LiveCalls(x)

(* The calls of a decision are the worker's and those of its threads.           *)
LEMMA LiveCallsCounted ==
    ASSUME IInv, NEW d
    PROVE  /\ IsFiniteSet(OrphansOf(d)) /\ Cardinality(OrphansOf(d)) \in Nat
           /\ WorkerCalls(d) \in {0, 1}
           /\ LiveCalls(d) = Cardinality(OrphansOf(d)) + WorkerCalls(d)
<1>1. IsFiniteSet(orphans) /\ OrphansOf(d) \subseteq orphans
  BY DEF IInv, OrphansInv, OrphansOf
<1>2. QED
  BY <1>1, PartIsNoLarger DEF LiveCalls, OrphansOf, WorkerCalls

(* So they are after a step.                                                    *)
LEMMA LiveCallsNext ==
    ASSUME IInv, [Next]_vars, NEW d
    PROVE  /\ Cardinality(OrphansOf(d)') \in Nat
           /\ WorkerCalls(d)' \in {0, 1}
           /\ LiveCalls(d)' = Cardinality(OrphansOf(d)') + WorkerCalls(d)'
<1>1. IsFiniteSet(orphans') /\ OrphansOf(d)' \subseteq orphans'
  BY OrphansStep DEF IInv, OrphansInv, OrphansOf
<1>2. QED
  BY <1>1, PartIsNoLarger DEF LiveCalls, OrphansOf, WorkerCalls

(* The worker's call ends.                                                      *)
LEMMA WorkerEnds ==
    ASSUME IInv, [Next]_vars, call \in Call, orphans' = orphans, pc = "placing", pc' # "placing"
    PROVE  OneFewer(call.id)
<1>1. \A x : /\ OrphansOf(x)' = OrphansOf(x)
             /\ WorkerCalls(x)' = 0
             /\ WorkerCalls(x) = IF x = call.id THEN 1 ELSE 0
  BY DEF OrphansOf, WorkerCalls
<1>2. QED
  BY <1>1, LiveCallsCounted, LiveCallsNext DEF OneFewer

(* The call of a thread ends.                                                   *)
LEMMA OrphanEnds ==
    ASSUME IInv, [Next]_vars, NEW o \in orphans, orphans' = orphans \ {o}, UNCHANGED <<pc, call>>
    PROVE  OneFewer(o.call.id)
<1>1. \A x : WorkerCalls(x)' = WorkerCalls(x)
  BY DEF WorkerCalls
<1>2. ASSUME NEW x, x # o.call.id PROVE OrphansOf(x)' = OrphansOf(x)
  BY <1>2 DEF OrphansOf
<1>3. o \in OrphansOf(o.call.id) /\ OrphansOf(o.call.id)' = OrphansOf(o.call.id) \ {o}
  BY DEF OrphansOf
<1>4. IsFiniteSet(OrphansOf(o.call.id))
  BY LiveCallsCounted
<1>5. /\ Cardinality(OrphansOf(o.call.id)') = Cardinality(OrphansOf(o.call.id)) - 1
      /\ Cardinality(OrphansOf(o.call.id)') \in Nat
  BY <1>3, <1>4, OneMoreOrLess
<1>6. LiveCalls(o.call.id) > 0 /\ LiveCalls(o.call.id)' = LiveCalls(o.call.id) - 1
  BY <1>1, <1>5, LiveCallsCounted, LiveCallsNext
<1>7. ASSUME NEW x \in Decisions, x # o.call.id PROVE LiveCalls(x)' = LiveCalls(x)
  BY <1>1, <1>2, <1>7, LiveCallsCounted, LiveCallsNext
<1>8. QED
  BY <1>6, <1>7 DEF OneFewer

(* The thread of a call that timed out goes on: no call is lost or gained.      *)
LEMMA HandedOver ==
    ASSUME IInv, [Next]_vars, PlaceTimesOut
    PROVE  \A x \in Decisions : LiveCalls(x)' = LiveCalls(x)
<1> DEFINE o == [call |-> call, n |-> faults.timeout + 1]
<1>1. orphans' = orphans \cup {o} /\ pc = "placing" /\ pc' # "placing"
  BY DEF PlaceTimesOut, NextSymbol
<1>2. o \notin orphans
  BY ExecutionBounds DEF IInv, OrphansInv, TypeOK, Faults
<1> SUFFICES ASSUME NEW x \in Decisions PROVE LiveCalls(x)' = LiveCalls(x)
  OBVIOUS
<1>3. o.call = call
  OBVIOUS
<1> HIDE DEF o
<1>4. CASE x = call.id
  <2>1. OrphansOf(x)' = OrphansOf(x) \cup {o} /\ o \notin OrphansOf(x)
    BY <1>1, <1>2, <1>3, <1>4 DEF OrphansOf
  <2>2. Cardinality(OrphansOf(x)') = Cardinality(OrphansOf(x)) + 1
    BY <2>1, LiveCallsCounted, OneMoreOrLess
  <2>3. WorkerCalls(x) = 1 /\ WorkerCalls(x)' = 0
    BY <1>1, <1>4 DEF WorkerCalls
  <2>4. QED
    BY <2>2, <2>3, LiveCallsCounted, LiveCallsNext
<1>5. CASE x # call.id
  <2>1. OrphansOf(x)' = OrphansOf(x) /\ WorkerCalls(x) = 0 /\ WorkerCalls(x)' = 0
    BY <1>1, <1>3, <1>5 DEF OrphansOf, WorkerCalls
  <2>2. QED
    BY <2>1, LiveCallsCounted, LiveCallsNext
<1>6. QED
  BY <1>4, <1>5

(* An orphan that finds nothing stays one call, and it is not taken for the     *)
(* orphan of another timeout.                                                   *)
LEMMA LooksUpKeeps ==
    ASSUME IInv, [Next]_vars, NEW o \in orphans, UNCHANGED <<pc, call>>,
           orphans' = (orphans \ {o}) \cup {[o EXCEPT !.call.checked = TRUE]}
    PROVE  \A x \in Decisions : LiveCalls(x)' = LiveCalls(x)
<1> DEFINE p == [o EXCEPT !.call.checked = TRUE]
<1>1. p.n = o.n /\ p.call.id = o.call.id
  BY DEF IInv, TypeOK, Call
<1>2. p \notin orphans \ {o}
  BY <1>1 DEF IInv, OrphansInv
<1> HIDE DEF p
<1> SUFFICES ASSUME NEW x \in Decisions PROVE LiveCalls(x)' = LiveCalls(x)
  OBVIOUS
<1>3. WorkerCalls(x)' = WorkerCalls(x)
  BY DEF WorkerCalls
<1>4. orphans' = (orphans \ {o}) \cup {p}
  BY DEF p
<1>5. CASE x = o.call.id
  <2>1. /\ o \in OrphansOf(x) /\ p \notin OrphansOf(x) \ {o}
        /\ OrphansOf(x)' = (OrphansOf(x) \ {o}) \cup {p}
    BY <1>1, <1>2, <1>4, <1>5 DEF OrphansOf
  <2>2. /\ IsFiniteSet(OrphansOf(x) \ {o})
        /\ Cardinality(OrphansOf(x) \ {o}) = Cardinality(OrphansOf(x)) - 1
    BY <2>1, LiveCallsCounted, OneMoreOrLess
  <2>3. Cardinality(OrphansOf(x)') = Cardinality(OrphansOf(x) \ {o}) + 1
    <3>1. Cardinality((OrphansOf(x) \ {o}) \cup {p}) = Cardinality(OrphansOf(x) \ {o}) + 1
      BY <2>1, <2>2, FS_AddElement
    <3>2. QED
      BY <2>1, <3>1
  <2>4. QED
    BY <1>3, <2>2, <2>3, LiveCallsCounted, LiveCallsNext
<1>6. CASE x # o.call.id
  <2>1. OrphansOf(x)' = OrphansOf(x)
    BY <1>1, <1>4, <1>6 DEF OrphansOf
  <2>2. QED
    BY <1>3, <2>1, LiveCallsCounted, LiveCallsNext
<1>7. QED
  BY <1>5, <1>6

(* A step that leaves the calls, the fills and what is recorded stutters.       *)
LEMMA Stutters ==
    ASSUME \A x \in Decisions : LiveCalls(x)' = LiveCalls(x), fills' = fills, db' = db
    PROVE  UNCHANGED Ledger!vars
  BY DEF Ledger!vars

(* A call ends with an order that was there: the ledger answers it.             *)
LEMMA CallAnswered ==
    ASSUME NEW d \in Decisions, OneFewer(d), fills[d] > 0, fills' = fills, db' = db
    PROVE  Ledger!Answer(d)
  BY DEF OneFewer, Ledger!Answer

(* A call ends with a fill: the ledger accepts it.                              *)
LEMMA CallAccepted ==
    ASSUME NEW d \in Decisions, OneFewer(d), fills' = [fills EXCEPT ![d] = @ + 1], db' = db
    PROVE  Ledger!Accept(d)
  BY DEF OneFewer, Ledger!Accept

(* A row is written: the ledger records the order.                              *)
LEMMA OrderRecorded ==
    ASSUME NEW d \in Decisions, fills[d] > 0, fills' = fills,
           \A x \in Decisions : LiveCalls(x)' = LiveCalls(x),
           {x \in Decisions : db'[x] # None} = {x \in Decisions : db[x] # None} \cup {d}
    PROVE  Ledger!Record(d)
  BY DEF Ledger!Record

(* Every step is one of the ledger's, or none.                                  *)
LEMMA LedgerStep == IInv /\ [Next]_vars => [Ledger!Next]_(Ledger!vars)
<1> SUFFICES ASSUME IInv, [Next]_vars PROVE Ledger!Next \/ UNCHANGED Ledger!vars
  OBVIOUS
<1>1. CASE Send
  <2>1. PICK d \in Decisions : ~AlreadyExecuted(d) /\ call'.id = d
    BY <1>1 DEF Send
  <2>2. UNCHANGED <<fills, db, orphans>> /\ pc = "pipeline" /\ pc' = "placing"
    BY <1>1 DEF Send, Approved, exchange, rows
  <2>3. OneMore(d)
    <3>1. \A x : /\ OrphansOf(x)' = OrphansOf(x) /\ WorkerCalls(x) = 0
                 /\ WorkerCalls(x)' = IF x = d THEN 1 ELSE 0
      BY <2>1, <2>2 DEF OrphansOf, WorkerCalls
    <3>2. QED
      BY <3>1, LiveCallsCounted, LiveCallsNext DEF OneMore
  <2>4. Ledger!Submit(d)
    BY <2>1, <2>2, <2>3 DEF OneMore, Ledger!Submit, AlreadyExecuted
  <2>5. QED
    BY <2>4 DEF Ledger!Next
<1>2. CASE PlaceLooksUp
  <2>1. /\ UNCHANGED <<fills, db, orphans>> /\ pc = "placing"
        /\ call \in Call /\ call.id \in Decisions
    BY <1>2, CallTypes DEF PlaceLooksUp, exchange, rows, IInv, TypeOK
  <2>2. CASE Unknown(call)
    <3>1. pc' = pc /\ call'.id = call.id
      BY <1>2, <2>1, <2>2 DEF PlaceLooksUp, Call
    <3>2. \A x : LiveCalls(x)' = LiveCalls(x)
      BY <2>1, <3>1 DEF LiveCalls
    <3>3. QED
      BY <2>1, <3>2, Stutters
  <2>3. CASE ~Unknown(call)
    <3>1. pc' = "persist" /\ orders[call.id] # None
      BY <1>2, <2>3 DEF PlaceLooksUp, Unknown
    <3>2. OneFewer(call.id) /\ fills[call.id] > 0
      BY <2>1, <3>1, WorkerEnds DEF IInv, MemoryInv
    <3>3. QED
      BY <2>1, <3>2, CallAnswered DEF Ledger!Next
  <2>4. QED
    BY <2>2, <2>3
<1>3. CASE PlaceFills
  <2>1. /\ db' = db /\ fills' = [fills EXCEPT ![call.id] = @ + 1] /\ orphans' = orphans
        /\ pc = "placing" /\ pc' = "persist" /\ call \in Call /\ call.id \in Decisions
    BY <1>3, CallTypes DEF PlaceFills, Fill, rows, IInv, TypeOK
  <2>2. OneFewer(call.id)
    BY <2>1, WorkerEnds
  <2>3. QED
    BY <2>1, <2>2, CallAccepted DEF Ledger!Next
<1>4. CASE PlaceTimesOut
  BY <1>4, HandedOver, Stutters DEF PlaceTimesOut, exchange, rows
<1>5. CASE OrphanLooksUp
  <2>1. PICK o \in orphans :
          orphans' = (orphans \ {o}) \cup
              (IF Unknown(o.call) THEN {[o EXCEPT !.call.checked = TRUE]} ELSE {})
    BY <1>5 DEF OrphanLooksUp
  <2>2. UNCHANGED <<fills, db, pc, call>> /\ o.call.id \in Decisions
    BY <1>5, CallTypes DEF OrphanLooksUp, exchange, rows, IInv, TypeOK
  <2>3. CASE Unknown(o.call)
    <3>1. orphans' = (orphans \ {o}) \cup {[o EXCEPT !.call.checked = TRUE]}
      BY <2>1, <2>3
    <3>2. QED
      BY <2>2, <3>1, LooksUpKeeps, Stutters
  <2>4. CASE ~Unknown(o.call)
    <3>1. orphans' = orphans \ {o} /\ orders[o.call.id] # None
      BY <2>1, <2>4 DEF Unknown
    <3>2. OneFewer(o.call.id) /\ fills[o.call.id] > 0
      BY <2>2, <3>1, OrphanEnds DEF IInv, MemoryInv
    <3>3. QED
      BY <2>2, <3>2, CallAnswered DEF Ledger!Next
  <2>5. QED
    BY <2>3, <2>4
<1>6. CASE OrphanFills
  <2>1. PICK o \in orphans : Fill(o.call) /\ orphans' = orphans \ {o}
    BY <1>6 DEF OrphanFills
  <2>2. UNCHANGED <<db, pc, call>> /\ o.call.id \in Decisions
    BY <1>6, CallTypes DEF OrphanFills, rows, IInv, TypeOK
  <2>3. OneFewer(o.call.id)
    BY <2>1, <2>2, OrphanEnds
  <2>4. QED
    BY <2>1, <2>2, <2>3, CallAccepted DEF Fill, Ledger!Next
<1>7. CASE PersistDone
  <2>1. /\ UNCHANGED <<fills, orphans>> /\ pc = "persist" /\ pc' # "placing"
        /\ call \in Call /\ call.id \in Decisions /\ call.result # None
        /\ db' = [db EXCEPT ![call.id] = call.result]
    BY <1>7, CallTypes DEF PersistDone, NextSymbol, exchange, _persist_order, IInv, TypeOK
  <2>2. \A x : LiveCalls(x)' = LiveCalls(x)
    BY <2>1 DEF LiveCalls
  <2>3. {x \in Decisions : db'[x] # None} = {x \in Decisions : db[x] # None} \cup {call.id}
    BY <2>1 DEF IInv, TypeOK, OrderRows
  <2>4. fills[call.id] > 0
    BY <2>1 DEF IInv, MemoryInv
  <2>5. QED
    BY <2>1, <2>2, <2>3, <2>4, OrderRecorded DEF Ledger!Next
\* The other steps of the worker have no call and record nothing.
<1>8. CASE \/ TickMarketData \/ TickPositions \/ Gate \/ SymbolSkipped \/ Replay \/ NotSent
           \/ PlanRefused \/ PersistFails
  <2>1. UNCHANGED <<fills, db, orphans>> /\ pc # "placing" /\ pc' # "placing"
    BY <1>8 DEF TickMarketData, TickPositions, Gate, SymbolSkipped, Replay, NotSent, Approved,
                PlanRefused, PersistFails, NextSymbol, exchange, rows
  <2>2. \A x : LiveCalls(x)' = LiveCalls(x)
    BY <2>1 DEF LiveCalls
  <2>3. QED
    BY <2>1, <2>2, Stutters
<1>9. CASE UNCHANGED vars
  <2>1. UNCHANGED <<fills, db, orphans, pc, call>>
    BY <1>9 DEF vars, exchange, rows
  <2>2. \A x : LiveCalls(x)' = LiveCalls(x)
    BY <2>1 DEF LiveCalls
  <2>3. QED
    BY <2>1, <2>2, Stutters
<1>10. QED
  BY <1>1, <1>2, <1>3, <1>4, <1>5, <1>6, <1>7, <1>8, <1>9 DEF Next, Worker

(* Execution implements OrderLedger: an order is sent once for every call,      *)
(* recorded only when the exchange has accepted it, and not asked for again     *)
(* once recorded, whatever times out, fails or comes back                       *)
(* (execution/engine.py:100-223, paper_adapter.py:104-165).                     *)
THEOREM LedgerImplemented == Spec => LedgerKept
<1>1. Init => Ledger!Init
  <2> SUFFICES ASSUME Init PROVE Ledger!Init
    OBVIOUS
  <2>1. \A d \in Decisions : LiveCalls(d) = 0
    <3> SUFFICES ASSUME NEW d \in Decisions PROVE LiveCalls(d) = 0
      OBVIOUS
    <3>1. OrphansOf(d) = {} /\ WorkerCalls(d) = 0
      BY DEF Init, OrphansOf, WorkerCalls
    <3>2. LiveCalls(d) = Cardinality(OrphansOf(d)) + WorkerCalls(d)
      BY LiveCallsCounted, InvariantInit
    <3>3. QED
      BY <3>1, <3>2, FS_EmptySet
  <2>2. fills = [d \in Decisions |-> 0] /\ {d \in Decisions : db[d] # None} = {}
    BY DEF Init
  <2>3. QED
    BY <2>1, <2>2 DEF Ledger!Init
<1>2. QED
  BY <1>1, LedgerStep, Invariant, PTL DEF Spec, LedgerKept, Ledger!Spec

(* What the ledger promises of a recorded order holds of the code: the exchange *)
(* has accepted it ...                                                          *)
THEOREM RecordedOrdersAccepted == Spec => []Ledger!RecordedAccepted
<1> DEFINE Recorded == {d \in Decisions : db[d] # None}
<1>1. Ledger!RecordedAccepted <=> \A d \in Recorded : fills[d] > 0
  BY DEF Ledger!RecordedAccepted
<1>2. IInv => \A d \in Recorded : fills[d] > 0
  BY DEF IInv, MemoryInv
<1>3. QED
  BY <1>1, <1>2, Invariant, PTL

(* ... and it is neither forgotten nor asked for again.                         *)
THEOREM RecordedOrdersDone == Spec => Ledger!NotAskedAgain
<1> DEFINE Recorded == {d \in Decisions : db[d] # None}
           Done == \A d \in Recorded : d \in Recorded' /\ LiveCalls(d)' <= LiveCalls(d)
<1>1. IInv /\ [Next]_vars => Done
  <2> SUFFICES ASSUME IInv, [Next]_vars, NEW d \in Recorded
               PROVE  d \in Recorded' /\ LiveCalls(d)' <= LiveCalls(d)
    OBVIOUS
  <2> DEFINE calls == [x \in Decisions |-> LiveCalls(x)]
  <2>1. LiveCalls(d) \in Nat /\ calls[d] = LiveCalls(d) /\ calls'[d] = LiveCalls(d)'
    BY LiveCallsCounted
  <2>2. CASE UNCHANGED Ledger!vars
    <3>1. calls' = calls /\ Recorded' = Recorded
      BY <2>2 DEF Ledger!vars
    <3> HIDE DEF calls, Recorded
    <3>2. QED
      BY <2>1, <3>1
  <2>3. ASSUME NEW x \in Decisions, Ledger!Submit(x)
        PROVE  d \in Recorded' /\ LiveCalls(d)' <= LiveCalls(d)
    <3>1. x # d /\ calls' = [calls EXCEPT ![x] = @ + 1] /\ Recorded' = Recorded
      BY <2>3 DEF Ledger!Submit
    <3>2. calls'[d] = calls[d]
      BY <3>1
    <3> HIDE DEF calls, Recorded
    <3>3. QED
      BY <2>1, <3>1, <3>2
  <2>4. ASSUME NEW x \in Decisions, Ledger!Accept(x) \/ Ledger!Answer(x)
        PROVE  d \in Recorded' /\ LiveCalls(d)' <= LiveCalls(d)
    <3>1. calls' = [calls EXCEPT ![x] = @ - 1] /\ Recorded' = Recorded
      BY <2>4 DEF Ledger!Accept, Ledger!Answer
    <3>2. calls'[d] = calls[d] \/ calls'[d] = calls[d] - 1
      BY <3>1
    <3> HIDE DEF calls, Recorded
    <3>3. QED
      BY <2>1, <3>1, <3>2
  <2>5. ASSUME NEW x \in Decisions, Ledger!Record(x)
        PROVE  d \in Recorded' /\ LiveCalls(d)' <= LiveCalls(d)
    <3>1. calls' = calls /\ Recorded' = Recorded \cup {x}
      BY <2>5 DEF Ledger!Record
    <3> HIDE DEF calls, Recorded
    <3>2. QED
      BY <2>1, <3>1
  <2>6. QED
    BY <2>2, <2>3, <2>4, <2>5, LedgerStep DEF Ledger!Next
<1>2. IInv /\ [Next]_vars => [Ledger!RecordedStays]_(Ledger!vars)
  <2>1. Done => Ledger!RecordedStays
    BY DEF Ledger!RecordedStays
  <2>2. QED
    BY <1>1, <2>1
<1>3. QED
  BY <1>2, Invariant, PTL DEF Spec, Ledger!NotAskedAgain
=============================================================================
