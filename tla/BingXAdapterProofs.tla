------------------------- MODULE BingXAdapterProofs -------------------------
(***************************************************************************)
(* Proofs about BingXAdapter, for every set of client order ids and symbols,*)
(* every threshold of the breaker and every bound of attempts and faults.   *)
(*                                                                         *)
(* No property is inductive.  An answer is true because of what the         *)
(* operation under way knows, so the invariant speaks of it:                *)
(*   OpInv      its request is one of its kind's, its order has an id, and  *)
(*              its faults are among the faults so far;                     *)
(*   ModeInv    what the adapter has verified is so on the exchange;        *)
(*   PlaceInv   how far place_order has come: modes first, then the query,  *)
(*              then the POST, and an order it has created is there under   *)
(*              its id and symbol, at the price of a fault.                 *)
(* The sequence of symbols get_order_status still has to try is not typed:  *)
(* an answer about its head says enough of the head.                        *)
(***************************************************************************)
EXTENDS BingXAdapter, TLAPS

(* The operations that have probe p still to try.                            *)
OpOf(p) ==
    [kind : Kinds, id : Ids \cup {None}, symbol : Symbols, step : Steps,
     attempt : 1..MaxAttempts, probe : {p}, created : BOOLEAN,
     faults : 0..MaxFaults, blind : BOOLEAN]

(* The requests each kind of operation sends.                                *)
Fits(kind, step) ==
    \/ kind = "place" /\ step \in {"dual", "margin", "query", "post", "requery"}
    \/ kind = "cancel" /\ step \in {"status", "delete", "restatus"}
    \/ kind = "status" /\ step = "status"
    \/ kind = "isolate" /\ step = "margin"
    \/ kind \in {"orders", "fees", "read", "leverage"} /\ step = kind

(* What is so of an operation o under way.                                   *)
OpFacts(o) ==
    /\ o \in OpOf(o.probe) /\ Fits(o.kind, o.step)
    /\ o.kind \in {"place", "cancel", "status"} => o.id \in Ids
    /\ o.faults <= faults

PlaceFacts(o) ==
    o.kind = "place" =>
        /\ o.step # "dual" => verified.oneWay
        /\ o.step \in {"query", "post", "requery"} => o.symbol \in verified.isolated
        /\ o.created => /\ o.step \in {"post", "requery"}
                        /\ book[o.id] # None /\ book[o.id].symbol = o.symbol
                        /\ o.faults >= 1 \/ o.blind
        /\ o.step = "post" => o.faults >= o.attempt - 1

(* One operation at a time, and no answer while it lasts.                    *)
OpInv == op # None => OpFacts(op) /\ result = None
PlaceInv == op # None => PlaceFacts(op)

ModeInv ==
    /\ verified.oneWay => account.oneWay
    /\ verified.isolated \subseteq account.isolated

(* Where one attempt is all there is, a lost answer cannot be made good.     *)
ResultInv == AnswersTrue /\ (MaxAttempts >= 2 => LostAnswerRecovered)

(* The inductive invariant.                                                  *)
IInv == TypeOK /\ OpInv /\ PlaceInv /\ ModeInv /\ ResultInv
-----------------------------------------------------------------------------
(* What OpInv, PlaceInv and ResultInv say, and TypeOK of op and result.      *)
Known ==
    /\ OpInv /\ PlaceInv /\ ResultInv
    /\ result = None \/ result.answer \in Answers

(* An error an operation may raise: its order, if it has created one, has    *)
(* cost two faults, or the adapter could not see.                            *)
MayRaise(o) ==
    MaxAttempts >= 2 /\ o.kind = "place" /\ o.created => o.faults >= 2 \/ o.blind

(* The state after the step knows of o what OpInv and PlaceInv say of op.    *)
Carried(o) == OpFacts(o) /\ PlaceFacts(o)

(* An operation that goes to the next symbol is an operation again.           *)
LEMMA NextProbe ==
    ASSUME NEW o, o \in OpOf(o.probe), NEW q, NEW x,
           x = [o EXCEPT !.probe = q, !.attempt = 1]
    PROVE  /\ x \in OpOf(x.probe) /\ x.step = o.step /\ x.kind = o.kind /\ x.id = o.id
           /\ x.faults = o.faults
<1>1. 1 \in 1..MaxAttempts
  BY AdapterBounds
<1>2. QED
  BY <1>1 DEF OpOf

(* The operation ends with an answer that says nothing about an order.       *)
LEMMA Ends ==
    ASSUME NEW o, NEW a \in {"False", "None", "done", "rates", "unavailable", "raises"},
           Answer(o, a), a = "raises" => MayRaise(o)
    PROVE  Known'
  BY DEF Answer, AnswerExecuted, Executed, MayRaise, Known, OpInv, PlaceInv, ResultInv, AnswersTrue, LostAnswerRecovered,
         Statuses, Answers

(* The operation raises.                                                     *)
LEMMA RaisesEnd ==
    ASSUME NEW o, Raises(o), MayRaise(o)
    PROVE  Known'
  BY Ends DEF Raises

(* get_order_status goes to the next symbol or finds nothing.                *)
LEMMA ProbeNextKnows ==
    ASSUME NEW o, Carried(o)', o.kind # "place", result = None, ProbeNext(o)
    PROVE  Known'
<1>1. CASE op' = [o EXCEPT !.probe = Tail(@), !.attempt = 1] /\ result' = result
  <2>1. op' \in OpOf(op'.probe) /\ op'.kind = o.kind /\ op'.step = o.step /\ op'.id = o.id
        /\ op'.faults = o.faults
    <3>1. o \in OpOf(o.probe) /\ op' = [o EXCEPT !.probe = Tail(o.probe), !.attempt = 1]
      BY <1>1 DEF Carried, OpFacts
    <3>2. QED
      BY <3>1, NextProbe, ZenonT(60)
  <2>2. QED
    BY <1>1, <2>1 DEF Known, Carried, OpInv, OpFacts, PlaceInv, PlaceFacts, ResultInv,
       AnswersTrue, LostAnswerRecovered
<1>2. CASE Answer(o, IF o.kind = "cancel" THEN "False" ELSE "None")
  BY <1>2, Ends
<1>3. QED
  BY <1>1, <1>2 DEF ProbeNext

(* A new request of the same operation.                                      *)
LEMMA GotoKnows ==
    ASSUME NEW o, NEW step \in Steps, OpFacts(o)', Fits(o.kind, step), result = None, Goto(o, step),
           o.kind = "place" =>
               /\ step # "dual" => verified'.oneWay
               /\ step \in {"query", "post", "requery"} => o.symbol \in verified'.isolated
               /\ o.created => /\ step \in {"post", "requery"}
                               /\ book'[o.id] # None /\ book'[o.id].symbol = o.symbol
                               /\ o.faults >= 1 \/ o.blind
    PROVE  Known'
<1>1. /\ op' \in OpOf(op'.probe)
      /\ op'.kind = o.kind /\ op'.id = o.id /\ op'.symbol = o.symbol /\ op'.step = step
      /\ op'.attempt = 1 /\ op'.created = o.created /\ op'.faults = o.faults /\ op'.blind = o.blind
  <2>1. o \in OpOf(o.probe) /\ op' = [o EXCEPT !.step = step, !.attempt = 1]
    BY DEF OpFacts, Goto
  <2>2. 1 \in 1..MaxAttempts
    BY AdapterBounds
  <2>3. QED
    BY <2>1, <2>2 DEF OpOf
<1>2. o.faults \in Nat
  BY AdapterBounds DEF OpFacts, OpOf
<1>3. OpInv'
  BY <1>1 DEF OpInv, OpFacts, Goto
<1>4. PlaceInv'
  BY <1>1, <1>2 DEF PlaceInv, PlaceFacts
<1>5. QED
  BY <1>3, <1>4 DEF Known, ResultInv, AnswersTrue, LostAnswerRecovered, Goto

(* The request failed with an error code, or was refused by the breaker.      *)
LEMMA ApiErrorKnows ==
    ASSUME NEW o, Carried(o)', o.step = "requery" => MayRaise(o), result = None, OnApiError(o)
    PROVE  Known'
<1>1. OpFacts(o)' /\ PlaceFacts(o)' /\ o.step \in Steps
  BY DEF Carried, OpFacts, OpOf
<1>2. CASE o.step = "query"
  <2>1. Goto(o, "post") /\ o.kind = "place"
    BY <1>1, <1>2 DEF OnApiError, OpFacts, Fits
  <2>2. QED
    BY <1>1, <1>2, <2>1, GotoKnows DEF Fits, PlaceFacts, Steps
<1>3. CASE o.step = "post"
  <2>1. Goto(o, "requery") /\ o.kind = "place"
    BY <1>1, <1>3 DEF OnApiError, OnPostRefused, OpFacts, Fits
  <2>2. QED
    BY <1>1, <1>3, <2>1, GotoKnows DEF Fits, PlaceFacts, Steps
<1>4. CASE o.step = "delete"
  <2>1. PICK q : q = [o EXCEPT !.probe = Candidates(o.id)]
    OBVIOUS
  <2>2. q \in OpOf(q.probe) /\ q.kind = o.kind /\ q.step = o.step /\ q.id = o.id /\ q.faults = o.faults
    BY <1>1, <2>1 DEF OpFacts, OpOf
  <2>3. OpFacts(q)' /\ q.kind = "cancel"
    BY <1>1, <1>4, <2>2 DEF OpFacts, Fits
  <2>4. Goto(q, "restatus")
    BY <1>4, <2>1 DEF OnApiError
  <2>5. QED
    BY <2>3, <2>4, GotoKnows DEF Fits, Steps
<1>5. CASE o.step \in {"status", "restatus"}
  <2>1. ProbeNext(o) /\ o.kind # "place"
    BY <1>1, <1>5 DEF OnApiError, OpFacts, Fits
  <2>2. QED
    BY <2>1, ProbeNextKnows
<1>6. CASE o.step \in {"dual", "margin", "requery", "orders", "fees", "read", "leverage"}
  <2>1. Raises(o)
    BY <1>6 DEF OnApiError
  <2>2. MayRaise(o)
    BY <1>1, <1>6 DEF MayRaise, PlaceFacts
  <2>3. QED
    BY <2>1, <2>2, RaisesEnd
<1>7. QED
  BY <1>1, <1>2, <1>3, <1>4, <1>5, <1>6 DEF Steps

(* The request failed in any other way.                                      *)
LEMMA OtherErrorKnows ==
    ASSUME NEW o, Carried(o)', MayRaise(o), result = None, OnHttpError(o) \/ OnOtherError(o)
    PROVE  Known'
<1>1. CASE o.step \in {"status", "restatus"} /\ ProbeNext(o)
  <2>1. o.kind # "place"
    BY <1>1 DEF Carried, OpFacts, Fits
  <2>2. QED
    BY <1>1, <2>1, ProbeNextKnows
<1>2. CASE Raises(o)
  BY <1>2, RaisesEnd
<1>3. QED
  BY <1>1, <1>2 DEF OnHttpError, OnOtherError

(* The query or the POST found or made the order: what it answers is so.      *)
LEMMA OrderAnswerKnows ==
    ASSUME NEW o, book'[o.id] \in Order, NEW order \in _parse_order(book'[o.id]),
           AnswerOrder(o, order)
    PROVE  Known'
<1>1. /\ book'[o.id] # None
      /\ order.status \in Statuses
      /\ order.status \in {book'[o.id].status, "FAILED"}
      /\ order.executed => book'[o.id].executed
      /\ book'[o.id].status \in Executed => book'[o.id].executed
  BY NoneIsNoOrder DEF _parse_order, Order, Statuses
<1>2. /\ op' = None /\ result'.answer = order.status /\ result'.id = o.id
      /\ result'.executed = order.executed
  BY DEF AnswerOrder, AnswerExecuted
<1>3. AnswersTrue'
  BY <1>1, <1>2 DEF AnswersTrue, Executed, Statuses
<1>4. result'.answer \in Answers /\ result'.answer # "raises"
  BY <1>1, <1>2 DEF Answers, Statuses
<1>5. QED
  BY <1>2, <1>3, <1>4 DEF Known, OpInv, PlaceInv, ResultInv, LostAnswerRecovered

(* cancel_order answers True for an order that is cancelled.                  *)
LEMMA CancelAnswerKnows ==
    ASSUME NEW o, Answer(o, "True"), book'[o.id].status = "CANCELLED"
    PROVE  Known'
  BY DEF Answer, AnswerExecuted, Executed, Known, OpInv, PlaceInv, ResultInv, AnswersTrue,
         LostAnswerRecovered, Statuses, Answers

(* A second look that finds the order.                                       *)
LEMMA StatusKnows ==
    ASSUME NEW o, OpFacts(o)', result = None, o.step \in {"status", "restatus"},
           book[o.id] \in Order, book' = book, Head(o.probe) \in Symbols,
           NEW order \in _parse_order(book[o.id]), OnStatus(o, order)
    PROVE  Known'
<1>1. /\ OpFacts(o)' /\ o.kind # "place"
      /\ o.kind = "cancel" \/ (o.kind = "status" /\ o.step = "status")
      /\ order.status = "CANCELLED" => book'[o.id].status = "CANCELLED"
  BY DEF OpFacts, Fits, _parse_order
<1>2. CASE AnswerOrder(o, order)
  BY <1>2, OrderAnswerKnows
<1>3. CASE Answer(o, "False")
  BY <1>3, Ends
<1>4. CASE Answer(o, "True") /\ order.status = "CANCELLED"
  BY <1>1, <1>4, CancelAnswerKnows
<1>5. CASE o.kind = "cancel" /\ Goto([o EXCEPT !.symbol = Head(o.probe)], "delete")
  <2>1. PICK q : q = [o EXCEPT !.symbol = Head(o.probe)]
    OBVIOUS
  <2>2. q \in OpOf(q.probe) /\ q.kind = o.kind /\ q.step = o.step /\ q.id = o.id /\ q.faults = o.faults
    BY <1>1, <2>1 DEF OpFacts, OpOf
  <2>3. OpFacts(q)' /\ q.kind = "cancel"
    BY <1>1, <1>5, <2>2 DEF OpFacts, Fits
  <2>4. Goto(q, "delete")
    BY <1>5, <2>1
  <2>5. QED
    BY <2>3, <2>4, GotoKnows DEF Fits, Steps
<1>6. QED
  BY <1>1, <1>2, <1>3, <1>4, <1>5 DEF OnStatus, Confirmed
-----------------------------------------------------------------------------
(* The breaker keeps its type whatever an attempt comes to.                   *)
LEMMA BreakerTypes ==
    ASSUME NEW b \in Breaker, b.failures <= FailureThreshold + 1
    PROVE  /\ before_call(b) \in Breaker /\ before_call(b).failures = b.failures
           /\ on_success(b) \in Breaker /\ on_success(b).failures <= FailureThreshold + 1
           /\ on_failure(b) \in Breaker /\ on_failure(b).failures <= FailureThreshold + 1
<1> USE ThresholdPositive DEF Breaker, BreakerStates
<1>1. before_call(b) \in Breaker /\ before_call(b).failures = b.failures
  BY DEF before_call
<1>2. on_success(b) \in Breaker /\ on_success(b).failures <= FailureThreshold + 1
  BY DEF on_success, Closed
<1>3. on_failure(b) \in Breaker /\ on_failure(b).failures <= FailureThreshold + 1
  <2> DEFINE n == IF b.failures > FailureThreshold THEN b.failures ELSE b.failures + 1
  <2>1. n \in Nat /\ n <= FailureThreshold + 1
    OBVIOUS
  <2> HIDE DEF n
  <2>2. on_failure(b) = IF b.state = "HALF_OPEN" \/ n >= FailureThreshold
                        THEN [state |-> "OPEN", failures |-> n, elapsed |-> FALSE]
                        ELSE [b EXCEPT !.failures = n]
    BY DEF on_failure, n
  <2>3. QED
    BY <2>1, <2>2
<1>4. QED
  BY <1>1, <1>2, <1>3

(* So does the breaker of the adapter, after an attempt or without one.      *)
LEMMA BreakerAfter ==
    ASSUME TypeOK,
           \/ breaker' = breaker
           \/ breaker' = on_success(before_call(breaker))
           \/ breaker' = on_failure(before_call(breaker))
    PROVE  breaker' \in Breaker /\ breaker'.failures <= FailureThreshold + 1
<1>1. breaker \in Breaker /\ breaker.failures <= FailureThreshold + 1
  BY DEF TypeOK
<1>2. before_call(breaker) \in Breaker /\ before_call(breaker).failures <= FailureThreshold + 1
  BY <1>1, BreakerTypes
<1>3. QED
  BY <1>1, <1>2, BreakerTypes

(* No order vanishes or changes its symbol.                                  *)
BookKeeps ==
    \A i \in Ids : book[i] # None => book'[i] # None /\ book'[i].symbol = book[i].symbol

(* What a request does when the exchange carries it out.                      *)
LEMMA EffectKeeps ==
    ASSUME TypeOK, OpInv, ModeInv, op # None, Accepts(op), Effect(op)
    PROVE  /\ book' \in [Ids -> Order \cup {None}]
           /\ account' \in [oneWay : BOOLEAN, isolated : SUBSET Symbols]
           /\ verified.oneWay => account'.oneWay
           /\ verified.isolated \subseteq account'.isolated
           /\ BookKeeps
           /\ op.step = "post" => book'[op.id] # None /\ book'[op.id].symbol = op.symbol
           /\ op.step = "dual" => account'.oneWay
           /\ op.step = "margin" => op.symbol \in account'.isolated
           /\ op.step = "delete" => book'[op.id].status = "CANCELLED"
           /\ op.step \notin {"dual", "margin", "post", "delete"} => UNCHANGED exchange
<1>1. /\ OpFacts(op) /\ op.step \in Steps /\ op.symbol \in Symbols
      /\ op.step \in {"post", "delete"} => op.id \in Ids
  BY DEF OpInv, OpFacts, OpOf, Fits
<1>2. /\ book \in [Ids -> Order \cup {None}]
      /\ account \in [oneWay : BOOLEAN, isolated : SUBSET Symbols]
  BY DEF TypeOK
<1>3. CASE op.step = "dual"
  BY <1>2, <1>3 DEF Effect, ModeInv, BookKeeps
<1>4. CASE op.step = "margin"
  BY <1>1, <1>2, <1>4 DEF Effect, ModeInv, BookKeeps
<1>5. CASE op.step = "post"
  <2>1. PICK r \in NewOrders(op.symbol) : book' = [book EXCEPT ![op.id] = r]
    BY <1>5 DEF Effect
  <2>2. account' = account /\ book[op.id] = None
    BY <1>5 DEF Effect, Accepts
  <2>3. r \in Order /\ r.symbol = op.symbol
    BY DEF NewOrders
  <2>4. book' \in [Ids -> Order \cup {None}]
    BY <1>2, <2>1, <2>3
  <2>5. book'[op.id] # None /\ book'[op.id].symbol = op.symbol
    BY <1>1, <1>2, <1>5, <2>1, <2>3, NoneIsNoOrder
  <2>6. BookKeeps
    BY <1>2, <2>1, <2>2 DEF BookKeeps
  <2>7. QED
    BY <1>2, <1>5, <2>2, <2>4, <2>5, <2>6 DEF ModeInv
<1>6. CASE op.step = "delete"
  <2>1. book' = [book EXCEPT ![op.id].status = "CANCELLED"] /\ account' = account
    BY <1>6 DEF Effect
  <2>2. op.id \in Ids /\ book[op.id] \in Order
    BY <1>1, <1>2, <1>6 DEF Accepts, Finds
  <2>3. PICK r : r = [book[op.id] EXCEPT !.status = "CANCELLED"]
    OBVIOUS
  <2>4. r \in Order /\ r.symbol = book[op.id].symbol /\ r.status = "CANCELLED"
    BY <2>2, <2>3 DEF Order, Statuses, Executed
  <2>5. book' = [book EXCEPT ![op.id] = r]
    BY <2>1, <2>3
  <2>6. QED
    BY <1>2, <1>6, <2>1, <2>2, <2>4, <2>5, NoneIsNoOrder DEF ModeInv, BookKeeps
<1>7. CASE op.step \notin {"dual", "margin", "post", "delete"}
  <2>1. UNCHANGED exchange
    BY <1>7 DEF Effect
  <2>2. QED
    BY <1>2, <1>7, <2>1 DEF ModeInv, BookKeeps, exchange
<1>8. QED
  BY <1>3, <1>4, <1>5, <1>6, <1>7

(* What a request leaves of the exchange when nothing carried it out, or the  *)
(* exchange did.                                                             *)
LEMMA ExchangeKeeps ==
    ASSUME TypeOK, OpInv, ModeInv, op # None,
           UNCHANGED exchange \/ (Accepts(op) /\ Effect(op))
    PROVE  /\ book' \in [Ids -> Order \cup {None}]
           /\ account' \in [oneWay : BOOLEAN, isolated : SUBSET Symbols]
           /\ verified.oneWay => account'.oneWay
           /\ verified.isolated \subseteq account'.isolated
           /\ BookKeeps
<1>1. CASE UNCHANGED exchange
  BY <1>1 DEF TypeOK, ModeInv, BookKeeps, exchange
<1>2. CASE Accepts(op) /\ Effect(op)
  BY <1>2, EffectKeeps
<1>3. QED
  BY <1>1, <1>2

(* o is op with its observations brought up to date.                         *)
SameRequest(o) ==
    /\ o \in OpOf(op.probe) /\ o.probe = op.probe
    /\ o.kind = op.kind /\ o.id = op.id /\ o.symbol = op.symbol /\ o.step = op.step
    /\ o.attempt = op.attempt
    /\ op.faults <= o.faults /\ (op.blind => o.blind) /\ (op.created => o.created)

(* It is an operation still, and what was known of op is known of it.         *)
LEMMA Observed ==
    ASSUME OpInv, op # None, NEW o, SameRequest(o), o.faults <= faults'
    PROVE  OpFacts(o)'
  BY DEF OpInv, OpFacts, SameRequest

(* Observations added to op are known of it too, if the order it has created is*)
(* there and has cost a fault.                                               *)
LEMMA ObservedKnows ==
    ASSUME OpInv, PlaceInv, op # None, BookKeeps, verified' = verified,
           NEW o, SameRequest(o), o.faults <= faults',
           o.created /\ ~op.created => /\ op.step = "post"
                                      /\ book'[op.id] # None /\ book'[op.id].symbol = op.symbol
                                      /\ (o.faults >= 1 \/ o.blind)
    PROVE  Carried(o)'
<1>1. OpFacts(o)'
  BY Observed
<1>2. /\ OpFacts(op) /\ PlaceFacts(op) /\ op.faults \in Nat /\ op.attempt \in Nat /\ o.faults \in Nat
      /\ op.kind = "place" => op.id \in Ids
  BY AdapterBounds DEF OpInv, PlaceInv, OpFacts, OpOf, SameRequest
<1>3. PlaceFacts(o)'
  BY <1>2 DEF PlaceFacts, BookKeeps, SameRequest
<1>4. QED
  BY <1>1, <1>3 DEF Carried

(* TypeOK without op and result.                                             *)
Rest ==
    /\ book \in [Ids -> Order \cup {None}]
    /\ account \in [oneWay : BOOLEAN, isolated : SUBSET Symbols]
    /\ verified \in [oneWay : BOOLEAN, isolated : SUBSET Symbols]
    /\ cache \in [Ids -> Symbols \cup {None}]
    /\ rates \in BOOLEAN
    /\ breaker \in Breaker /\ breaker.failures <= FailureThreshold + 1
    /\ faults \in 0..MaxFaults

(* The parts of the inductive invariant, put together.                       *)
LEMMA Assembled == Rest' /\ Known' /\ ModeInv' => IInv'
<1>1. ASSUME OpInv', op' # None PROVE op'.step \in Steps /\ op'.attempt \in 1..MaxAttempts
  BY <1>1 DEF OpInv, OpFacts, OpOf
<1>2. QED
  BY <1>1 DEF Rest, Known, IInv, TypeOK

(* A request that fails, in whatever way, and what the operation does then.   *)
LEMMA FailedRequest ==
    ASSUME IInv, op # None,
           UNCHANGED exchange \/ (Accepts(op) /\ Effect(op)),
           UNCHANGED <<verified, rates>>,
           cache' = cache \/ cache' \in [Ids -> Symbols \cup {None}],
           \/ breaker' = breaker
           \/ breaker' = on_success(before_call(breaker))
           \/ breaker' = on_failure(before_call(breaker)),
           faults' \in 0..MaxFaults, Known'
    PROVE  IInv'
<1>1. TypeOK /\ OpInv /\ ModeInv
  BY DEF IInv
<1>2. /\ book' \in [Ids -> Order \cup {None}]
      /\ account' \in [oneWay : BOOLEAN, isolated : SUBSET Symbols]
      /\ verified.oneWay => account'.oneWay
      /\ verified.isolated \subseteq account'.isolated
  BY <1>1, ExchangeKeeps
<1>3. breaker' \in Breaker /\ breaker'.failures <= FailureThreshold + 1
  BY <1>1, BreakerAfter
<1>4. Rest'
  BY <1>1, <1>2, <1>3 DEF TypeOK, Rest
<1>5. ModeInv'
  BY <1>2 DEF ModeInv
<1>6. QED
  BY <1>4, <1>5, Assembled

(* The record of an operation whose observations are set.                     *)
LEMMA Observes ==
    ASSUME IInv, op # None
    PROVE  /\ op \in OpOf(op.probe) /\ op.faults \in 0..MaxFaults /\ op.faults <= faults
           /\ op.created \in BOOLEAN /\ op.blind \in BOOLEAN /\ result = None
           /\ op.step \in Steps /\ op.symbol \in Symbols
           /\ faults \in 0..MaxFaults /\ op.faults \in Nat /\ faults \in Nat
           /\ TypeOK /\ OpInv /\ PlaceInv /\ ModeInv
  BY AdapterBounds DEF IInv, OpInv, OpFacts, OpOf, TypeOK

(* The breaker refuses: the operation has not seen the exchange.             *)
LEMMA RefusedStep == ASSUME IInv, Refused PROVE IInv'
<1>1. op # None /\ UNCHANGED exchange
  BY DEF Refused
<1>2. /\ op \in OpOf(op.probe) /\ op.faults \in 0..MaxFaults /\ op.faults <= faults
      /\ result = None /\ faults \in 0..MaxFaults
      /\ TypeOK /\ OpInv /\ PlaceInv /\ ModeInv
  BY <1>1, Observes
<1>3. PICK o : o = [op EXCEPT !.blind = TRUE]
  OBVIOUS
<1>4. SameRequest(o) /\ o.created = op.created /\ o.faults = op.faults /\ o.blind
  <2>1. /\ o \in OpOf(op.probe) /\ o.probe = op.probe
        /\ o.kind = op.kind /\ o.id = op.id /\ o.symbol = op.symbol /\ o.step = op.step
        /\ o.attempt = op.attempt /\ o.created = op.created /\ o.faults = op.faults /\ o.blind
    BY <1>2, <1>3 DEF OpOf
  <2>2. QED
    BY <1>2, <2>1, AdapterBounds DEF SameRequest
<1>5. OnApiError(o) /\ faults' = faults /\ breaker' = breaker
  BY <1>3 DEF Refused
<1>6. BookKeeps /\ verified' = verified
  BY <1>1, <1>2, <1>5, ExchangeKeeps DEF OnApiError
<1>7. Carried(o)'
  BY <1>1, <1>2, <1>4, <1>5, <1>6, ObservedKnows
<1>8. Known'
  BY <1>2, <1>4, <1>5, <1>7, ApiErrorKnows DEF MayRaise
<1>9. UNCHANGED <<verified, cache, rates>>
  BY <1>5 DEF OnApiError
<1>10. QED
  BY <1>1, <1>2, <1>5, <1>8, <1>9, FailedRequest

(* An error code: a second look at an order this operation created finds it. *)
LEMMA RejectedStep == ASSUME IInv, Rejected PROVE IInv'
<1>1. op # None /\ UNCHANGED exchange /\ ~Accepts(op)
  BY DEF Rejected
<1>2. /\ op \in OpOf(op.probe) /\ op.faults \in Nat /\ op.faults <= faults
      /\ result = None /\ faults \in 0..MaxFaults
      /\ TypeOK /\ OpInv /\ PlaceInv /\ ModeInv
  BY <1>1, Observes
<1>3. PICK o : o = op
  OBVIOUS
<1>4. SameRequest(o) /\ o.created = op.created /\ o.faults = op.faults
  BY <1>2, <1>3 DEF SameRequest
<1>5. /\ OnApiError(o) /\ faults' = faults
      /\ \/ breaker' = on_success(before_call(breaker))
         \/ breaker' = on_failure(before_call(breaker))
  BY <1>3 DEF Rejected
<1>6. BookKeeps /\ verified' = verified
  BY <1>1, <1>2, <1>5, ExchangeKeeps DEF OnApiError
<1>7. Carried(o)'
  BY <1>1, <1>2, <1>4, <1>5, <1>6, ObservedKnows
<1>8. o.step = "requery" => MayRaise(o)
  BY <1>1, <1>2, <1>3 DEF MayRaise, PlaceInv, PlaceFacts, Accepts, Finds
<1>9. Known'
  BY <1>2, <1>5, <1>7, <1>8, ApiErrorKnows
<1>10. UNCHANGED <<verified, cache, rates>>
  BY <1>5 DEF OnApiError
<1>11. QED
  BY <1>1, <1>2, <1>5, <1>9, <1>10, FailedRequest

(* What a fault adds to the observations.                                     *)
LEMMA FaultObserved ==
    ASSUME IInv, op # None, Fault, NEW blind \in BOOLEAN, NEW done \in BOOLEAN,
           NEW o, o = WithFault(blind, done)
    PROVE  /\ SameRequest(o) /\ o.faults = op.faults + 1 /\ o.faults <= faults'
           /\ o.blind = (op.blind \/ blind)
           /\ o.created = (op.created \/ (done /\ op.step = "post"))
           /\ o.faults \in Nat /\ o.faults >= 1 /\ faults' \in 0..MaxFaults
<1>1. /\ op \in OpOf(op.probe) /\ op.faults \in Nat /\ op.faults <= faults
      /\ op.created \in BOOLEAN /\ op.blind \in BOOLEAN /\ faults \in Nat
  BY Observes
<1>2. faults' = faults + 1 /\ faults < MaxFaults
  BY DEF Fault
<1>3. op.faults + 1 \in 0..MaxFaults /\ faults' \in 0..MaxFaults
  BY <1>1, <1>2, AdapterBounds
<1>4. PICK f : f = op.faults + 1
  OBVIOUS
<1>5. PICK b \in BOOLEAN : b = (op.blind \/ blind)
  OBVIOUS
<1>6. PICK c \in BOOLEAN : c = (op.created \/ (done /\ op.step = "post"))
  OBVIOUS
<1>7. o = [op EXCEPT !.faults = f, !.blind = b, !.created = c]
  BY <1>4, <1>5, <1>6 DEF WithFault
<1>8. /\ o \in OpOf(op.probe) /\ o.probe = op.probe
      /\ o.kind = op.kind /\ o.id = op.id /\ o.symbol = op.symbol /\ o.step = op.step
      /\ o.attempt = op.attempt /\ o.created = c /\ o.faults = f /\ o.blind = b
  BY <1>1, <1>3, <1>4, <1>7 DEF OpOf
<1>9. QED
  BY <1>1, <1>2, <1>3, <1>4, <1>5, <1>6, <1>8 DEF SameRequest

(* A failed request that is not sent again: the operation goes on from o.     *)
LEMMA FailureGoesOn ==
    ASSUME IInv, op # None, UNCHANGED exchange \/ (Accepts(op) /\ Effect(op)),
           \/ breaker' = on_success(before_call(breaker))
           \/ breaker' = on_failure(before_call(breaker)),
           NEW o, SameRequest(o), o.faults = op.faults + 1, o.faults <= faults', o.faults \in Nat,
           faults' \in 0..MaxFaults,
           o.created /\ ~op.created => op.step = "post" /\ Accepts(op) /\ Effect(op),
           MayRaise(o), OnApiError(o) \/ OnHttpError(o) \/ OnOtherError(o)
    PROVE  IInv'
<1>1. result = None /\ TypeOK /\ OpInv /\ PlaceInv /\ ModeInv /\ op.faults \in Nat
  BY Observes
<1>2. UNCHANGED <<verified, cache, rates>>
  BY DEF OnApiError, OnHttpError, OnOtherError
<1>3. BookKeeps
  BY <1>1, ExchangeKeeps
<1>4. o.created /\ ~op.created => /\ op.step = "post"
                                 /\ book'[op.id] # None /\ book'[op.id].symbol = op.symbol
                                 /\ (o.faults >= 1 \/ o.blind)
  BY <1>1, EffectKeeps
<1>5. Carried(o)'
  BY <1>1, <1>2, <1>3, <1>4, ObservedKnows
<1>6. Known'
  BY <1>1, <1>5, ApiErrorKnows, OtherErrorKnows
<1>7. QED
  BY <1>2, <1>6, FailedRequest

(* An order created before the fault has cost one fault already, or an answer *)
(* that could not be read.                                                   *)
LEMMA SecondFault ==
    ASSUME IInv, op # None, NEW o, SameRequest(o), o.faults = op.faults + 1, o.created => op.created
    PROVE  MayRaise(o)
<1>1. PlaceFacts(op) /\ op.faults \in Nat
  BY Observes DEF PlaceInv
<1>2. QED
  BY <1>1 DEF MayRaise, PlaceFacts, SameRequest

(* A request turned down is a second fault for an order created before.      *)
LEMMA TurnedDownStep == ASSUME IInv, TurnedDown PROVE IInv'
<1>1. op # None /\ UNCHANGED exchange /\ Fault /\ breaker' = on_failure(before_call(breaker))
  BY DEF TurnedDown, Fails
<1>2. PICK o : o = WithFault(FALSE, FALSE)
  OBVIOUS
<1>3. /\ SameRequest(o) /\ o.faults = op.faults + 1 /\ o.faults <= faults' /\ o.faults \in Nat
      /\ faults' \in 0..MaxFaults /\ (o.created => op.created)
  BY <1>1, <1>2, FaultObserved
<1>4. MayRaise(o)
  BY <1>1, <1>3, SecondFault
<1>5. OnApiError(o) \/ OnHttpError(o) \/ OnOtherError(o)
  BY <1>2 DEF TurnedDown
<1>6. QED
  BY <1>1, <1>3, <1>4, <1>5, FailureGoesOn

(* The requests that find an order answer with it and remember its symbol.    *)
LEMMA FoundTypes ==
    ASSUME TypeOK, NEW o, NEW s \in Symbols, Found(o, s)
    PROVE  cache' \in [Ids -> Symbols \cup {None}]
  BY DEF TypeOK, Found

(* An answer that cannot be read.                                            *)
LEMMA GarbledStep == ASSUME IInv, Garbled PROVE IInv'
<1>1. /\ op # None /\ Accepts(op) /\ Effect(op) /\ Fault
      /\ \/ breaker' = on_success(before_call(breaker))
         \/ breaker' = on_failure(before_call(breaker))
  BY DEF Garbled
<1>2. PICK o : o = WithFault(TRUE, TRUE)
  OBVIOUS
<1>3. /\ SameRequest(o) /\ o.faults = op.faults + 1 /\ o.faults <= faults' /\ o.faults \in Nat
      /\ faults' \in 0..MaxFaults /\ o.blind /\ (o.created => op.created \/ op.step = "post")
  BY <1>1, <1>2, FaultObserved
<1>4. MayRaise(o)
  BY <1>3 DEF MayRaise
<1>5. CASE OnApiError(o) \/ OnOtherError(o)
  BY <1>1, <1>3, <1>4, <1>5, FailureGoesOn
<1>6. CASE OnUnparsed(o)
  <2>1. Known'
    BY <1>4, <1>6, RaisesEnd DEF OnUnparsed
  <2>2. cache' \in [Ids -> Symbols \cup {None}]
    <3>1. /\ TypeOK /\ OpInv /\ op.symbol \in Symbols
          /\ o.symbol = op.symbol /\ o.id = op.id /\ o.step = op.step /\ o.probe = op.probe
          /\ op.step \in {"status", "restatus"} => op.id \in Ids
      BY <1>1, <1>3, Observes DEF SameRequest, OpInv, OpFacts, Fits
    <3>2. CASE o.step \in {"query", "requery"} /\ Found(o, o.symbol)
      BY <3>1, <3>2, FoundTypes
    <3>3. CASE o.step \in {"status", "restatus"} /\ Found(o, Head(o.probe))
      <4>1. book[op.id] \in Order /\ book[op.id].symbol = Head(o.probe)
        BY <1>1, <3>1, <3>3 DEF Accepts, Finds, TypeOK
      <4>2. Head(o.probe) \in Symbols
        BY <4>1 DEF Order
      <4>3. QED
        BY <3>1, <3>3, <4>2, FoundTypes
    <3>4. CASE FoundOpen(o.symbol)
      BY <3>1, <3>4 DEF FoundOpen, TypeOK
    <3>5. QED
      BY <1>6, <3>2, <3>3, <3>4 DEF OnUnparsed
  <2>3. QED
    BY <1>1, <1>3, <1>6, <2>1, <2>2, FailedRequest DEF OnUnparsed
<1>7. QED
  BY <1>2, <1>5, <1>6 DEF Garbled

(* A lost request or answer: the attempt before the last one has cost a fault.*)
LEMMA LostStep == ASSUME IInv, Lost PROVE IInv'
<1>1. op # None /\ Fault /\ breaker' = on_failure(before_call(breaker))
  BY DEF Lost, Fails
<1>2. PICK done \in {FALSE, Accepts(op)} :
         /\ IF done THEN Effect(op) ELSE UNCHANGED exchange
         /\ LET o == WithFault(FALSE, done) IN
            IF GivesUp(op.attempt, MaxAttempts, TRUE) THEN OnHttpError(o) \/ OnOtherError(o)
            ELSE /\ op' = [o EXCEPT !.attempt = @ + 1]
                 /\ UNCHANGED <<result, verified, cache, rates>>
  BY DEF Lost
<1>3. PICK d \in BOOLEAN : /\ d => Accepts(op) /\ Effect(op)
                           /\ ~d => UNCHANGED exchange
                           /\ WithFault(FALSE, d) = WithFault(FALSE, done)
  BY <1>2 DEF WithFault
<1>4. PICK o : o = WithFault(FALSE, d)
  OBVIOUS
<1>5. /\ SameRequest(o) /\ o.faults = op.faults + 1 /\ o.faults <= faults' /\ o.faults \in Nat
      /\ faults' \in 0..MaxFaults
      /\ o.created /\ ~op.created => op.step = "post" /\ Accepts(op) /\ Effect(op)
  BY <1>1, <1>3, <1>4, FaultObserved
<1>6. UNCHANGED exchange \/ (Accepts(op) /\ Effect(op))
  BY <1>3
<1>7. /\ result = None /\ TypeOK /\ OpInv /\ PlaceInv /\ ModeInv
      /\ op.faults \in Nat /\ op.attempt \in 1..MaxAttempts /\ op \in OpOf(op.probe)
  BY <1>1, Observes DEF OpOf
<1>8. CASE GivesUp(op.attempt, MaxAttempts, TRUE)
  <2>1. OnHttpError(o) \/ OnOtherError(o)
    BY <1>2, <1>3, <1>4, <1>8
  <2>2. op.attempt = MaxAttempts
    BY <1>8 DEF GivesUp
  <2>3. MayRaise(o)
    <3>1. CASE o.created /\ ~op.created /\ MaxAttempts >= 2 /\ o.kind = "place"
      BY <1>1, <1>5, <1>7, <2>2, <3>1 DEF MayRaise, PlaceInv, PlaceFacts, SameRequest
    <3>2. CASE o.created => op.created
      BY <1>1, <1>5, <3>2, SecondFault
    <3>3. QED
      BY <3>1, <3>2 DEF MayRaise
  <2>4. QED
    BY <1>1, <1>5, <1>6, <2>1, <2>3, FailureGoesOn
<1>9. CASE ~GivesUp(op.attempt, MaxAttempts, TRUE)
  <2>1. op' = [o EXCEPT !.attempt = @ + 1] /\ UNCHANGED <<result, verified, cache, rates>>
    BY <1>2, <1>3, <1>4, <1>9
  <2>2. BookKeeps
    BY <1>1, <1>6, <1>7, ExchangeKeeps
  <2>3. o.created /\ ~op.created => /\ op.step = "post"
                                   /\ book'[op.id] # None /\ book'[op.id].symbol = op.symbol
                                   /\ (o.faults >= 1 \/ o.blind)
    BY <1>1, <1>5, <1>7, EffectKeeps
  <2>4. Carried(o)'
    BY <1>1, <1>5, <1>7, <2>1, <2>2, <2>3, ObservedKnows
  <2>5. op.attempt # MaxAttempts /\ o.attempt = op.attempt
    BY <1>5, <1>9 DEF GivesUp, SameRequest
  <2>6. /\ op' \in OpOf(op'.probe) /\ op'.attempt = op.attempt + 1
        /\ op'.kind = o.kind /\ op'.id = o.id /\ op'.symbol = o.symbol /\ op'.step = o.step
        /\ op'.created = o.created /\ op'.faults = o.faults /\ op'.blind = o.blind
    <3>1. o \in OpOf(o.probe) /\ o.attempt + 1 \in 1..MaxAttempts
      BY <1>5, <1>7, <2>5, AdapterBounds DEF SameRequest
    <3>2. PICK n \in 1..MaxAttempts : n = o.attempt + 1
      BY <3>1
    <3>3. op' = [o EXCEPT !.attempt = n]
      BY <2>1, <3>2
    <3>4. QED
      BY <2>5, <3>1, <3>2, <3>3 DEF OpOf
  <2>7. PlaceFacts(op)
    BY <1>1, <1>7 DEF PlaceInv
  <2>8. OpInv' /\ PlaceInv'
    <3>1. OpInv'
      BY <1>7, <2>1, <2>4, <2>6 DEF Carried, OpFacts, OpInv
    <3>2. PlaceInv'
      BY <1>5, <1>7, <2>4, <2>5, <2>6, <2>7 DEF Carried, PlaceFacts, PlaceInv, SameRequest
    <3>3. QED
      BY <3>1, <3>2
  <2>9. Known'
    BY <1>7, <2>1, <2>8 DEF Known, ResultInv, AnswersTrue, LostAnswerRecovered
  <2>10. QED
    BY <1>1, <1>5, <1>6, <2>1, <2>9, FailedRequest
<1>10. QED
  BY <1>8, <1>9

(* A request that is answered: what the operation learns is so.              *)
LEMMA AnsweredStep == ASSUME IInv, Answered PROVE IInv'
<1>1. op # None /\ Accepts(op) /\ Effect(op) /\ faults' = faults
      /\ breaker' = on_success(before_call(breaker))
  BY DEF Answered
<1>2. /\ op \in OpOf(op.probe) /\ op.faults \in Nat /\ op.faults <= faults
      /\ op.created \in BOOLEAN /\ result = None /\ faults \in 0..MaxFaults
      /\ op.step \in Steps /\ op.symbol \in Symbols
      /\ TypeOK /\ OpInv /\ PlaceInv /\ ModeInv
  BY <1>1, Observes
<1>3. /\ book' \in [Ids -> Order \cup {None}]
      /\ account' \in [oneWay : BOOLEAN, isolated : SUBSET Symbols]
      /\ verified.oneWay => account'.oneWay
      /\ verified.isolated \subseteq account'.isolated
      /\ op.step = "post" => book'[op.id] # None
      /\ op.step = "dual" => account'.oneWay
      /\ op.step = "margin" => op.symbol \in account'.isolated
      /\ op.step = "delete" => book'[op.id].status = "CANCELLED"
      /\ op.step \notin {"dual", "margin", "post", "delete"} => UNCHANGED exchange
  BY <1>1, <1>2, EffectKeeps
<1>4. breaker' \in Breaker /\ breaker'.failures <= FailureThreshold + 1
  BY <1>1, <1>2, BreakerAfter
<1>5. PICK o : o = [op EXCEPT !.created = op.created \/ op.step = "post"]
  OBVIOUS
<1>6. /\ SameRequest(o) /\ o.faults = op.faults
      /\ op.step # "post" => o.created = op.created
  <2>1. PICK c \in BOOLEAN : c = (op.created \/ op.step = "post")
    OBVIOUS
  <2>2. o = [op EXCEPT !.created = c]
    BY <1>5, <2>1
  <2>3. /\ o \in OpOf(op.probe) /\ o.probe = op.probe
        /\ o.kind = op.kind /\ o.id = op.id /\ o.symbol = op.symbol /\ o.step = op.step
        /\ o.attempt = op.attempt /\ o.created = c /\ o.faults = op.faults /\ o.blind = op.blind
    BY <1>2, <2>2 DEF OpOf
  <2>4. QED
    BY <1>2, <2>1, <2>3 DEF SameRequest
<1>7. OnAnswer(o)
  BY <1>5 DEF Answered
<1>8. OpFacts(o)' /\ Fits(o.kind, o.step)
  <2>1. OpFacts(o)'
    BY <1>1, <1>2, <1>6, Observed
  <2>2. QED
    BY <2>1 DEF OpFacts
<1>9. /\ o.step = op.step /\ o.kind = op.kind /\ o.symbol = op.symbol /\ o.id = op.id
      /\ o.probe = op.probe
      /\ verified \in [oneWay : BOOLEAN, isolated : SUBSET Symbols]
      /\ cache \in [Ids -> Symbols \cup {None}] /\ rates \in BOOLEAN
  BY <1>2, <1>6 DEF SameRequest, TypeOK
<1> DEFINE Goal ==
      /\ Known'
      /\ verified' \in [oneWay : BOOLEAN, isolated : SUBSET Symbols]
      /\ verified'.oneWay => account'.oneWay
      /\ verified'.isolated \subseteq account'.isolated
      /\ cache' \in [Ids -> Symbols \cup {None}] /\ rates' \in BOOLEAN
<1>10. SUFFICES Goal
  <2>1. ASSUME Goal PROVE Rest' /\ ModeInv'
    BY <1>1, <1>2, <1>3, <1>4, <2>1 DEF Rest, ModeInv
  <2>2. QED
    BY <2>1, Assembled
<1>11. CASE op.step = "dual"
  <2>1. /\ verified' = [verified EXCEPT !.oneWay = TRUE]
        /\ Goto(o, FirstStep(o.symbol, verified')) /\ UNCHANGED <<cache, rates>>
    BY <1>7, <1>9, <1>11 DEF OnAnswer
  <2>2. /\ verified'.oneWay /\ verified'.isolated = verified.isolated
        /\ verified' \in [oneWay : BOOLEAN, isolated : SUBSET Symbols]
    BY <1>9, <2>1
  <2>3. PICK step : step = FirstStep(o.symbol, verified')
    OBVIOUS
  <2>4. /\ step \in {"margin", "query"}
        /\ step = "query" => o.symbol \in verified'.isolated
    BY <2>2, <2>3 DEF FirstStep
  <2>5. o.kind = "place" /\ ~o.created
    BY <1>1, <1>2, <1>6, <1>8, <1>9, <1>11 DEF Fits, PlaceInv, PlaceFacts
  <2>6. Known'
    <3>1. Goto(o, step) /\ step \in Steps /\ Fits(o.kind, step)
      BY <2>1, <2>3, <2>4, <2>5 DEF Fits, Steps
    <3>2. QED
      BY <1>2, <1>8, <2>2, <2>4, <2>5, <3>1, GotoKnows
  <2>7. QED
    BY <1>3, <1>9, <1>11, <2>1, <2>2, <2>6
<1>12. CASE op.step = "margin" /\ op.kind = "place"
  <2>1. /\ verified' = [verified EXCEPT !.isolated = NowIsolated(o.symbol)]
        /\ Goto(o, "query") /\ UNCHANGED <<cache, rates>>
    BY <1>7, <1>9, <1>12 DEF OnAnswer
  <2>2. /\ verified'.oneWay = verified.oneWay
        /\ verified'.isolated = verified.isolated \cup {op.symbol}
        /\ verified' \in [oneWay : BOOLEAN, isolated : SUBSET Symbols]
    BY <1>2, <1>9, <2>1 DEF NowIsolated
  <2>3. verified.oneWay /\ ~o.created
    BY <1>1, <1>2, <1>6, <1>12 DEF PlaceInv, PlaceFacts
  <2>4. Known'
    BY <1>2, <1>8, <1>9, <1>12, <2>1, <2>2, <2>3, GotoKnows DEF Fits, Steps
  <2>5. QED
    BY <1>3, <1>9, <1>12, <2>1, <2>2, <2>4
<1>13. CASE op.step \in {"margin", "leverage", "read"} /\ op.kind # "place"
  <2>1. Answer(o, "done") /\ UNCHANGED <<cache, verified, rates>>
    BY <1>7, <1>9, <1>13 DEF OnAnswer
  <2>2. QED
    BY <1>3, <1>9, <2>1, Ends
<1>14. CASE op.step = "orders"
  <2>1. Answer(o, "done") /\ FoundOpen(o.symbol) /\ UNCHANGED <<verified, rates>>
    BY <1>7, <1>9, <1>14 DEF OnAnswer
  <2>2. cache' \in [Ids -> Symbols \cup {None}]
    BY <1>2, <1>9, <2>1 DEF FoundOpen
  <2>3. QED
    BY <1>3, <1>9, <2>1, <2>2, Ends
<1>15. CASE op.step = "fees"
  <2>1. Answer(o, "rates") /\ rates' = TRUE /\ UNCHANGED <<cache, verified>>
    BY <1>7, <1>9, <1>15 DEF OnAnswer
  <2>2. QED
    BY <1>3, <1>9, <2>1, Ends
<1>16. CASE op.step \in {"query", "post", "requery"}
  <2>1. /\ \E order \in _parse_order(book'[op.id]) : AnswerOrder(o, order)
        /\ Found(o, o.symbol) /\ UNCHANGED <<verified, rates>>
    BY <1>7, <1>9, <1>16 DEF OnAnswer
  <2>2. op.id \in Ids
    BY <1>8, <1>9, <1>16 DEF OpFacts, Fits
  <2>3. book'[op.id] # None
    BY <1>1, <1>3, <1>16 DEF Accepts, Finds, exchange
  <2>4. book'[op.id] \in Order
    BY <1>3, <2>2, <2>3
  <2>5. Known'
    BY <1>9, <2>1, <2>4, OrderAnswerKnows
  <2>6. QED
    BY <1>2, <1>3, <1>9, <2>1, <2>5, FoundTypes
<1>17. CASE op.step = "delete"
  <2>1. Answer(o, "True") /\ UNCHANGED <<cache, verified, rates>>
    BY <1>7, <1>9, <1>17 DEF OnAnswer
  <2>2. QED
    BY <1>3, <1>9, <1>17, <2>1, CancelAnswerKnows
<1>18. CASE op.step \in {"status", "restatus"}
  <2>1. /\ \E order \in _parse_order(book[o.id]) : OnStatus(o, order)
        /\ Found(o, Head(o.probe)) /\ UNCHANGED <<verified, rates>>
    BY <1>7, <1>9, <1>18 DEF OnAnswer
  <2>2. op.id \in Ids
    BY <1>8, <1>9, <1>18 DEF OpFacts, Fits
  <2>3. book[op.id] # None /\ book[op.id].symbol = Head(op.probe) /\ book' = book
    BY <1>1, <1>3, <1>18 DEF Accepts, Finds, exchange
  <2>4. book[op.id] \in Order /\ Head(op.probe) \in Symbols
    BY <1>2, <2>2, <2>3 DEF Order, TypeOK
  <2>5. Known'
    BY <1>2, <1>8, <1>9, <1>18, <2>1, <2>3, <2>4, StatusKnows
  <2>6. QED
    BY <1>2, <1>3, <1>9, <2>1, <2>4, <2>5, FoundTypes
<1>19. QED
  BY <1>2, <1>8, <1>9, <1>11, <1>12, <1>13, <1>14, <1>15, <1>16, <1>17, <1>18 DEF Steps, Fits
-----------------------------------------------------------------------------
(* An operation starts with nothing created and nothing answered.             *)
LEMMA StartKnows ==
    ASSUME IInv, NEW kind \in Kinds, NEW i \in Ids \cup {None}, NEW s \in Symbols, NEW step \in Steps,
           Start(kind, i, s, step), Fits(kind, step),
           kind \in {"place", "cancel", "status"} => i \in Ids,
           kind = "place" => /\ step \in {"dual", "margin", "query"}
                             /\ step # "dual" => verified.oneWay
                             /\ step = "query" => s \in verified.isolated
    PROVE  IInv'
<1>1. PICK p : p = IF kind \in {"cancel", "status"} THEN Candidates(i) ELSE <<>>
  OBVIOUS
<1>2. /\ op' = [kind |-> kind, id |-> i, symbol |-> s, step |-> step, attempt |-> 1,
                probe |-> p, created |-> FALSE, faults |-> 0, blind |-> FALSE]
      /\ result' = None /\ UNCHANGED <<book, account, verified, cache, rates, breaker, faults>>
  BY <1>1 DEF Start, exchange
<1>3. /\ op' \in OpOf(op'.probe)
      /\ op'.kind = kind /\ op'.id = i /\ op'.symbol = s /\ op'.step = step
      /\ op'.attempt = 1 /\ op'.created = FALSE /\ op'.faults = 0
  <2>1. 1 \in 1..MaxAttempts /\ 0 \in 0..MaxFaults
    BY AdapterBounds
  <2>2. QED
    BY <1>2, <2>1 DEF OpOf
<1>4. faults \in 0..MaxFaults /\ TypeOK /\ ModeInv
  BY DEF IInv, TypeOK
<1>5. OpInv'
  BY <1>2, <1>3, <1>4, AdapterBounds DEF OpInv, OpFacts
<1>6. PlaceInv'
  BY <1>2, <1>3 DEF PlaceInv, PlaceFacts
<1>7. Known'
  BY <1>2, <1>5, <1>6 DEF Known, ResultInv, AnswersTrue, LostAnswerRecovered
<1>8. Rest' /\ ModeInv'
  BY <1>2, <1>4 DEF Rest, ModeInv, TypeOK
<1>9. QED
  BY <1>7, <1>8, Assembled

(* The first symbol of the list is one of the symbols.                        *)
LEMMA FirstSymbol == SymbolOrder[1] \in Symbols
  BY SymbolsGiven DEF Symbols

(* An answer without a request says nothing about an order.                  *)
LEMMA AtOnceKnows ==
    ASSUME IInv, NEW kind, NEW a \in {"raises", "rates"}, kind # "place", AtOnce(kind, a)
    PROVE  IInv'
<1>1. /\ op' = None /\ result'.kind = kind /\ result'.answer = a /\ ~result'.executed
      /\ UNCHANGED <<book, account, verified, cache, rates, breaker, faults>>
  BY DEF AtOnce, exchange
<1>2. Known'
  BY <1>1 DEF Known, OpInv, PlaceInv, ResultInv, AnswersTrue, LostAnswerRecovered, Answers,
              Statuses, Executed
<1>3. Rest' /\ ModeInv'
  BY <1>1 DEF IInv, TypeOK, Rest, ModeInv
<1>4. QED
  BY <1>2, <1>3, Assembled

(* Every operation starts with the request its kind begins with.             *)
LEMMA BeginStep == ASSUME IInv, Begin PROVE IInv'
<1> USE FirstSymbol DEF Kinds, Steps, Fits
<1>1. CASE place_order
  <2>1. PICK i \in Ids, s \in Symbols : Start("place", i, s, FirstStep(s, verified))
    BY <1>1 DEF place_order
  <2>2. /\ FirstStep(s, verified) \in {"dual", "margin", "query"}
        /\ FirstStep(s, verified) # "dual" => verified.oneWay
        /\ FirstStep(s, verified) = "query" => s \in verified.isolated
    BY DEF FirstStep
  <2>3. QED
    BY <2>1, <2>2, StartKnows
<1>2. CASE cancel_order
  BY <1>2, StartKnows DEF cancel_order
<1>3. CASE get_order_status
  BY <1>3, StartKnows DEF get_order_status
<1>4. CASE get_open_orders
  BY <1>4, StartKnows DEF get_open_orders
<1>5. CASE get_fee_rates
  BY <1>5, StartKnows, AtOnceKnows DEF get_fee_rates
<1>6. CASE Read
  BY <1>6, StartKnows DEF Read
<1>7. CASE set_leverage
  BY <1>7, StartKnows DEF set_leverage
<1>8. CASE set_margin_type
  BY <1>8, StartKnows DEF set_margin_type
<1>9. CASE InvalidSetting
  BY <1>9, AtOnceKnows DEF InvalidSetting
<1>10. QED
  BY <1>1, <1>2, <1>3, <1>4, <1>5, <1>6, <1>7, <1>8, <1>9 DEF Begin

(* An order that executes or ends was live: no answer has called it ended, and *)
(* what has executed of it stays executed.                                    *)
LEMMA OrderMovesStep == ASSUME IInv, OrderMoves PROVE IInv'
<1>1. PICK i \in Ids, s \in Statuses :
         /\ book[i] # None /\ book[i].status \in Live
         /\ book' = [book EXCEPT ![i].status = s, ![i].executed = @ \/ s \in Executed]
  BY DEF OrderMoves
<1>2. UNCHANGED <<account, verified, cache, rates, breaker, op, result, faults>>
  BY DEF OrderMoves
<1>3. TypeOK /\ OpInv /\ PlaceInv /\ ModeInv /\ ResultInv
  BY DEF IInv
<1>4. PICK r : r = [book[i] EXCEPT !.status = s, !.executed = @ \/ s \in Executed]
  OBVIOUS
<1>5. book \in [Ids -> Order \cup {None}] /\ book[i] \in Order
  BY <1>1, <1>3 DEF TypeOK
<1>6. /\ r \in Order /\ r # None /\ r.symbol = book[i].symbol
      /\ book[i].executed => r.executed
  BY <1>4, <1>5, NoneIsNoOrder DEF Order, Statuses
<1>7. book' = [book EXCEPT ![i] = r]
  BY <1>1, <1>4
<1>8. book' \in [Ids -> Order \cup {None}] /\ BookKeeps
  BY <1>1, <1>5, <1>6, <1>7 DEF BookKeeps
<1>9. OpInv'
  BY <1>2, <1>3 DEF OpInv, OpFacts
<1>10. PlaceInv'
  <2>1. op # None /\ op.kind = "place" => op.id \in Ids
    BY <1>3 DEF OpInv, OpFacts
  <2>2. QED
    BY <1>2, <1>3, <1>8, <2>1 DEF PlaceInv, PlaceFacts, BookKeeps
<1>11. ResultInv'
  <2>1. \A j : book[j] # None => book'[j] # None \/ j \notin Ids
    BY <1>8 DEF BookKeeps
  <2>2. \A j : j # i => book'[j] = book[j]
    BY <1>5, <1>7
  <2>3. book'[i] = r
    BY <1>5, <1>7
  <2>4. AnswersTrue'
    BY <1>1, <1>2, <1>3, <1>6, <2>2, <2>3 DEF ResultInv, AnswersTrue, Live
  <2>5. QED
    BY <1>2, <1>3, <2>4 DEF ResultInv, LostAnswerRecovered
<1>12. Known'
  BY <1>2, <1>3, <1>9, <1>10, <1>11 DEF Known, TypeOK
<1>13. Rest' /\ ModeInv'
  BY <1>2, <1>3, <1>8 DEF Rest, TypeOK, ModeInv
<1>14. QED
  BY <1>12, <1>13, Assembled

(* The time of the breaker passes.                                           *)
LEMMA ResetElapsesStep == ASSUME IInv, ResetElapses PROVE IInv'
  BY DEF IInv, ResetElapses, exchange, TypeOK, Breaker, OpInv, OpFacts, PlaceInv, PlaceFacts, ModeInv,
         ResultInv, AnswersTrue, LostAnswerRecovered

(* Old fee rates, and stuttering, change nothing the invariant speaks of.    *)
LEMMA QuietStep == ASSUME IInv, RatesExpire \/ UNCHANGED vars PROVE IInv'
  BY ZenonT(60) DEF IInv, RatesExpire, vars, exchange, TypeOK, OpInv, OpFacts, PlaceInv, PlaceFacts, ModeInv,
         ResultInv, AnswersTrue, LostAnswerRecovered

(* Every step preserves the inductive invariant.                             *)
LEMMA InvariantNext == IInv /\ [Next]_vars => IInv'
  BY BeginStep, RefusedStep, AnsweredStep, RejectedStep, TurnedDownStep, LostStep, GarbledStep,
     OrderMovesStep, ResetElapsesStep, QuietStep DEF Next, Step

(* It holds initially.                                                       *)
LEMMA InvariantInit == Init => IInv
<1> SUFFICES ASSUME Init PROVE IInv
  OBVIOUS
<1>1. TypeOK
  <2>1. breaker \in Breaker /\ breaker.failures <= FailureThreshold + 1
    BY ThresholdPositive DEF Init, Closed, Breaker, BreakerStates
  <2>2. /\ account \in [oneWay : BOOLEAN, isolated : SUBSET Symbols]
        /\ verified \in [oneWay : BOOLEAN, isolated : SUBSET Symbols]
    BY DEF Init
  <2>3. QED
    <3>1. book \in [Ids -> Order \cup {None}] /\ cache \in [Ids -> Symbols \cup {None}]
      BY DEF Init
    <3>2. faults \in 0..MaxFaults /\ rates \in BOOLEAN /\ op = None /\ result = None
      <4>1. faults = 0 /\ rates = FALSE /\ op = None /\ result = None
        BY DEF Init
      <4>2. 0 \in 0..MaxFaults
        BY AdapterBounds
      <4>3. rates \in BOOLEAN
        BY <4>1
      <4>4. QED
        BY <4>1, <4>2, <4>3
    <3>3. QED
      BY <2>1, <2>2, <3>1, <3>2 DEF TypeOK
<1>2. QED
  BY <1>1 DEF Init, IInv, OpInv, PlaceInv, ModeInv, ResultInv, AnswersTrue, LostAnswerRecovered
-----------------------------------------------------------------------------
(* Every state of an execution satisfies the inductive invariant.             *)
THEOREM Invariant == Spec => []IInv
<1>1. Init => IInv
  BY InvariantInit
<1>2. IInv /\ [Next]_vars => IInv'
  BY InvariantNext
<1>3. QED
  BY <1>1, <1>2, PTL DEF Spec

(* Every variable of the adapter, its breaker and the exchange keeps its type,*)
(* and no request is sent more than max_attempts times (core/retry.py:141-172).*)
THEOREM TypeCorrect == Spec => []TypeOK
<1>1. IInv => TypeOK
  BY DEF IInv
<1>2. QED
  BY <1>1, Invariant, PTL

(* An order that is reported exists, one reported FILLED or CANCELLED, or     *)
(* cancelled with True, ended so, and one executed as far as reported, for    *)
(* any number of ids, symbols, attempts and faults; FAILED and PENDING say    *)
(* no more than that the order exists (bingx_adapter.py:277-386, 590-623).    *)
THEOREM AnswersAreTrue == Spec => []AnswersTrue
<1>1. IInv => AnswersTrue
  BY DEF IInv, ResultInv
<1>2. QED
  BY <1>1, Invariant, PTL

(* A retry loop of two attempts or more (_RETRY_CONFIG has four) makes one    *)
(* lost answer good: place_order raises for an order it has created only      *)
(* after a second fault, or when the breaker refuses the second look          *)
(* (bingx_adapter.py:307-326, 498-520).                                       *)
THEOREM OneLostAnswerRecovered ==
    ASSUME MaxAttempts >= 2 PROVE Spec => []LostAnswerRecovered
<1>1. IInv => LostAnswerRecovered
  BY DEF IInv, ResultInv
<1>2. QED
  BY <1>1, Invariant, PTL

(* No order is created outside ONE_WAY mode or on a symbol whose margin is    *)
(* not ISOLATED, whatever became of the requests that set them                *)
(* (bingx_adapter.py:463-496).                                                *)
THEOREM CreatedIsolatedOneWay == Spec => IsolatedOneWay
<1> DEFINE Creates ==
        \A i \in Ids : book[i] = None /\ book'[i] # None =>
            account.oneWay /\ book'[i].symbol \in account.isolated
<1>1. IInv /\ [Next]_vars => [Creates]_vars
  <2> SUFFICES ASSUME IInv, Next, NEW i \in Ids, book[i] = None, book'[i] # None
               PROVE  account.oneWay /\ book'[i].symbol \in account.isolated
    OBVIOUS
  <2>1. book \in [Ids -> Order \cup {None}]
    BY DEF IInv, TypeOK
  <2>2. op # None /\ Accepts(op) /\ Effect(op)
    <3>1. book' # book
      OBVIOUS
    <3>2. ~OrderMoves
      BY <2>1 DEF OrderMoves
    <3>3. QED
      BY <3>1, <3>2 DEF Next, Begin, place_order, cancel_order, get_order_status, get_open_orders,
         get_fee_rates, Read, set_leverage, set_margin_type, InvalidSetting, Start, AtOnce, Step,
         Refused, Answered, Rejected, TurnedDown, Lost, Garbled, ResetElapses, RatesExpire, exchange
  <2>3. OpFacts(op) /\ PlaceFacts(op) /\ ModeInv /\ op.step \in Steps
    BY <2>2 DEF IInv, OpInv, PlaceInv, OpFacts, OpOf
  <2>4. op.step = "post"
    BY <2>1, <2>2, <2>3 DEF Effect, Accepts, Finds, exchange
  <2>5. op.kind = "place" /\ account.oneWay /\ op.symbol \in account.isolated
    BY <2>3, <2>4 DEF OpFacts, Fits, PlaceFacts, ModeInv
  <2>6. PICK r \in NewOrders(op.symbol) : book' = [book EXCEPT ![op.id] = r]
    BY <2>2, <2>4 DEF Effect
  <2>7. i = op.id /\ book'[i].symbol = op.symbol
    BY <2>1, <2>6 DEF NewOrders
  <2>8. QED
    BY <2>5, <2>7
<1>2. Spec => [][Creates]_vars
  BY <1>1, Invariant, PTL DEF Spec
<1>3. QED
  BY <1>2 DEF IsolatedOneWay
=============================================================================
