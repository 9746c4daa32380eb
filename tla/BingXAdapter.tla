---------------------------- MODULE BingXAdapter ----------------------------
(***************************************************************************)
(* BingXAdapter (exchange_adapters/bingx_adapter.py): place_order,           *)
(* cancel_order, get_order_status, get_open_orders, get_fee_rates and the    *)
(* other queries and settings as the sequences of signed requests they are,  *)
(* each with its retries behind one circuit breaker, against an exchange     *)
(* that fills and expires orders by itself and a network that loses requests *)
(* and answers.  The caller serialises the operations, as the adapter asks.  *)
(* Quantities, prices, leverage and the signature are left out.              *)
(***************************************************************************)
EXTENDS Naturals, Sequences, CircuitBreaker

CONSTANTS
    None,           \* Python's None
    Ids,            \* client order ids
    SymbolOrder,    \* the allowed symbols in the order they are probed
    MaxAttempts,    \* of _RETRY_CONFIG
    MaxFaults       \* bound: faults of the network and of the API

ASSUME AdapterBounds == MaxAttempts \in Nat \ {0} /\ MaxFaults \in Nat

Symbols == {SymbolOrder[i] : i \in DOMAIN SymbolOrder}

ASSUME SymbolsGiven == SymbolOrder \in Seq(Symbols) /\ SymbolOrder # <<>>

VARIABLES
    book,       \* exchange: the order of each id, or None
    account,    \* exchange: position mode, symbols with isolated margin
    verified,   \* _one_way_verified and _isolated_verified_symbols
    cache,      \* _order_symbol_cache
    rates,      \* _fee_rates_cache holds rates younger than _FEE_RATES_TTL_SECONDS
    breaker,    \* _circuit_breaker
    op,         \* the operation under way, see Operation
    result,     \* observation: what the last operation answered, or None
    faults      \* faults so far

exchange == <<book, account>>
vars == <<exchange, verified, cache, rates, breaker, op, result, faults>>

(* _STATUS_MAP takes NEW to PENDING, and CANCELED and EXPIRED to CANCELLED.  *)
Statuses == {"PENDING", "PARTIALLY_FILLED", "FILLED", "CANCELLED", "FAILED"}

(* The statuses cancel_order takes for an order that can be cancelled.       *)
Live == {"PENDING", "PARTIALLY_FILLED"}
Executed == {"PARTIALLY_FILLED", "FILLED"}

(* executed: whether any of its quantity is; it stays so when the order ends. *)
Order ==
    {order \in [symbol : Symbols, status : Statuses, executed : BOOLEAN] :
        order.status \in Executed => order.executed}

ASSUME NoneIsNoOrder == None \notin Order

Kinds == {"place", "cancel", "status", "orders", "fees", "read", "leverage", "isolate"}
Steps == {"dual", "margin", "query", "post", "requery", "status", "delete", "restatus",
          "orders", "fees", "read", "leverage"}

(* step: the request under way; probe: the symbols get_order_status still    *)
(* has to try.  created, faults and blind are observations: whether this     *)
(* operation's POST created the order, its faults, and whether the breaker   *)
(* refused a request of it or an answer could not be read.                   *)
Operation ==
    [kind : Kinds, id : Ids \cup {None}, symbol : Symbols, step : Steps,
     attempt : 1..MaxAttempts, probe : Seq(Symbols), created : BOOLEAN,
     faults : 0..MaxFaults, blind : BOOLEAN]

Init ==
    /\ book = [i \in Ids |-> None]
    /\ account \in [oneWay : BOOLEAN, isolated : {{}, Symbols}]
    /\ verified = [oneWay |-> FALSE, isolated |-> {}]
    /\ cache = [i \in Ids |-> None]
    /\ rates = FALSE
    /\ breaker = Closed
    /\ op = None /\ result = None /\ faults = 0
-----------------------------------------------------------------------------
(***************************************************************************)
(* The exchange.                                                             *)
(***************************************************************************)
(* The order that a request for symbol s and id i finds.                     *)
Finds(s, i) == IF book[i] = None THEN FALSE ELSE book[i].symbol = s

(* Whether the request is carried out.  A clientOrderID is taken once.       *)
Accepts(o) ==
    CASE o.step \in {"dual", "margin", "orders", "fees", "read", "leverage"} -> TRUE
      [] o.step = "post" -> book[o.id] = None
      [] o.step = "delete" -> Finds(o.symbol, o.id) /\ book[o.id].status \in Live
      [] o.step \in {"query", "requery"} -> Finds(o.symbol, o.id)
      [] o.step \in {"status", "restatus"} -> Finds(Head(o.probe), o.id)

(* An order that has just been created, and may have executed at once.       *)
NewOrders(s) ==
    {order \in Order :
        /\ order.symbol = s /\ order.status \in Live \cup Executed
        /\ order.executed => order.status \in Executed}

(* What carrying it out does to the exchange.  What has executed of an order  *)
(* that is cancelled stays executed.                                         *)
Effect(o) ==
    CASE o.step = "dual" -> account' = [account EXCEPT !.oneWay = TRUE] /\ UNCHANGED book
      [] o.step = "margin" ->
            account' = [account EXCEPT !.isolated = @ \cup {o.symbol}] /\ UNCHANGED book
      [] o.step = "post" ->
            /\ \E order \in NewOrders(o.symbol) : book' = [book EXCEPT ![o.id] = order]
            /\ UNCHANGED account
      [] o.step = "delete" ->
            book' = [book EXCEPT ![o.id].status = "CANCELLED"] /\ UNCHANGED account
      [] OTHER -> UNCHANGED exchange

(* Orders execute, expire and fail by themselves.                            *)
OrderMoves ==
    /\ \E i \in Ids, s \in Statuses \ {"PENDING"} :
           /\ book[i] # None /\ book[i].status \in Live
           /\ book' = [book EXCEPT ![i].status = s, ![i].executed = @ \/ s \in Executed]
    /\ UNCHANGED <<account, verified, cache, rates, breaker, op, result, faults>>
-----------------------------------------------------------------------------
(***************************************************************************)
(* The operations start.                                                     *)
(***************************************************************************)
(* The cached symbol first, then the others.                                 *)
Candidates(i) ==
    IF cache[i] = None THEN SymbolOrder
    ELSE <<cache[i]>> \o SelectSeq(SymbolOrder, LAMBDA s : s # cache[i])

(* _ensure_one_way_mode and _ensure_isolated_margin return early.            *)
FirstStep(s, known) ==
    IF ~known.oneWay THEN "dual" ELSE IF s \notin known.isolated THEN "margin" ELSE "query"

Start(kind, i, s, step) ==
    /\ op = None
    /\ op' = [kind |-> kind, id |-> i, symbol |-> s, step |-> step, attempt |-> 1,
              probe |-> IF kind \in {"cancel", "status"} THEN Candidates(i) ELSE <<>>,
              created |-> FALSE, faults |-> 0, blind |-> FALSE]
    /\ result' = None
    /\ UNCHANGED <<exchange, verified, cache, rates, breaker, faults>>

place_order == \E i \in Ids, s \in Symbols : Start("place", i, s, FirstStep(s, verified))
cancel_order == \E i \in Ids : Start("cancel", i, SymbolOrder[1], "status")
get_order_status == \E i \in Ids : Start("status", i, SymbolOrder[1], "status")
get_open_orders == \E s \in Symbols : Start("orders", None, s, "orders")

(* get_account_state and get_position.                                       *)
Read == Start("read", None, SymbolOrder[1], "read")

(* set_margin_type, called from outside, leaves _isolated_verified_symbols.  *)
set_margin_type == \E s \in Symbols : Start("isolate", None, s, "margin")
set_leverage == Start("leverage", None, SymbolOrder[1], "leverage")

AtOnce(kind, answer) ==
    /\ op = None
    /\ result' = [kind |-> kind, id |-> None, answer |-> answer, executed |-> FALSE,
                  created |-> FALSE, faults |-> 0, blind |-> FALSE]
    /\ UNCHANGED <<exchange, verified, cache, rates, breaker, op, faults>>

(* A leverage outside 1.._MAX_LEVERAGE_BY_ENV, or CROSS margin.              *)
InvalidSetting == \E kind \in {"leverage", "isolate"} : AtOnce(kind, "raises")

get_fee_rates ==
    \/ rates /\ AtOnce("fees", "rates")
    \/ ~rates /\ Start("fees", None, SymbolOrder[1], "fees")

RatesExpire ==
    /\ rates /\ rates' = FALSE
    /\ UNCHANGED <<exchange, verified, cache, breaker, op, result, faults>>
-----------------------------------------------------------------------------
(***************************************************************************)
(* How an operation goes on.  o is op with its observations brought up to    *)
(* date; each request starts with a new retry loop.                          *)
(***************************************************************************)
Goto(o, step) == op' = [o EXCEPT !.step = step, !.attempt = 1] /\ UNCHANGED result

(* executed: quantity_filled is not 0.                                       *)
AnswerExecuted(o, answer, executed) ==
    /\ op' = None
    /\ result' = [kind |-> o.kind, id |-> o.id, answer |-> answer, executed |-> executed,
                  created |-> o.created, faults |-> o.faults, blind |-> o.blind]
Answer(o, answer) == AnswerExecuted(o, answer, FALSE)

(* _parse_order: a status _STATUS_MAP does not know, or none, is FAILED, and  *)
(* no executedQty is 0.                                                      *)
_parse_order(order) == [status : {order.status, "FAILED"}, executed : {order.executed, FALSE}]
AnswerOrder(o, order) == AnswerExecuted(o, order.status, order.executed)

Found(o, s) == cache' = [cache EXCEPT ![o.id] = s]

(* get_open_orders reads the ids under "clientOrderId" only: an order that    *)
(* spells it "clientOrderID" leaves the cache as it is.                      *)
FoundOpen(s) ==
    \E ids \in SUBSET {i \in Ids : Finds(s, i) /\ book[i].status \in Live} :
        cache' = [i \in Ids |-> IF i \in ids THEN s ELSE cache[i]]

\* Fault: an order that is no longer live counts as cancelled.
confirmed_if_ended(status) == IF status \notin Live THEN "True" ELSE "False"

(* What the second look at an order answers to cancel_order.                 *)
Confirmed(status) == IF status = "CANCELLED" THEN "True" ELSE "False"

OnStatus(o, order) ==
    CASE o.kind = "status" -> AnswerOrder(o, order)
      [] o.kind = "cancel" /\ o.step = "status" ->
            IF order.status \in Live THEN Goto([o EXCEPT !.symbol = Head(o.probe)], "delete")
            ELSE Answer(o, "False")
      [] o.kind = "cancel" /\ o.step = "restatus" -> Answer(o, Confirmed(order.status))

\* Fault: one symbol vouches for all.
all_isolated(s) == Symbols

(* _isolated_verified_symbols after set_margin_type(s).                      *)
NowIsolated(s) == verified.isolated \cup {s}

(* The request has succeeded.                                                *)
OnAnswer(o) ==
    CASE o.step = "dual" ->
            /\ verified' = [verified EXCEPT !.oneWay = TRUE]
            /\ Goto(o, FirstStep(o.symbol, verified')) /\ UNCHANGED <<cache, rates>>
      [] o.step = "margin" /\ o.kind = "place" ->
            /\ verified' = [verified EXCEPT !.isolated = NowIsolated(o.symbol)]
            /\ Goto(o, "query") /\ UNCHANGED <<cache, rates>>
      [] o.step \in {"margin", "leverage", "read"} /\ o.kind # "place" ->
            /\ Answer(o, "done") /\ UNCHANGED <<cache, verified, rates>>
      [] o.step = "orders" ->
            /\ Answer(o, "done") /\ FoundOpen(o.symbol) /\ UNCHANGED <<verified, rates>>
      [] o.step = "fees" ->
            /\ Answer(o, "rates") /\ rates' = TRUE /\ UNCHANGED <<cache, verified>>
      [] o.step \in {"query", "post", "requery"} ->
            /\ \E order \in _parse_order(book'[o.id]) : AnswerOrder(o, order)
            /\ Found(o, o.symbol)
            /\ UNCHANGED <<verified, rates>>
      [] o.step = "delete" -> Answer(o, "True") /\ UNCHANGED <<cache, verified, rates>>
      [] o.step \in {"status", "restatus"} ->
            /\ \E order \in _parse_order(book[o.id]) : OnStatus(o, order)
            /\ Found(o, Head(o.probe))
            /\ UNCHANGED <<verified, rates>>

\* Fault: the symbol that failed is asked for again.
ProbeSame(o) == op' = [o EXCEPT !.attempt = 1] /\ UNCHANGED result

(* get_order_status goes to the next symbol, and has found nothing after the *)
(* last one.                                                                 *)
ProbeNext(o) ==
    IF Len(o.probe) > 1 THEN op' = [o EXCEPT !.probe = Tail(@), !.attempt = 1] /\ UNCHANGED result
    ELSE Answer(o, IF o.kind = "cancel" THEN "False" ELSE "None")

\* Fault: the error of the POST is taken for the truth.
RaiseAtOnce(o) == Answer(o, "raises")

(* The POST was refused: perhaps a first one, whose answer was lost, was not. *)
OnPostRefused(o) == Goto(o, "requery")

(* The operation raises; get_fee_rates only its FeeRatesUnavailableError.    *)
Raises(o) == Answer(o, IF o.kind = "fees" THEN "unavailable" ELSE "raises")

(* BingXApiError: an error code, or the breaker.                             *)
OnApiError(o) ==
    /\ CASE o.step = "query" -> Goto(o, "post")
         [] o.step = "post" -> OnPostRefused(o)
         [] o.step = "delete" -> Goto([o EXCEPT !.probe = Candidates(o.id)], "restatus")
         [] o.step \in {"status", "restatus"} -> ProbeNext(o)
         [] o.step \in {"dual", "margin", "requery", "orders", "fees", "read", "leverage"} ->
               Raises(o)
    /\ UNCHANGED <<verified, cache, rates>>

(* HTTPStatusError, and whatever else is raised.                             *)
OnHttpError(o) ==
    /\ IF o.step \in {"status", "restatus"} THEN ProbeNext(o) ELSE Raises(o)
    /\ UNCHANGED <<verified, cache, rates>>
OnOtherError(o) == Raises(o) /\ UNCHANGED <<verified, cache, rates>>

(* _parse_order raises when the symbol of the order is remembered already.   *)
OnUnparsed(o) ==
    /\ Raises(o) /\ UNCHANGED <<verified, rates>>
    /\ \/ o.step \in {"query", "requery"} /\ Found(o, o.symbol)
       \/ o.step \in {"status", "restatus"} /\ Found(o, Head(o.probe))
       \/ o.step = "orders" /\ FoundOpen(o.symbol)
-----------------------------------------------------------------------------
(***************************************************************************)
(* _signed_request: one attempt, with all the ways it can go.                *)
(***************************************************************************)
Refused ==
    /\ op # None /\ Refuses(breaker)
    /\ OnApiError([op EXCEPT !.blind = TRUE])
    /\ UNCHANGED <<exchange, breaker, faults>>

(* The exchange carries the request out and the answer arrives.              *)
Answered ==
    /\ op # None /\ ~Refuses(breaker) /\ Accepts(op)
    /\ Effect(op)
    /\ breaker' = on_success(before_call(breaker))
    /\ OnAnswer([op EXCEPT !.created = @ \/ op.step = "post"])
    /\ UNCHANGED faults

Fault == faults < MaxFaults /\ faults' = faults + 1
Fails == Fault /\ breaker' = on_failure(before_call(breaker))

WithFault(blind, done) ==
    [op EXCEPT !.faults = @ + 1, !.blind = @ \/ blind, !.created = @ \/ (done /\ op.step = "post")]

LookUps == {"query", "requery", "status", "restatus"}

(* A code other than 0: the order is not there, is there already, cannot be  *)
(* cancelled.  The breaker counts it like any failure, unless a look-up ends  *)
(* with code 0 and no order.                                                 *)
Rejected ==
    /\ op # None /\ ~Refuses(breaker) /\ ~Accepts(op)
    /\ \/ breaker' = on_failure(before_call(breaker))
       \/ op.step \in LookUps /\ breaker' = on_success(before_call(breaker))
    /\ OnApiError(op)
    /\ UNCHANGED <<exchange, faults>>

(* Rate limit, maintenance, insufficient margin: a code, or a status of 4xx. *)
TurnedDown ==
    /\ op # None /\ ~Refuses(breaker) /\ Fails
    /\ OnApiError(WithFault(FALSE, FALSE)) \/ OnHttpError(WithFault(FALSE, FALSE))
    /\ UNCHANGED exchange

(* The request or its answer is lost, or a 5xx comes back: it is sent again, *)
(* whether or not it was carried out.                                        *)
Lost ==
    /\ op # None /\ ~Refuses(breaker) /\ Fails
    /\ \E done \in {FALSE, Accepts(op)} :
           /\ IF done THEN Effect(op) ELSE UNCHANGED exchange
           /\ LET o == WithFault(FALSE, done) IN
              IF GivesUp(op.attempt, MaxAttempts, TRUE) THEN OnHttpError(o) \/ OnOtherError(o)
              ELSE /\ op' = [o EXCEPT !.attempt = @ + 1]
                   /\ UNCHANGED <<result, verified, cache, rates>>

(* Carried out, but the body of the answer is no JSON or has no "data", which *)
(* the breaker counts; or what is read of it is not as it should be, or it    *)
(* holds no order, which the breaker does not see.  It is not sent again.    *)
Garbled ==
    /\ op # None /\ ~Refuses(breaker) /\ Fault /\ Accepts(op)
    /\ Effect(op)
    /\ LET o == WithFault(TRUE, TRUE) IN
       \/ breaker' = on_failure(before_call(breaker)) /\ OnOtherError(o)
       \/ /\ breaker' = on_success(before_call(breaker))
          /\ \/ op.step \notin {"dual", "margin", "leverage", "delete"} /\ OnOtherError(o)
             \/ OnUnparsed(o)
             \/ op.step \in LookUps /\ OnApiError(o)

ResetElapses ==
    /\ breaker.state = "OPEN" /\ ~breaker.elapsed
    /\ breaker' = [breaker EXCEPT !.elapsed = TRUE]
    /\ UNCHANGED <<exchange, verified, cache, rates, op, result, faults>>
-----------------------------------------------------------------------------
Begin ==
    \/ place_order \/ cancel_order \/ get_order_status \/ get_open_orders \/ get_fee_rates
    \/ Read \/ set_leverage \/ set_margin_type \/ InvalidSetting
Step == Refused \/ Answered \/ Rejected \/ TurnedDown \/ Lost \/ Garbled

Next == Begin \/ Step \/ OrderMoves \/ ResetElapses \/ RatesExpire

Spec == Init /\ [][Next]_vars

(* The thread of the operation goes on; the caller need not call.            *)
FairSpec == Spec /\ WF_vars(Step)
-----------------------------------------------------------------------------
Answers == Statuses \cup {"True", "False", "None", "done", "rates", "unavailable", "raises"}

(* Every variable keeps its type; attempts stay within max_attempts          *)
(* (core/retry.py:141-172).                                                  *)
TypeOK ==
    /\ book \in [Ids -> Order \cup {None}]
    /\ account \in [oneWay : BOOLEAN, isolated : SUBSET Symbols]
    /\ verified \in [oneWay : BOOLEAN, isolated : SUBSET Symbols]
    /\ cache \in [Ids -> Symbols \cup {None}]
    /\ rates \in BOOLEAN
    /\ breaker \in Breaker /\ breaker.failures <= FailureThreshold + 1
    /\ op = None \/ (op.step \in Steps /\ op.attempt \in 1..MaxAttempts)
    /\ result = None \/ result.answer \in Answers
    /\ faults \in 0..MaxFaults

(* What an operation answers is so on the exchange, however requests were    *)
(* repeated and whatever the order did meanwhile.  An order that is reported  *)
(* exists; FILLED, CANCELLED and True say how it ended, and it executed as    *)
(* far as reported.  PENDING and FAILED say no more than that it exists: the  *)
(* order may have moved on, and an unknown status is FAILED.  True does not   *)
(* say that nothing of the order has executed (bingx_adapter.py:277-386,      *)
(* 590-623).                                                                 *)
AnswersTrue ==
    result # None =>
        /\ result.answer \in Statuses => book[result.id] # None
        /\ result.answer \in {"FILLED", "CANCELLED"} => book[result.id].status = result.answer
        /\ result.answer = "True" => book[result.id].status = "CANCELLED"
        /\ result.answer \in Executed \/ result.executed => book[result.id].executed

(* An order the call has created is not reported as an error because one     *)
(* answer was lost: that takes a second fault, or a breaker that refuses the *)
(* look at the order (bingx_adapter.py:307-326, 498-520).                    *)
LostAnswerRecovered ==
    result # None /\ result.kind = "place" /\ result.created /\ result.answer = "raises" =>
        result.faults >= 2 \/ result.blind

(* Orders are created only in ONE_WAY mode and on a symbol with ISOLATED     *)
(* margin, however the requests that set them fared (bingx_adapter.py:463-496). *)
IsolatedOneWay ==
    [][\A i \in Ids : book[i] = None /\ book'[i] # None =>
           account.oneWay /\ book'[i].symbol \in account.isolated]_vars

(* Every operation ends, with the exchange down and the breaker open too     *)
(* (bingx_adapter.py:238-386, core/retry.py:141-172).                        *)
OperationEnds == op # None ~> op = None
=============================================================================
