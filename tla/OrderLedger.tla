----------------------------- MODULE OrderLedger -----------------------------
(***************************************************************************)
(* What the execution of approved plans promises, whatever fails: an order  *)
(* is sent once for every call that asks for it, a call sends it at most    *)
(* once, the database records only orders the exchange has accepted, never  *)
(* forgets one, and an order that is recorded is not asked for again.       *)
(* Execution implements this specification.  It is what the code keeps, an  *)
(* order sent first and recorded after: less than the decision record       *)
(* F10-05 asks for, which records the order as PENDING before it is sent.   *)
(***************************************************************************)
EXTENDS Naturals

CONSTANT Decisions    \* ids of the model's decisions, the client order ids

VARIABLES
    calls,      \* calls[d]: calls to the exchange for d that have not ended
    accepted,   \* accepted[d]: times the exchange has accepted an order for d
    recorded    \* decisions whose order is committed to the database

vars == <<calls, accepted, recorded>>

Init ==
    /\ calls = [d \in Decisions |-> 0]
    /\ accepted = [d \in Decisions |-> 0]
    /\ recorded = {}

(* A plan is sent unless its order is already recorded.                     *)
Submit(d) ==
    /\ d \notin recorded
    /\ calls' = [calls EXCEPT ![d] = @ + 1]
    /\ UNCHANGED <<accepted, recorded>>

(* The call ends: with an order of its own, or with an earlier answer.      *)
Accept(d) ==
    /\ calls[d] > 0
    /\ calls' = [calls EXCEPT ![d] = @ - 1]
    /\ accepted' = [accepted EXCEPT ![d] = @ + 1]
    /\ UNCHANGED recorded

Answer(d) ==
    /\ calls[d] > 0
    /\ accepted[d] > 0
    /\ calls' = [calls EXCEPT ![d] = @ - 1]
    /\ UNCHANGED <<accepted, recorded>>

Record(d) ==
    /\ accepted[d] > 0
    /\ recorded' = recorded \cup {d}
    /\ UNCHANGED <<calls, accepted>>

Next == \E d \in Decisions : Submit(d) \/ Accept(d) \/ Answer(d) \/ Record(d)

Spec == Init /\ [][Next]_vars
-----------------------------------------------------------------------------
(* No order is recorded that the exchange has not accepted                  *)
(* (execution/engine.py:338-373).                                           *)
RecordedAccepted == \A d \in recorded : accepted[d] > 0

(* What is recorded stays so, and no call begins for it                     *)
(* (execution/engine.py:118-138).                                           *)
RecordedStays == \A d \in recorded : d \in recorded' /\ calls'[d] <= calls[d]
NotAskedAgain == [][RecordedStays]_vars
=============================================================================
