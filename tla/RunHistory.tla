----------------------------- MODULE RunHistory -----------------------------
(***************************************************************************)
(* What bot_runs and bot_states promise to whoever reads them, whatever     *)
(* processes start, crash or ask for the kill switch: a run is open         *)
(* (RUNNING) from its birth until it is closed once and for all, a new run  *)
(* is born in the step that closes the one left open, only an open run is   *)
(* restricted, and a restriction is only ever tightened.                    *)
(* BotControl implements this specification.                                *)
(***************************************************************************)
EXTENDS Naturals

CONSTANT Overlap    \* may a kill-switch request be in flight while a worker starts?

VARIABLES
    newest,     \* runs so far, numbered in the order of their birth
    status,     \* status[r]: "RUNNING", "STOPPED" or "CRASHED"
    state       \* state[r]: "ACTIVE", "SAFE_MODE" or "KILL_SWITCH_TRIGGERED"

vars == <<newest, status, state>>

Open == {r \in 1..newest : status[r] = "RUNNING"}
Killed == {r \in 1..newest : state[r] = "KILL_SWITCH_TRIGGERED"}

Init ==
    /\ newest = 0
    /\ status = [r \in 1..newest |-> "RUNNING"]
    /\ state = [r \in 1..newest |-> "ACTIVE"]

(* The states a run may be born in.  The kill switch of the newest run is    *)
(* inherited, SAFE_MODE is not; a request in flight while the worker starts  *)
(* may be missed, or be inherited although another run came in between.      *)
BirthStates ==
    IF Overlap
    THEN {"ACTIVE"} \cup {state[r] : r \in Killed}
    ELSE {IF newest \in Killed THEN "KILL_SWITCH_TRIGGERED" ELSE "ACTIVE"}

(* A run is born, and at most one other declared crashed with it: the one    *)
(* still open, or one that closed while the worker was starting.             *)
Begin(crashed, s) ==
    /\ Open \subseteq {crashed}
    /\ newest' = newest + 1
    /\ status' = [r \in 1..newest' |->
                    IF r = newest' THEN "RUNNING"
                    ELSE IF r = crashed THEN "CRASHED" ELSE status[r]]
    /\ state' = [r \in 1..newest' |-> IF r = newest' THEN s ELSE state[r]]

(* A worker that shuts down, even one whose run was declared crashed.        *)
Stop(r) ==
    /\ status' = [status EXCEPT ![r] = "STOPPED"]
    /\ UNCHANGED <<newest, state>>

Tighter(s) ==
    CASE s = "ACTIVE"                -> {"SAFE_MODE", "KILL_SWITCH_TRIGGERED"}
      [] s = "SAFE_MODE"             -> {"KILL_SWITCH_TRIGGERED"}
      [] s = "KILL_SWITCH_TRIGGERED" -> {}

Restrict(r) ==
    /\ r \in Open
    /\ \E s \in Tighter(state[r]) : state' = [state EXCEPT ![r] = s]
    /\ UNCHANGED <<newest, status>>

Next ==
    \/ \E crashed \in 0..newest, s \in BirthStates : Begin(crashed, s)
    \/ \E r \in 1..newest : Stop(r) \/ Restrict(r)

Spec == Init /\ [][Next]_vars
-----------------------------------------------------------------------------
(* The kill switch resolves the open run by its status: there is one at most,  *)
(* and it is the newest, whose state the next start-up reads.                  *)
OnlyNewestOpen == Open \subseteq {newest}

(* Starting a worker is not the review a kill switch asks for: the run after a  *)
(* killed one is killed.                                                        *)
KillInherited == \A r \in Killed : r < newest => r + 1 \in Killed

(* A closed run is a record: it is not opened again, nor its state changed.    *)
ClosedIsFinal ==
    [][\A r \in 1..newest \ Open :
          status'[r] # "RUNNING" /\ state'[r] = state[r]]_vars
=============================================================================
