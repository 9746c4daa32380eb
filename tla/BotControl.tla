----------------------------- MODULE BotControl -----------------------------
(***************************************************************************)
(* Who may trade: the bot's run and state as several processes see them.    *)
(*                                                                         *)
(* A worker process (worker/run_worker.py, trading_core/orchestrator.py,    *)
(* trading_core/cycle_runner.py) owns one row of bot_runs and ticks; the    *)
(* API process serves POST /kill-switch (api/routes_kill_switch.py).  They  *)
(* share nothing but the database: bot_runs.status, the latest bot_state    *)
(* row of every run, and PostgreSQL's row locks.  The model splits every    *)
(* handler where another process can act: between the reads and the writes  *)
(* of the start-up, before and under the FOR UPDATE lock of                 *)
(* EmergencyStopService.trigger, and around the GPT call of every symbol.   *)
(***************************************************************************)
EXTENDS Naturals

CONSTANTS
    Workers,      \* worker processes; the deployment has one, a rolling restart two
    Apis,         \* concurrent POST /kill-switch handlers
    None,         \* no process
    MaxRuns,      \* bound: rows of bot_runs
    NumSymbols,   \* snapshots a tick can deliver (trading.allowed_symbols)
    MaxDbErrors,  \* bound: transient SQLAlchemyErrors
    StartupOverlap \* may a kill-switch request be in flight while a worker starts?

ASSUME ProcessesDistinct ==
    /\ Workers \cap Apis = {}
    /\ None \notin Workers \cup Apis
ASSUME BoundsAreNaturals ==
    /\ MaxRuns \in Nat
    /\ NumSymbols \in Nat
    /\ MaxDbErrors \in Nat
ASSUME StartupOverlapIsBoolean == StartupOverlap \in BOOLEAN

Runs == 1..MaxRuns
Procs == Workers \cup Apis

(***************************************************************************)
(* BotState and the transition table of bot_state_machine.py.  A run with   *)
(* no bot_state row yet ("NoRow") counts as ACTIVE (resolve_persisted_state).*)
(***************************************************************************)
BotStates ==
    {"ACTIVE", "SAFE_MODE", "HALTED", "KILL_SWITCH_TRIGGERED", "MANUAL_PAUSED"}

AllowedTransitions ==
    [s \in BotStates |->
        CASE s \in {"ACTIVE", "SAFE_MODE"}   -> BotStates \ {s}
          [] s = "HALTED"                    -> {"ACTIVE", "KILL_SWITCH_TRIGGERED"}
          [] s = "KILL_SWITCH_TRIGGERED"     -> {"HALTED"}
          [] s = "MANUAL_PAUSED"             -> {"ACTIVE", "SAFE_MODE"}]

can_trade(s) == s = "ACTIVE"
is_running(s) == s \notin {"HALTED", "KILL_SWITCH_TRIGGERED"}

resolve_persisted_state(raw) == IF raw = "NoRow" THEN "ACTIVE" ELSE raw

RunStatus == {"NONE", "RUNNING", "STOPPED", "CRASHED"}

(* Control points of a worker.  "down": no process; the next three are      *)
(* Orchestrator._prepare_paper_context; the rest are CycleRunner.run().     *)
StartPcs == {"selectOrphans", "closeOrphans", "insert"}
LockedPcs == {"healthLocked", "gateLocked"}
LoopPcs == {"loop", "tick", "health", "gate", "pipe", "symbol", "gpt", "wait",
            "closing"} \cup LockedPcs
Pcs == {"down"} \cup StartPcs \cup LoopPcs

VARIABLES
    nRuns,      \* rows of bot_runs committed so far; run r is older than run r + 1
    runStatus,  \* bot_runs.status of every run, committed
    botState,   \* state of the latest committed bot_state row of every run
    lock,       \* process holding the exclusive row lock of every bot_runs row
    pc,         \* control point of every worker
    myRun,      \* BotRun of every worker (0: none yet)
    local,      \* BotStateMachine._state in every worker's memory
    carried,    \* is the worker's start-up carrying a stopped state over?
    orphans,    \* RUNNING rows the worker's start-up has selected
    todo,       \* snapshots left in the worker's tick
    share,      \* does the worker's open transaction hold rows referencing its run?
    apiPc,      \* control point of every API handler
    target,     \* BotRun the API handler resolved
    dbErrors,   \* SQLAlchemyErrors so far
    late,       \* observation: orders placed per run while its persisted state forbids them
    blind       \* observation: failed per-symbol re-reads per run in such a state

dbVars == <<nRuns, runStatus, botState, lock>>
workerVars == <<pc, myRun, local, carried, orphans, todo, share>>
apiVars == <<apiPc, target>>
vars == <<dbVars, workerVars, apiVars, dbErrors, late, blind>>

(***************************************************************************)
(* share[w]: the rows the worker has flushed but not committed reference    *)
(* its bot_runs row, and the foreign-key check holds that row FOR KEY SHARE *)
(* until the transaction ends.  "inner": only since the symbol's SAVEPOINT, *)
(* so rolling the SAVEPOINT back releases it; "outer": until commit.        *)
(***************************************************************************)
ShareModes == {"none", "inner", "outer"}

TypeOK ==
    /\ nRuns \in 0..MaxRuns
    /\ runStatus \in [Runs -> RunStatus]
    /\ botState \in [Runs -> BotStates \cup {"NoRow"}]
    /\ lock \in [Runs -> Procs \cup {None}]
    /\ pc \in [Workers -> Pcs]
    /\ myRun \in [Workers -> 0..MaxRuns]
    /\ local \in [Workers -> BotStates]
    /\ carried \in [Workers -> BOOLEAN]
    /\ orphans \in [Workers -> SUBSET Runs]
    /\ todo \in [Workers -> 0..NumSymbols]
    /\ share \in [Workers -> ShareModes]
    /\ apiPc \in [Apis -> {"idle", "resolved", "locked"}]
    /\ target \in [Apis -> Runs \cup {0}]
    /\ dbErrors \in 0..MaxDbErrors
    /\ late \in [Runs -> Nat]
    /\ blind \in [Runs -> Nat]

Init ==
    /\ nRuns = 0
    /\ runStatus = [r \in Runs |-> "NONE"]
    /\ botState = [r \in Runs |-> "NoRow"]
    /\ lock = [r \in Runs |-> None]
    /\ pc = [w \in Workers |-> "down"]
    /\ myRun = [w \in Workers |-> 0]
    /\ local = [w \in Workers |-> "ACTIVE"]
    /\ carried = [w \in Workers |-> FALSE]
    /\ orphans = [w \in Workers |-> {}]
    /\ todo = [w \in Workers |-> 0]
    /\ share = [w \in Workers |-> "none"]
    /\ apiPc = [a \in Apis |-> "idle"]
    /\ target = [a \in Apis |-> 0]
    /\ dbErrors = 0
    /\ late = [r \in Runs |-> 0]
    /\ blind = [r \in Runs |-> 0]

-----------------------------------------------------------------------------
(* PostgreSQL row locks, as the code's statements take them.  SELECT ... FOR *)
(* UPDATE conflicts with every other lock; UPDATE of a non-key column (FOR   *)
(* NO KEY UPDATE) conflicts with it but not with FOR KEY SHARE.              *)

ForUpdateHolder(p) == p \in Apis \/ (p \in Workers /\ pc[p] \in LockedPcs)

\* Fault: session.get without with_for_update.
CanReadUnlocked(p, r) == TRUE

CanLockForUpdate(p, r) ==
    /\ lock[r] = None
    /\ \A w \in Workers \ {p} : myRun[w] = r => share[w] = "none"

CanLockForNoKeyUpdate(r) == lock[r] = None

CanInsertChild(r) == ~ForUpdateHolder(lock[r])

Release(p) == [r \in Runs |-> IF lock[r] = p THEN None ELSE lock[r]]

(* A committed state in which no new position may be opened. *)
Forbids(s) == ~can_trade(resolve_persisted_state(s))
-----------------------------------------------------------------------------
(***************************************************************************)
(* Start-up of a worker: Orchestrator._prepare_paper_context, one           *)
(* transaction up to its single commit.                                     *)
(***************************************************************************)
Starting == \E w \in Workers : pc[w] \in StartPcs
RequestInFlight == \E a \in Apis : apiPc[a] # "idle"

\* Fault: get_active() instead of get_most_recent().
CarriedFromActive ==
    IF nRuns > 0 /\ runStatus[nRuns] = "RUNNING" /\ botState[nRuns] # "NoRow"
       /\ ~is_running(botState[nRuns])
    THEN botState[nRuns]
    ELSE "ACTIVE"

(* _resolve_carried_over_state: the state of the newest run, if it stops the *)
(* cycle, becomes the initial state of the worker's state machine.           *)
CarriedState ==
    IF nRuns > 0 /\ botState[nRuns] # "NoRow" /\ ~is_running(botState[nRuns])
    THEN botState[nRuns]
    ELSE "ACTIVE"

StartRead(w) ==
    /\ pc[w] = "down"
    /\ nRuns < MaxRuns
    /\ StartupOverlap \/ ~RequestInFlight
    /\ local' = [local EXCEPT ![w] = CarriedState]
    /\ carried' = [carried EXCEPT ![w] = CarriedState # "ACTIVE"]
    /\ pc' = [pc EXCEPT ![w] = "selectOrphans"]
    /\ UNCHANGED <<dbVars, myRun, orphans, todo, share, apiVars, dbErrors, late, blind>>

(* close_orphan_running, its SELECT ... *)
SelectOrphans(w) ==
    /\ pc[w] = "selectOrphans"
    /\ orphans' = [orphans EXCEPT ![w] = {r \in Runs : runStatus[r] = "RUNNING"}]
    /\ pc' = [pc EXCEPT ![w] = "closeOrphans"]
    /\ UNCHANGED <<dbVars, myRun, local, carried, todo, share, apiVars, dbErrors, late, blind>>

(* ... and its UPDATEs, which wait for the row locks and keep them. *)
CloseOrphans(w) ==
    /\ pc[w] = "closeOrphans"
    /\ \A r \in orphans[w] : CanLockForNoKeyUpdate(r)
    /\ lock' = [r \in Runs |-> IF r \in orphans[w] THEN w ELSE lock[r]]
    /\ pc' = [pc EXCEPT ![w] = "insert"]
    /\ UNCHANGED <<nRuns, runStatus, botState, myRun, local, carried, orphans, todo, share,
                   apiVars, dbErrors, late, blind>>

\* Fault: no uq_bot_runs_single_running.
NoUniqueIndex(w) == TRUE

(* uq_bot_runs_single_running: no RUNNING row but the ones this transaction  *)
(* has itself closed.                                                        *)
UniqueRunningHolds(w) == \A r \in Runs \ orphans[w] : runStatus[r] # "RUNNING"

InsertRun(w) ==
    /\ pc[w] = "insert"
    /\ nRuns < MaxRuns
    /\ UniqueRunningHolds(w)
    /\ nRuns' = nRuns + 1
    /\ runStatus' = [r \in Runs |-> IF r = nRuns + 1 THEN "RUNNING"
                                    ELSE IF r \in orphans[w] THEN "CRASHED"
                                    ELSE runStatus[r]]
    /\ botState' = [botState EXCEPT ![nRuns + 1] = IF carried[w] THEN local[w] ELSE "NoRow"]
    /\ lock' = Release(w)
    /\ myRun' = [myRun EXCEPT ![w] = nRuns + 1]
    /\ pc' = [pc EXCEPT ![w] = "loop"]
    /\ UNCHANGED <<local, carried, orphans, todo, share, apiVars, dbErrors, late, blind>>

(* IntegrityError: BotRunAlreadyActiveError, the session is closed (which    *)
(* rolls the orphan UPDATEs back) and run_worker.main exits.                 *)
InsertRejected(w) ==
    /\ pc[w] = "insert"
    /\ ~UniqueRunningHolds(w)
    /\ lock' = Release(w)
    /\ pc' = [pc EXCEPT ![w] = "down"]
    /\ UNCHANGED <<nRuns, runStatus, botState, myRun, local, carried, orphans, todo, share,
                   apiVars, dbErrors, late, blind>>
-----------------------------------------------------------------------------
\* Fault: a run that has no bot_states row yet is not told apart.
SyncedUnchecked(w) == botState[myRun[w]]

(***************************************************************************)
(* CycleRunner._sync_state_from_db: adopt the latest persisted state; an    *)
(* SQLAlchemyError keeps the state in memory (fail-open) and rolls the      *)
(* session back.                                                            *)
(***************************************************************************)
SyncedState(w) ==
    IF botState[myRun[w]] = "NoRow" THEN local[w] ELSE botState[myRun[w]]

DbError ==
    /\ dbErrors < MaxDbErrors
    /\ dbErrors' = dbErrors + 1

\* Fault: the loop trusts the state in memory.
LoopWithoutSync(w) ==
    /\ pc[w] = "loop"
    /\ pc' = [pc EXCEPT ![w] = IF is_running(local[w]) THEN "tick" ELSE "wait"]
    /\ UNCHANGED <<dbVars, myRun, local, carried, orphans, todo, share, apiVars, dbErrors,
                   late, blind>>

(* Top of the while loop of CycleRunner.run(). *)
LoopSync(w) ==
    /\ pc[w] = "loop"
    /\ local' = [local EXCEPT ![w] = SyncedState(w)]
    /\ pc' = [pc EXCEPT ![w] = IF is_running(SyncedState(w)) THEN "tick" ELSE "wait"]
    /\ UNCHANGED <<dbVars, myRun, carried, orphans, todo, share, apiVars, dbErrors, late, blind>>

LoopSyncFails(w) ==
    /\ pc[w] = "loop"
    /\ DbError
    /\ share' = [share EXCEPT ![w] = "none"]
    /\ pc' = [pc EXCEPT ![w] = IF is_running(local[w]) THEN "tick" ELSE "wait"]
    /\ UNCHANGED <<dbVars, myRun, local, carried, orphans, todo, apiVars, late, blind>>

\* Fault: tick_all leaves the transaction open.
TickUncommitted(w) ==
    /\ pc[w] = "tick"
    /\ CanInsertChild(myRun[w])
    /\ \E n \in 0..NumSymbols : todo' = [todo EXCEPT ![w] = n]
    /\ share' = [share EXCEPT ![w] = "outer"]
    /\ pc' = [pc EXCEPT ![w] = "health"]
    /\ UNCHANGED <<dbVars, myRun, local, carried, orphans, apiVars, dbErrors, late, blind>>

(* MarketDataCycleService.tick_all: rows of the run are inserted and the      *)
(* session is committed; any number of symbols may have failed to fetch.      *)
TickMarketData(w) ==
    /\ pc[w] = "tick"
    /\ CanInsertChild(myRun[w])
    /\ \E n \in 0..NumSymbols : todo' = [todo EXCEPT ![w] = n]
    /\ share' = [share EXCEPT ![w] = "none"]
    /\ pc' = [pc EXCEPT ![w] = "health"]
    /\ UNCHANGED <<dbVars, myRun, local, carried, orphans, apiVars, dbErrors, late, blind>>

(* An exception the tick does not isolate (get_account_state or the commit of *)
(* tick_all, a query of reconcile) leaves run() through its finally: close().  *)
TickRaises(w) ==
    /\ pc[w] \in {"tick", "gate"}
    /\ pc' = [pc EXCEPT ![w] = "closing"]
    /\ UNCHANGED <<dbVars, myRun, local, carried, orphans, todo, share, apiVars, dbErrors,
                   late, blind>>
-----------------------------------------------------------------------------
(***************************************************************************)
(* ConnectionHealthMonitor.check_and_enforce ("health") and                 *)
(* ReconciliationGate.run_and_enforce ("gate"): on a finding, if the state  *)
(* in memory is ACTIVE, EmergencyStopService.trigger(SAFE_MODE).            *)
(***************************************************************************)
Stages == {"health", "gate"}
NextStage(s) == IF s = "health" THEN "gate" ELSE "pipe"
LockedStage(s) == IF s = "health" THEN "healthLocked" ELSE "gateLocked"

(* No finding, or findings_while_not_active. *)
StageClean(w, s) ==
    /\ pc[w] = s
    /\ pc' = [pc EXCEPT ![w] = NextStage(s)]
    /\ UNCHANGED <<dbVars, myRun, local, carried, orphans, todo, share, apiVars, dbErrors,
                   late, blind>>

\* Fault: force_set(target) before the commit.
SafeModeLockForces(w, s) ==
    /\ pc[w] = s
    /\ local[w] = "ACTIVE"
    /\ runStatus[myRun[w]] = "RUNNING"
    /\ resolve_persisted_state(botState[myRun[w]]) = "ACTIVE"
    /\ CanLockForUpdate(w, myRun[w])
    /\ local' = [local EXCEPT ![w] = "SAFE_MODE"]
    /\ lock' = [lock EXCEPT ![myRun[w]] = w]
    /\ pc' = [pc EXCEPT ![w] = LockedStage(s)]
    /\ UNCHANGED <<nRuns, runStatus, botState, myRun, carried, orphans, todo, share,
                   apiVars, dbErrors, late, blind>>

(* A finding: lock the run, re-read its status and state, resynchronise the  *)
(* state in memory; go on only from ACTIVE on a RUNNING run.                 *)
SafeModeLock(w, s) ==
    LET r == myRun[w]
        current == resolve_persisted_state(botState[r])
        rejected == runStatus[r] # "RUNNING" \/ current # "ACTIVE"
    IN  /\ pc[w] = s
        /\ local[w] = "ACTIVE"
        /\ CanLockForUpdate(w, r)
        /\ local' = [local EXCEPT ![w] =
                        IF runStatus[r] # "RUNNING" THEN local[w] ELSE current]
        /\ lock' = IF rejected THEN lock ELSE [lock EXCEPT ![r] = w]
        /\ pc' = [pc EXCEPT ![w] = IF rejected THEN NextStage(s) ELSE LockedStage(s)]
        /\ UNCHANGED <<nRuns, runStatus, botState, myRun, carried, orphans, todo, share,
                       apiVars, dbErrors, late, blind>>

SafeModeCommit(w, s) ==
    /\ pc[w] = LockedStage(s)
    /\ botState' = [botState EXCEPT ![myRun[w]] = "SAFE_MODE"]
    /\ local' = [local EXCEPT ![w] = "SAFE_MODE"]
    /\ lock' = Release(w)
    /\ pc' = [pc EXCEPT ![w] = NextStage(s)]
    /\ UNCHANGED <<nRuns, runStatus, myRun, carried, orphans, todo, share, apiVars, dbErrors,
                   late, blind>>

(* SQLAlchemyError while locking, writing or committing: logged, rolled back, *)
(* state in memory left alone.  When the connection fails during the commit   *)
(* the server may have applied it (applied = TRUE).                           *)
SafeModeFails(w, s) ==
    /\ DbError
    /\ \/ /\ pc[w] = s
          /\ local[w] = "ACTIVE"
          /\ UNCHANGED botState
       \/ /\ pc[w] = LockedStage(s)
          /\ \E applied \in BOOLEAN :
                botState' = IF applied THEN [botState EXCEPT ![myRun[w]] = "SAFE_MODE"]
                                       ELSE botState
    /\ lock' = Release(w)
    /\ pc' = [pc EXCEPT ![w] = NextStage(s)]
    /\ UNCHANGED <<nRuns, runStatus, myRun, local, carried, orphans, todo, share, apiVars,
                   late, blind>>
-----------------------------------------------------------------------------
(***************************************************************************)
(* CycleRunner._run_decision_pipeline: re-read the state before every       *)
(* symbol, then GPT -> Aggregator -> Risk -> Execution inside a SAVEPOINT.  *)
(***************************************************************************)
(* Where the symbol's checks send the worker: out of the pipeline when the   *)
(* cycle must stop, to the next symbol when it may not trade.                *)
AfterSync(s) ==
    IF ~is_running(s) THEN {"wait"}
    ELSE IF ~can_trade(s) THEN {"pipe"}
    ELSE {"symbol", "pipe"}     \* "pipe": the symbol is in unverified_symbols

\* Fault: the state is read once per tick, not before every symbol.
SymbolWithoutSync(w) ==
    /\ pc[w] = "pipe"
    /\ todo[w] > 0
    /\ todo' = [todo EXCEPT ![w] = todo[w] - 1]
    /\ \E next \in AfterSync(local[w]) : pc' = [pc EXCEPT ![w] = next]
    /\ UNCHANGED <<dbVars, myRun, local, carried, orphans, share, apiVars, dbErrors, late, blind>>

SymbolSync(w) ==
    /\ pc[w] = "pipe"
    /\ todo[w] > 0
    /\ todo' = [todo EXCEPT ![w] = todo[w] - 1]
    /\ local' = [local EXCEPT ![w] = SyncedState(w)]
    /\ \E next \in AfterSync(SyncedState(w)) : pc' = [pc EXCEPT ![w] = next]
    /\ UNCHANGED <<dbVars, myRun, carried, orphans, share, apiVars, dbErrors, late, blind>>

SymbolSyncFails(w) ==
    /\ pc[w] = "pipe"
    /\ todo[w] > 0
    /\ DbError
    /\ todo' = [todo EXCEPT ![w] = todo[w] - 1]
    /\ share' = [share EXCEPT ![w] = "none"]
    /\ blind' = IF Forbids(botState[myRun[w]])
                THEN [blind EXCEPT ![myRun[w]] = @ + 1] ELSE blind
    /\ \E next \in AfterSync(local[w]) : pc' = [pc EXCEPT ![w] = next]
    /\ UNCHANGED <<dbVars, myRun, local, carried, orphans, apiVars, late>>

PipelineDone(w) ==
    /\ pc[w] = "pipe"
    /\ todo[w] = 0
    /\ pc' = [pc EXCEPT ![w] = "wait"]
    /\ UNCHANGED <<dbVars, myRun, local, carried, orphans, todo, share, apiVars, dbErrors,
                   late, blind>>

(* GPTClient.request flushes its model_requests row, then awaits OpenAI. *)
SymbolAsk(w) ==
    /\ pc[w] = "symbol"
    /\ CanInsertChild(myRun[w])
    /\ share' = [share EXCEPT ![w] = IF @ = "none" THEN "inner" ELSE @]
    /\ pc' = [pc EXCEPT ![w] = "gpt"]
    /\ UNCHANGED <<dbVars, myRun, local, carried, orphans, todo, apiVars, dbErrors, late, blind>>

(* An exception before anything is written (signals, losses, prompt). *)
SymbolSkipped(w) ==
    /\ pc[w] = "symbol"
    /\ pc' = [pc EXCEPT ![w] = "pipe"]
    /\ UNCHANGED <<dbVars, myRun, local, carried, orphans, todo, share, apiVars, dbErrors,
                   late, blind>>

(* NO_OPERAR, no decision, or BLOCK: the SAVEPOINT is released, its rows stay *)
(* in the open transaction.                                                   *)
SymbolNoEntry(w) ==
    /\ pc[w] = "gpt"
    /\ share' = [share EXCEPT ![w] = "outer"]
    /\ pc' = [pc EXCEPT ![w] = "pipe"]
    /\ UNCHANGED <<dbVars, myRun, local, carried, orphans, todo, apiVars, dbErrors, late, blind>>

(* An exception before any order: the SAVEPOINT is rolled back. *)
SymbolError(w) ==
    /\ pc[w] = "gpt"
    /\ share' = [share EXCEPT ![w] = IF @ = "inner" THEN "none" ELSE @]
    /\ pc' = [pc EXCEPT ![w] = "pipe"]
    /\ UNCHANGED <<dbVars, myRun, local, carried, orphans, todo, apiVars, dbErrors, late, blind>>

(* ExecutionEngine.execute_approved_plan: the order is placed; then its rows  *)
(* are committed, or an exception (a timeout, a failed insert) rolls the      *)
(* SAVEPOINT back while the order stands.                                     *)
SymbolOrder(w) ==
    /\ pc[w] = "gpt"
    /\ late' = IF Forbids(botState[myRun[w]])
               THEN [late EXCEPT ![myRun[w]] = @ + 1] ELSE late
    /\ \E committed \in BOOLEAN :
          share' = [share EXCEPT ![w] = IF committed \/ @ = "inner" THEN "none" ELSE @]
    /\ pc' = [pc EXCEPT ![w] = "pipe"]
    /\ UNCHANGED <<dbVars, myRun, local, carried, orphans, todo, apiVars, dbErrors, blind>>
-----------------------------------------------------------------------------
(* The wait between iterations ends by timeout or by a shutdown signal. *)
WaitExpires(w) ==
    /\ pc[w] = "wait"
    /\ pc' = [pc EXCEPT ![w] = "loop"]
    /\ UNCHANGED <<dbVars, myRun, local, carried, orphans, todo, share, apiVars, dbErrors,
                   late, blind>>

ShutdownSignal(w) ==
    /\ pc[w] = "wait"
    /\ pc' = [pc EXCEPT ![w] = "closing"]
    /\ UNCHANGED <<dbVars, myRun, local, carried, orphans, todo, share, apiVars, dbErrors,
                   late, blind>>

(* Orchestrator.close: the run becomes STOPPED, in one committed UPDATE. *)
Close(w) ==
    /\ pc[w] = "closing"
    /\ CanLockForNoKeyUpdate(myRun[w])
    /\ runStatus' = [runStatus EXCEPT ![myRun[w]] = "STOPPED"]
    /\ share' = [share EXCEPT ![w] = "none"]
    /\ pc' = [pc EXCEPT ![w] = "down"]
    /\ UNCHANGED <<nRuns, botState, lock, myRun, local, carried, orphans, todo, apiVars,
                   dbErrors, late, blind>>

(* SIGKILL, out of memory, power loss: close() never runs; the server rolls   *)
(* the open transaction back and drops its locks.                             *)
Crash(w) ==
    /\ pc[w] # "down"
    /\ lock' = Release(w)
    /\ share' = [share EXCEPT ![w] = "none"]
    /\ pc' = [pc EXCEPT ![w] = "down"]
    /\ UNCHANGED <<nRuns, runStatus, botState, myRun, local, carried, orphans, todo, apiVars,
                   dbErrors, late, blind>>
-----------------------------------------------------------------------------
(***************************************************************************)
(* POST /kill-switch.  get_current_bot_run resolves the RUNNING run, or any *)
(* run given by id; 404 (no step) when there is none.                       *)
(***************************************************************************)
ApiResolve(a) ==
    /\ apiPc[a] = "idle"
    /\ StartupOverlap \/ ~Starting
    /\ \E r \in 1..nRuns : target' = [target EXCEPT ![a] = r]
    /\ apiPc' = [apiPc EXCEPT ![a] = "resolved"]
    /\ UNCHANGED <<dbVars, workerVars, dbErrors, late, blind>>

\* Fault: get_current_bot_run's copy of the run, loaded before the lock (no populate_existing).
ApiLockCached(a) ==
    LET current == resolve_persisted_state(botState[target[a]])
        rejected == "KILL_SWITCH_TRIGGERED" \notin AllowedTransitions[current]
    IN  /\ apiPc[a] = "resolved"
        /\ CanLockForUpdate(a, target[a])
        /\ lock' = IF rejected THEN lock ELSE [lock EXCEPT ![target[a]] = a]
        /\ apiPc' = [apiPc EXCEPT ![a] = IF rejected THEN "idle" ELSE "locked"]
        /\ UNCHANGED <<nRuns, runStatus, botState, target, workerVars, dbErrors, late, blind>>

(* SELECT ... FOR UPDATE with populate_existing, then the latest state: the   *)
(* request goes on only for a RUNNING run whose state may become              *)
(* KILL_SWITCH_TRIGGERED; otherwise 409.                                      *)
ApiLock(a) ==
    LET r == target[a]
        current == resolve_persisted_state(botState[r])
        rejected == \/ runStatus[r] # "RUNNING"
                    \/ "KILL_SWITCH_TRIGGERED" \notin AllowedTransitions[current]
    IN  /\ apiPc[a] = "resolved"
        /\ CanLockForUpdate(a, r)
        /\ lock' = IF rejected THEN lock ELSE [lock EXCEPT ![r] = a]
        /\ apiPc' = [apiPc EXCEPT ![a] = IF rejected THEN "idle" ELSE "locked"]
        /\ UNCHANGED <<nRuns, runStatus, botState, target, workerVars, dbErrors, late, blind>>

ApiCommit(a) ==
    /\ apiPc[a] = "locked"
    /\ botState' = [botState EXCEPT ![target[a]] = "KILL_SWITCH_TRIGGERED"]
    /\ lock' = Release(a)
    /\ apiPc' = [apiPc EXCEPT ![a] = "idle"]
    /\ UNCHANGED <<nRuns, runStatus, target, workerVars, dbErrors, late, blind>>

(* The request fails (500, lost connection): get_db rolls it back, unless the *)
(* server had already applied the commit whose answer was lost.               *)
ApiFails(a) ==
    /\ apiPc[a] # "idle"
    /\ DbError
    /\ \E applied \in BOOLEAN :
          botState' = IF applied /\ apiPc[a] = "locked"
                      THEN [botState EXCEPT ![target[a]] = "KILL_SWITCH_TRIGGERED"]
                      ELSE botState
    /\ lock' = Release(a)
    /\ apiPc' = [apiPc EXCEPT ![a] = "idle"]
    /\ UNCHANGED <<nRuns, runStatus, target, workerVars, late, blind>>
-----------------------------------------------------------------------------
Start(w) ==
    \/ StartRead(w) \/ SelectOrphans(w) \/ CloseOrphans(w)
    \/ InsertRun(w) \/ InsertRejected(w)

SafeMode(w) ==
    \E s \in Stages :
        StageClean(w, s) \/ SafeModeLock(w, s) \/ SafeModeCommit(w, s) \/ SafeModeFails(w, s)

Symbol(w) ==
    \/ SymbolSync(w) \/ SymbolSyncFails(w) \/ PipelineDone(w)
    \/ SymbolAsk(w) \/ SymbolSkipped(w)
    \/ SymbolNoEntry(w) \/ SymbolError(w) \/ SymbolOrder(w)

Loop(w) ==
    \/ LoopSync(w) \/ LoopSyncFails(w) \/ TickMarketData(w) \/ TickRaises(w)
    \/ WaitExpires(w) \/ ShutdownSignal(w) \/ Close(w)

Worker(w) == Start(w) \/ SafeMode(w) \/ Symbol(w) \/ Loop(w) \/ Crash(w)

Api(a) == ApiResolve(a) \/ ApiLock(a) \/ ApiCommit(a) \/ ApiFails(a)

Next == (\E w \in Workers : Worker(w)) \/ (\E a \in Apis : Api(a))

Spec == Init /\ [][Next]_vars

(***************************************************************************)
(* Fairness.  A process that is up keeps executing (GPT, order and HTTP     *)
(* calls all have timeouts), so each step of a started worker is weakly     *)
(* fair; nothing obliges it to be started, signalled or killed, nor the     *)
(* database to fail.  A lock request that is grantable again and again is   *)
(* granted (strong fairness: PostgreSQL wakes the waiter when the blocking  *)
(* transaction ends).                                                       *)
(***************************************************************************)
Progress(w) ==
    \/ SelectOrphans(w) \/ CloseOrphans(w) \/ InsertRun(w) \/ InsertRejected(w)
    \/ LoopSync(w) \/ TickMarketData(w) \/ SafeMode(w) \/ Symbol(w)
    \/ WaitExpires(w) \/ Close(w)

Fairness ==
    /\ \A w \in Workers : WF_vars(Progress(w))
    /\ \A a \in Apis : SF_vars(ApiLock(a)) /\ WF_vars(ApiCommit(a))

FairSpec == Spec /\ Fairness
-----------------------------------------------------------------------------
(* The run in status RUNNING, which POST /kill-switch resolves by default, is *)
(* the newest run, whose state the next start-up carries over: there is never *)
(* a second one (uq_bot_runs_single_running and close_orphan_running).         *)
RunningIsNewest == \A r \in Runs : runStatus[r] = "RUNNING" => r = nRuns

(* No step of any process takes a run out of KILL_SWITCH_TRIGGERED: a health   *)
(* or reconciliation check that saw ACTIVE before the kill switch never        *)
(* overwrites it with SAFE_MODE (the FOR UPDATE lock of trigger).              *)
KillIsFinal ==
    [][\A r \in Runs : botState[r] = "KILL_SWITCH_TRIGGERED"
                          => botState'[r] = "KILL_SWITCH_TRIGGERED"]_vars

(* A run that was closed is a record: no process reopens it, and no kill        *)
(* switch or check that found it open changes its state afterwards (the status  *)
(* trigger() reads under the lock, with populate_existing).                     *)
ClosedRunsFrozen ==
    [][\A r \in 1..nRuns : runStatus[r] # "RUNNING" =>
          runStatus'[r] # "RUNNING" /\ botState'[r] = botState[r]]_vars

(* Once a state that forbids new positions is committed, at most one more      *)
(* order is placed for the run (the symbol already past its check), plus one   *)
(* for each re-read that failed (the fail-open branch of _sync_state_from_db). *)
LateEntriesBounded == \A r \in Runs : late[r] <= 1 + blind[r]

(* The state machine in a worker's memory never holds a restriction the        *)
(* database does not have: trigger() forces it only after its commit, and the  *)
(* start-up writes the carried state in the transaction that creates the run.  *)
MemoryBacked ==
    \A w \in Workers : pc[w] \in LoopPcs =>
        LET persisted == botState[myRun[w]]
        IN  /\ local[w] = "KILL_SWITCH_TRIGGERED" => persisted = "KILL_SWITCH_TRIGGERED"
            /\ local[w] = "SAFE_MODE" => Forbids(persisted)

(* A run that follows a killed run is born killed: restarting the process is   *)
(* not the manual review the kill switch asks for                              *)
(* (orchestrator._resolve_carried_over_state).                                 *)
KillCarriedOver ==
    \A r \in 1..(nRuns - 1) : botState[r] = "KILL_SWITCH_TRIGGERED"
                                 => botState[r + 1] = "KILL_SWITCH_TRIGGERED"

(* The re-read before a symbol does not send the worker into it while a kill-  *)
(* switch request for its run is already waiting for rows the worker itself    *)
(* has left uncommitted: a kill switch that came in before the re-read, during *)
(* an earlier symbol, is seen (cycle_runner._run_decision_pipeline).           *)
KillNotHeldBack ==
    [][\A w \in Workers, a \in Apis :
          SymbolSync(w) /\ pc'[w] = "symbol" /\ apiPc[a] = "resolved" /\ target[a] = myRun[w]
              => share[w] = "none"]_vars

(* A kill-switch request for a run that is not killed yet is answered, or the  *)
(* run is killed by another request: the FOR UPDATE wait ends.                 *)
KillTakesEffect ==
    \A a \in Apis :
        (apiPc[a] = "resolved" /\ botState[target[a]] # "KILL_SWITCH_TRIGGERED")
            ~> (apiPc[a] = "idle" \/ botState[target[a]] = "KILL_SWITCH_TRIGGERED")

(* Every kill-switch request is answered, also the second one for a run (409). *)
KillAnswered == \A a \in Apis : apiPc[a] = "resolved" ~> apiPc[a] = "idle"

(* A worker whose run is killed stops ticking: it pauses with the state in     *)
(* memory, or is down.                                                         *)
KillStopsWorker ==
    \A w \in Workers :
        (pc[w] \in LoopPcs /\ botState[myRun[w]] = "KILL_SWITCH_TRIGGERED")
            ~> (\/ pc[w] \in {"wait", "closing"} /\ local[w] = "KILL_SWITCH_TRIGGERED"
                \/ pc[w] = "down")
-----------------------------------------------------------------------------
(* BotControl implements RunHistory: what the processes do to bot_runs and     *)
(* bot_states, in all their interleavings, amounts to runs that begin, are     *)
(* restricted while they are open and are closed, one atomic step at a time.   *)
History == INSTANCE RunHistory WITH
    Overlap <- StartupOverlap,
    newest <- nRuns,
    status <- [r \in 1..nRuns |-> runStatus[r]],
    state <- [r \in 1..nRuns |-> resolve_persisted_state(botState[r])]
RunHistoryKept == History!Spec
=============================================================================
