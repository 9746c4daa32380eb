-------------------------- MODULE BotControlProofs --------------------------
(***************************************************************************)
(* Proofs about BotControl, for every set of workers and API handlers and   *)
(* every value of the bounds.                                               *)
(*                                                                         *)
(* None of the properties is inductive.  They are proved together with the  *)
(* facts about ownership and locks they rest on, in layers:                 *)
(*   Owned      a process in its loop or in a request has an existing run;  *)
(*   Fresh      a row not created yet has no state;                         *)
(*   Distinct   two workers in their loops never own the same run;          *)
(*   LockHeld   a process between lock and commit holds the row lock, and   *)
(*              the state it decided on is still the committed one.         *)
(* The last part shows that BotControl implements RunHistory, and that a     *)
(* closed run stays as it is.                                               *)
(***************************************************************************)
EXTENDS BotControl, TLAPS

Owned ==
    /\ \A w \in Workers : pc[w] \in LoopPcs => myRun[w] \in 1..nRuns
    /\ \A a \in Apis : apiPc[a] # "idle" => target[a] \in 1..nRuns

Fresh == \A r \in Runs : r > nRuns => botState[r] = "NoRow"

Distinct ==
    \A v, w \in Workers :
        pc[v] \in LoopPcs /\ pc[w] \in LoopPcs /\ v # w => myRun[v] # myRun[w]

LockHeld ==
    /\ \A w \in Workers : pc[w] \in LockedPcs =>
            lock[myRun[w]] = w /\ ~Forbids(botState[myRun[w]])
    /\ \A a \in Apis : apiPc[a] = "locked" => lock[target[a]] = a

(* The strengthening of LateEntriesBounded: nothing is late before the state   *)
(* forbids entries, and a symbol in flight has its order still to come.        *)
LateInv ==
    \A r \in Runs :
        /\ ~Forbids(botState[r]) => late[r] = 0
        /\ late[r] <= 1 + blind[r]
        /\ \A w \in Workers : pc[w] \in {"symbol", "gpt"} /\ myRun[w] = r
                => late[r] <= blind[r]

(* What a start-up knows between its read and its commit. *)
CarriedInMemory ==
    \A w \in Workers : pc[w] \in StartPcs =>
        /\ carried[w] <=> local[w] # "ACTIVE"
        /\ local[w] # "SAFE_MODE"

(* Without requests during start-ups, a start-up's copy of the previous state  *)
(* stays accurate, and a locked request is about the newest run.               *)
Killed(r) == botState[r] = "KILL_SWITCH_TRIGGERED"
CarryInv ==
    /\ KillCarriedOver
    /\ \A w \in Workers : pc[w] \in StartPcs =>
            (local[w] = "KILL_SWITCH_TRIGGERED" <=> nRuns > 0 /\ Killed(nRuns))
    /\ \A w \in Workers, a \in Apis : ~(pc[w] \in StartPcs /\ apiPc[a] # "idle")
    /\ \A a \in Apis : apiPc[a] = "locked" => target[a] = nRuns
-----------------------------------------------------------------------------
(* Counting one more order or failed re-read for a run leaves a counter.       *)
LEMMA CountersGrow ==
    ASSUME NEW f, NEW g, NEW r, f \in [Runs -> Nat],
           g = f \/ g = [f EXCEPT ![r] = f[r] + 1]
    PROVE  g \in [Runs -> Nat]
  OBVIOUS

(* Every step preserves the types, and that a worker in its loop has a run of  *)
(* its own among those created.                                                *)
LEMMA TypeOKStep == TypeOK /\ Owned /\ [Next]_vars => TypeOK' /\ Owned'
<1> SUFFICES ASSUME TypeOK, Owned, [Next]_vars PROVE TypeOK' /\ Owned'
  OBVIOUS
<1> USE BoundsAreNaturals
    DEF TypeOK, Owned, Runs, Procs, BotStates, RunStatus, Pcs, StartPcs, LoopPcs, LockedPcs, ShareModes,
        Stages, dbVars, workerVars, apiVars
<1>1. ASSUME NEW w \in Workers, StartRead(w) PROVE TypeOK' /\ Owned'
  <2>1. CarriedState \in BotStates /\ (CarriedState # "ACTIVE") \in BOOLEAN
    BY DEF CarriedState
  <2>2. QED
    BY <1>1, <2>1 DEF StartRead
<1>2. ASSUME NEW w \in Workers, SelectOrphans(w) PROVE TypeOK' /\ Owned'
  BY <1>2 DEF SelectOrphans
<1>3. ASSUME NEW w \in Workers, CloseOrphans(w) PROVE TypeOK' /\ Owned'
  BY <1>3 DEF CloseOrphans
<1>4. ASSUME NEW w \in Workers, InsertRun(w) PROVE TypeOK' /\ Owned'
  <2>1. nRuns' \in 0..MaxRuns /\ nRuns + 1 \in Runs /\ nRuns' = nRuns + 1
    BY <1>4 DEF InsertRun
  <2>2. runStatus' \in [Runs -> RunStatus] /\ lock' \in [Runs -> Procs \cup {None}]
    BY <1>4 DEF InsertRun, Release
  <2>3. botState' \in [Runs -> BotStates \cup {"NoRow"}]
    BY <1>4, <2>1 DEF InsertRun
  <2>4. myRun' \in [Workers -> 0..MaxRuns] /\ pc' \in [Workers -> Pcs]
    BY <1>4, <2>1 DEF InsertRun
  <2>5. Owned'
    <3>1. myRun'[w] = nRuns + 1 /\ UNCHANGED <<apiPc, target>>
      BY <1>4 DEF InsertRun
    <3>2. \A v \in Workers \ {w} : pc'[v] = pc[v] /\ myRun'[v] = myRun[v]
      BY <1>4 DEF InsertRun
    <3>3. nRuns \in Nat
      OBVIOUS
    <3> HIDE DEF TypeOK, LoopPcs, Runs
    <3>4. \A v \in Workers : pc'[v] \in LoopPcs => myRun'[v] \in 1..nRuns'
      BY <2>1, <3>1, <3>2, <3>3
    <3>5. QED
      BY <2>1, <3>1, <3>3, <3>4
  <2>6. UNCHANGED <<local, carried, orphans, todo, share, apiVars, dbErrors, late, blind>>
    BY <1>4 DEF InsertRun
  <2>7. QED
    BY <2>1, <2>2, <2>3, <2>4, <2>5, <2>6
<1>5. ASSUME NEW w \in Workers, InsertRejected(w) PROVE TypeOK' /\ Owned'
  BY <1>5 DEF InsertRejected, Release
<1>6. ASSUME NEW w \in Workers, LoopSync(w) PROVE TypeOK' /\ Owned'
  <2>1. SyncedState(w) \in BotStates
    BY <1>6 DEF LoopSync, SyncedState
  <2>2. QED
    BY <1>6, <2>1 DEF LoopSync
<1>7. ASSUME NEW w \in Workers, LoopSyncFails(w) PROVE TypeOK' /\ Owned'
  <2>1. pc' \in [Workers -> Pcs] /\ Owned'
    BY <1>7 DEF LoopSyncFails
  <2>2. dbErrors' \in 0..MaxDbErrors /\ share' \in [Workers -> ShareModes]
    BY <1>7 DEF LoopSyncFails, DbError
  <2>3. QED
    BY <1>7, <2>1, <2>2 DEF LoopSyncFails
<1>8. ASSUME NEW w \in Workers, TickMarketData(w) PROVE TypeOK' /\ Owned'
  BY <1>8 DEF TickMarketData
<1>9. ASSUME NEW w \in Workers, TickRaises(w) PROVE TypeOK' /\ Owned'
  BY <1>9 DEF TickRaises
<1>10. ASSUME NEW w \in Workers, SymbolSync(w) PROVE TypeOK' /\ Owned'
  <2>1. SyncedState(w) \in BotStates
    BY <1>10 DEF SymbolSync, SyncedState
  <2>2. AfterSync(SyncedState(w)) \subseteq {"wait", "pipe", "symbol"}
    BY DEF AfterSync
  <2>3. todo[w] - 1 \in 0..NumSymbols
    BY <1>10 DEF SymbolSync
  <2>4. PICK next \in {"wait", "pipe", "symbol"} : pc' = [pc EXCEPT ![w] = next]
    BY <1>10, <2>2 DEF SymbolSync
  <2>5. pc' \in [Workers -> Pcs] /\ Owned'
    BY <1>10, <2>4 DEF SymbolSync
  <2>6. QED
    BY <1>10, <2>1, <2>3, <2>5 DEF SymbolSync
<1>11. ASSUME NEW w \in Workers, SymbolSyncFails(w) PROVE TypeOK' /\ Owned'
  <2>1. AfterSync(local[w]) \subseteq {"wait", "pipe", "symbol"}
    BY DEF AfterSync
  <2>2. todo[w] - 1 \in 0..NumSymbols /\ dbErrors' \in 0..MaxDbErrors
    <3>1. todo[w] \in 0..NumSymbols /\ todo[w] > 0
      BY <1>11 DEF SymbolSyncFails
    <3>2. dbErrors' = dbErrors + 1 /\ dbErrors < MaxDbErrors
      BY <1>11 DEF SymbolSyncFails, DbError
    <3>3. QED
      BY <3>1, <3>2
  <2>3. blind' \in [Runs -> Nat]
    <3>1. \/ blind' = blind
          \/ blind' = [blind EXCEPT ![myRun[w]] = blind[myRun[w]] + 1]
      BY <1>11 DEF SymbolSyncFails
    <3>2. blind \in [Runs -> Nat]
      OBVIOUS
    <3> HIDE DEF TypeOK, Owned, Runs
    <3>3. QED
      BY <3>1, <3>2, CountersGrow
  <2>4. PICK next \in {"wait", "pipe", "symbol"} : pc' = [pc EXCEPT ![w] = next]
    BY <1>11, <2>1 DEF SymbolSyncFails
  <2>5. pc' \in [Workers -> Pcs] /\ Owned'
    BY <1>11, <2>4 DEF SymbolSyncFails
  <2>6. todo' \in [Workers -> 0..NumSymbols] /\ share' \in [Workers -> ShareModes]
    BY <1>11, <2>2 DEF SymbolSyncFails
  <2>7. QED
    BY <1>11, <2>2, <2>3, <2>5, <2>6 DEF SymbolSyncFails
<1>12. ASSUME NEW w \in Workers, PipelineDone(w) PROVE TypeOK' /\ Owned'
  BY <1>12 DEF PipelineDone
<1>13. ASSUME NEW w \in Workers, SymbolAsk(w) PROVE TypeOK' /\ Owned'
  BY <1>13 DEF SymbolAsk
<1>14. ASSUME NEW w \in Workers, SymbolSkipped(w) PROVE TypeOK' /\ Owned'
  BY <1>14 DEF SymbolSkipped
<1>15. ASSUME NEW w \in Workers, SymbolNoEntry(w) PROVE TypeOK' /\ Owned'
  BY <1>15 DEF SymbolNoEntry
<1>16. ASSUME NEW w \in Workers, SymbolError(w) PROVE TypeOK' /\ Owned'
  BY <1>16 DEF SymbolError
<1>17. ASSUME NEW w \in Workers, SymbolOrder(w) PROVE TypeOK' /\ Owned'
  <2>1. late' \in [Runs -> Nat]
    <3>1. \/ late' = late
          \/ late' = [late EXCEPT ![myRun[w]] = late[myRun[w]] + 1]
      BY <1>17 DEF SymbolOrder
    <3>2. late \in [Runs -> Nat]
      OBVIOUS
    <3> HIDE DEF TypeOK, Owned, Runs
    <3>3. QED
      BY <3>1, <3>2, CountersGrow
  <2>2. share' \in [Workers -> ShareModes]
    <3>1. \/ share' = [share EXCEPT ![w] = "none"]
          \/ share' = share
      BY <1>17 DEF SymbolOrder
    <3>2. QED
      BY <3>1
  <2>3. pc' \in [Workers -> Pcs] /\ Owned'
    BY <1>17 DEF SymbolOrder
  <2>4. QED
    BY <1>17, <2>1, <2>2, <2>3 DEF SymbolOrder
<1>18. ASSUME NEW w \in Workers, WaitExpires(w) PROVE TypeOK' /\ Owned'
  BY <1>18 DEF WaitExpires
<1>19. ASSUME NEW w \in Workers, ShutdownSignal(w) PROVE TypeOK' /\ Owned'
  BY <1>19 DEF ShutdownSignal
<1>20. ASSUME NEW w \in Workers, Close(w) PROVE TypeOK' /\ Owned'
  BY <1>20 DEF Close
<1>21. ASSUME NEW w \in Workers, Crash(w) PROVE TypeOK' /\ Owned'
  BY <1>21 DEF Crash, Release
<1>22. ASSUME NEW w \in Workers, NEW s \in Stages, StageClean(w, s) PROVE TypeOK' /\ Owned'
  BY <1>22 DEF StageClean, NextStage
<1>23. ASSUME NEW w \in Workers, NEW s \in Stages, SafeModeLock(w, s) PROVE TypeOK' /\ Owned'
  <2>1. resolve_persisted_state(botState[myRun[w]]) \in BotStates
    BY <1>23 DEF SafeModeLock, resolve_persisted_state
  <2>2. local' \in [Workers -> BotStates]
    BY <1>23, <2>1 DEF SafeModeLock
  <2>3. lock' \in [Runs -> Procs \cup {None}]
    BY <1>23 DEF SafeModeLock
  <2>4. pc' \in [Workers -> Pcs] /\ Owned'
    BY <1>23 DEF SafeModeLock, NextStage, LockedStage
  <2>5. QED
    BY <1>23, <2>2, <2>3, <2>4 DEF SafeModeLock
<1>24. ASSUME NEW w \in Workers, NEW s \in Stages, SafeModeCommit(w, s) PROVE TypeOK' /\ Owned'
  <2>1. lock' \in [Runs -> Procs \cup {None}] /\ pc' \in [Workers -> Pcs] /\ Owned'
    BY <1>24 DEF SafeModeCommit, Release, NextStage, LockedStage
  <2>2. QED
    BY <1>24, <2>1 DEF SafeModeCommit
<1>25. ASSUME NEW w \in Workers, NEW s \in Stages, SafeModeFails(w, s) PROVE TypeOK' /\ Owned'
  <2>1. lock' \in [Runs -> Procs \cup {None}] /\ dbErrors' \in 0..MaxDbErrors
    BY <1>25 DEF SafeModeFails, Release, DbError
  <2>2. pc' \in [Workers -> Pcs] /\ Owned'
    BY <1>25 DEF SafeModeFails, NextStage, LockedStage
  <2>3. botState' \in [Runs -> BotStates \cup {"NoRow"}]
    BY <1>25 DEF SafeModeFails
  <2>4. QED
    BY <1>25, <2>1, <2>2, <2>3 DEF SafeModeFails
<1>26. ASSUME NEW a \in Apis, ApiResolve(a) PROVE TypeOK' /\ Owned'
  <2>1. target' \in [Apis -> Runs \cup {0}] /\ Owned'
    BY <1>26 DEF ApiResolve
  <2>2. QED
    BY <1>26, <2>1 DEF ApiResolve
<1>27. ASSUME NEW a \in Apis, ApiLock(a) PROVE TypeOK' /\ Owned'
  BY <1>27 DEF ApiLock
<1>28. ASSUME NEW a \in Apis, ApiCommit(a) PROVE TypeOK' /\ Owned'
  BY <1>28 DEF ApiCommit, Release
<1>29. ASSUME NEW a \in Apis, ApiFails(a) PROVE TypeOK' /\ Owned'
  <2>1. lock' \in [Runs -> Procs \cup {None}] /\ dbErrors' \in 0..MaxDbErrors
    BY <1>29 DEF ApiFails, Release, DbError
  <2>2. botState' \in [Runs -> BotStates \cup {"NoRow"}]
    BY <1>29 DEF ApiFails
  <2>3. QED
    BY <1>29, <2>1, <2>2 DEF ApiFails
<1>30. CASE UNCHANGED vars
  BY <1>30 DEF vars
<1>31. QED
  BY <1>1, <1>2, <1>3, <1>4, <1>5, <1>6, <1>7, <1>8, <1>9, <1>10, <1>11, <1>12, <1>13, <1>14, <1>15,
     <1>16, <1>17, <1>18, <1>19, <1>20, <1>21, <1>22, <1>23, <1>24, <1>25, <1>26, <1>27, <1>28, <1>29, <1>30, ZenonT(60)
     DEF Next, Worker, Start, SafeMode, Symbol, Loop, Api

(* Every variable of the control plane keeps its type, in every behaviour.     *)
THEOREM TypeCorrect == Spec => []TypeOK
<1>1. Init => TypeOK /\ Owned
  BY BoundsAreNaturals
     DEF Init, TypeOK, Owned, Runs, Procs, BotStates, RunStatus, Pcs, LoopPcs, LockedPcs, ShareModes
<1>2. QED
  BY <1>1, TypeOKStep, PTL DEF Spec
-----------------------------------------------------------------------------
(***************************************************************************)
(* Ownership of runs.  Every step but InsertRun keeps nRuns and myRun, lets *)
(* no worker into its loop, starts no run, and writes only SAFE_MODE or     *)
(* KILL_SWITCH_TRIGGERED, only to existing runs.                            *)
(***************************************************************************)
RunFrame ==
    /\ nRuns' = nRuns
    /\ myRun' = myRun
    /\ \A v \in Workers : pc'[v] \in LoopPcs => pc[v] \in LoopPcs
    /\ \A r \in Runs : runStatus'[r] = runStatus[r] \/ runStatus'[r] = "STOPPED"
    /\ \A r \in Runs : \/ botState'[r] = botState[r]
                        \/ /\ r \in 1..nRuns
                           /\ botState'[r] \in {"SAFE_MODE", "KILL_SWITCH_TRIGGERED"}

(* What a step may do to the runs: nothing but a new run's INSERT adds one, and *)
(* the committed state of an existing run changes only to SAFE_MODE or KILL.   *)
LEMMA RunFrameHolds ==
    ASSUME TypeOK, Owned, [Next]_vars, \A w \in Workers : ~InsertRun(w)
    PROVE  RunFrame
<1> USE BoundsAreNaturals
    DEF TypeOK, Owned, RunFrame, Runs, LoopPcs, LockedPcs, StartPcs, Stages,
        dbVars, workerVars, apiVars
<1>1. ASSUME NEW w \in Workers, Start(w) PROVE RunFrame
  <2>1. UNCHANGED <<nRuns, myRun, runStatus, botState>>
    BY <1>1 DEF Start, StartRead, SelectOrphans, CloseOrphans, InsertRejected
  <2>2. \A v \in Workers : pc'[v] \in LoopPcs => pc[v] \in LoopPcs
    BY <1>1 DEF Start, StartRead, SelectOrphans, CloseOrphans, InsertRejected
  <2>3. QED
    BY <2>1, <2>2
<1>2. ASSUME NEW w \in Workers, SafeMode(w) PROVE RunFrame
  <2> PICK s \in Stages : \/ StageClean(w, s) \/ SafeModeLock(w, s)
                          \/ SafeModeCommit(w, s) \/ SafeModeFails(w, s)
    BY <1>2 DEF SafeMode
  <2>1. CASE StageClean(w, s)
    BY <2>1 DEF StageClean, NextStage
  <2>2. CASE SafeModeLock(w, s)
    BY <2>2 DEF SafeModeLock, NextStage, LockedStage
  <2>3. CASE SafeModeCommit(w, s)
    BY <2>3 DEF SafeModeCommit, NextStage, LockedStage
  <2>4. CASE SafeModeFails(w, s)
    <3>1. /\ UNCHANGED <<nRuns, myRun, runStatus>>
          /\ pc' = [pc EXCEPT ![w] = NextStage(s)]
          /\ pc[w] \in LoopPcs
      BY <2>4 DEF SafeModeFails, LockedStage
    <3>2. \/ botState' = botState
          \/ botState' = [botState EXCEPT ![myRun[w]] = "SAFE_MODE"]
      BY <2>4 DEF SafeModeFails
    <3>3. \A r \in Runs : \/ botState'[r] = botState[r]
                          \/ r \in 1..nRuns /\ botState'[r] = "SAFE_MODE"
      BY <3>1, <3>2
    <3>4. QED
      BY <3>1, <3>3
  <2>5. QED
    BY <2>1, <2>2, <2>3, <2>4
<1>3. ASSUME NEW w \in Workers, Symbol(w) PROVE RunFrame
  BY <1>3 DEF Symbol, SymbolSync, SymbolSyncFails, PipelineDone, SymbolAsk, SymbolSkipped,
              SymbolNoEntry, SymbolError, SymbolOrder
<1>4. ASSUME NEW w \in Workers, Loop(w) PROVE RunFrame
  BY <1>4 DEF Loop, LoopSync, LoopSyncFails, TickMarketData, TickRaises, WaitExpires,
              ShutdownSignal, Close
<1>5. ASSUME NEW w \in Workers, Crash(w) PROVE RunFrame
  BY <1>5 DEF Crash
<1>6. ASSUME NEW a \in Apis, Api(a) PROVE RunFrame
  BY <1>6, ZenonT(60) DEF Api, ApiResolve, ApiLock, ApiCommit, ApiFails
<1>7. CASE UNCHANGED vars
  BY <1>7 DEF vars
<1>8. QED
  BY <1>1, <1>2, <1>3, <1>4, <1>5, <1>6, <1>7 DEF Next, Worker

(* Every step keeps the runs beyond the newest unborn, the workers' runs       *)
(* distinct, and RUNNING a mark of the newest.                                 *)
LEMMA RunsStep ==
    TypeOK /\ Owned /\ Fresh /\ Distinct /\ RunningIsNewest /\ [Next]_vars
        => Fresh' /\ Distinct' /\ RunningIsNewest'
<1> SUFFICES ASSUME TypeOK, Owned, Fresh, Distinct, RunningIsNewest, [Next]_vars
             PROVE  Fresh' /\ Distinct' /\ RunningIsNewest'
  OBVIOUS
<1> USE BoundsAreNaturals DEF TypeOK, Runs
<1>1. CASE \A w \in Workers : ~InsertRun(w)
  <2>1. RunFrame
    BY <1>1, RunFrameHolds
  <2>2. Fresh'
    BY <2>1 DEF RunFrame, Fresh
  <2>3. Distinct'
    BY <2>1 DEF RunFrame, Distinct
  <2>4. RunningIsNewest'
    BY <2>1 DEF RunFrame, RunningIsNewest
  <2>5. QED
    BY <2>2, <2>3, <2>4
<1>2. ASSUME NEW w \in Workers, InsertRun(w) PROVE Fresh' /\ Distinct' /\ RunningIsNewest'
  <2>1. nRuns' = nRuns + 1 /\ nRuns + 1 \in Runs
    BY <1>2 DEF InsertRun
  <2>2. Fresh'
    BY <1>2, <2>1 DEF InsertRun, Fresh
  <2>3. Distinct'
    <3> SUFFICES ASSUME NEW u \in Workers, NEW v \in Workers, u # v,
                        pc'[u] \in LoopPcs, pc'[v] \in LoopPcs
                 PROVE  myRun'[u] # myRun'[v]
      BY DEF Distinct
    <3>1. \A x \in Workers \ {w} : pc'[x] = pc[x] /\ myRun'[x] = myRun[x]
      BY <1>2 DEF InsertRun
    <3>2. myRun'[w] = nRuns + 1
      BY <1>2 DEF InsertRun
    <3>3. \A x \in Workers \ {w} : pc'[x] \in LoopPcs => myRun'[x] \in 1..nRuns
      BY <3>1 DEF Owned
    <3>4. CASE u # w /\ v # w
      BY <3>1, <3>4 DEF Distinct
    <3>5. nRuns + 1 \notin 1..nRuns
      OBVIOUS
    <3>6. CASE u = w
      BY <3>2, <3>3, <3>5, <3>6
    <3>7. CASE v = w
      BY <3>2, <3>3, <3>5, <3>7
    <3>8. QED
      BY <3>4, <3>6, <3>7
  <2>4. RunningIsNewest'
    <3>1. \A r \in Runs \ orphans[w] : runStatus[r] # "RUNNING"
      BY <1>2 DEF InsertRun, UniqueRunningHolds
    <3>2. \A r \in Runs : r # nRuns + 1 => runStatus'[r] # "RUNNING"
      BY <1>2, <3>1 DEF InsertRun
    <3>3. QED
      BY <2>1, <3>2 DEF RunningIsNewest
  <2>5. QED
    BY <2>2, <2>3, <2>4
<1>3. QED
  BY <1>1, <1>2

OwnershipInv == TypeOK /\ Owned /\ Fresh /\ Distinct /\ RunningIsNewest

(* The facts about runs and their owners that the other proofs build on.       *)
LEMMA OwnershipInvariant == Spec => []OwnershipInv
<1>1. Init => OwnershipInv
  BY BoundsAreNaturals
     DEF Init, OwnershipInv, TypeOK, Owned, Fresh, Distinct, RunningIsNewest, Runs, Procs, BotStates,
         RunStatus, Pcs, LoopPcs, LockedPcs, ShareModes
<1>2. OwnershipInv /\ [Next]_vars => OwnershipInv'
  BY TypeOKStep, RunsStep DEF OwnershipInv
<1>3. QED
  BY <1>1, <1>2, PTL DEF Spec

(* Only the newest run is ever RUNNING: orphans are closed and the new run is  *)
(* inserted in one transaction, under the unique index.                        *)
THEOREM OneRunningRun == Spec => []RunningIsNewest
  BY OwnershipInvariant, PTL DEF OwnershipInv
-----------------------------------------------------------------------------
(***************************************************************************)
(* Row locks.                                                               *)
(***************************************************************************)
(* A step of a worker that ends outside the locked points, and changes only    *)
(* locks and states of runs the worker has locked, keeps everyone's locks.     *)
LEMMA LockReleased ==
    ASSUME OwnershipInv, LockHeld, NEW w \in Workers,
           \A v \in Workers : pc'[v] \in LockedPcs =>
                v # w /\ pc[v] \in LockedPcs /\ myRun'[v] = myRun[v],
           \A r \in 1..nRuns : lock[r] # w => lock'[r] = lock[r] /\ botState'[r] = botState[r],
           UNCHANGED <<apiPc, target>>
    PROVE  LockHeld'
<1>1. ASSUME NEW v \in Workers, pc'[v] \in LockedPcs
      PROVE  lock'[myRun'[v]] = v /\ ~Forbids(botState'[myRun'[v]])
  <2>1. v # w /\ myRun[v] \in 1..nRuns /\ lock[myRun[v]] = v /\ ~Forbids(botState[myRun[v]])
    BY <1>1 DEF OwnershipInv, Owned, LockHeld, LoopPcs
  <2>2. QED
    BY <1>1, <2>1
<1>2. ASSUME NEW a \in Apis, apiPc'[a] = "locked" PROVE lock'[target'[a]] = a
  <2>1. target[a] \in 1..nRuns /\ lock[target[a]] = a /\ a # w
    BY <1>2, ProcessesDistinct DEF OwnershipInv, Owned, LockHeld
  <2>2. QED
    BY <1>2, <2>1
<1>3. QED
  BY <1>1, <1>2 DEF LockHeld

(* The end of a request, which changes only locks and states of the runs the   *)
(* request has locked, keeps everyone else's locks.                            *)
LEMMA LockReleasedByApi ==
    ASSUME OwnershipInv, LockHeld, NEW a \in Apis,
           \A b \in Apis : apiPc'[b] = "locked" => b # a /\ apiPc[b] = "locked",
           \A r \in 1..nRuns : lock[r] # a => lock'[r] = lock[r] /\ botState'[r] = botState[r],
           UNCHANGED <<pc, myRun, target>>
    PROVE  LockHeld'
<1>1. ASSUME NEW v \in Workers, pc'[v] \in LockedPcs
      PROVE  lock'[myRun'[v]] = v /\ ~Forbids(botState'[myRun'[v]])
  <2>1. /\ v # a /\ myRun[v] \in 1..nRuns
        /\ lock[myRun[v]] = v /\ ~Forbids(botState[myRun[v]])
    BY <1>1, ProcessesDistinct DEF OwnershipInv, Owned, LockHeld, LoopPcs
  <2>2. QED
    BY <1>1, <2>1
<1>2. ASSUME NEW b \in Apis, apiPc'[b] = "locked" PROVE lock'[target'[b]] = b
  <2>1. target[b] \in 1..nRuns /\ lock[target[b]] = b /\ b # a
    BY <1>2 DEF OwnershipInv, Owned, LockHeld
  <2>2. QED
    BY <1>2, <2>1
<1>3. QED
  BY <1>1, <1>2 DEF LockHeld

(* Every step preserves that a process past its SELECT FOR UPDATE still holds  *)
(* the row lock of its run.                                                    *)
LEMMA LockStep == OwnershipInv /\ LockHeld /\ [Next]_vars => LockHeld'
<1> SUFFICES ASSUME OwnershipInv, LockHeld, [Next]_vars PROVE LockHeld'
  OBVIOUS
<1> USE BoundsAreNaturals, ProcessesDistinct
    DEF OwnershipInv, TypeOK, Owned, LockHeld, Runs, LoopPcs, LockedPcs, StartPcs, Stages,
        dbVars, workerVars, apiVars
<1>1. ASSUME NEW w \in Workers, StartRead(w) \/ SelectOrphans(w) PROVE LockHeld'
  <2>1. UNCHANGED <<lock, botState, myRun, apiPc, target>>
    BY <1>1 DEF StartRead, SelectOrphans
  <2>2. \A v \in Workers : pc'[v] \in LockedPcs => pc[v] \in LockedPcs
    BY <1>1 DEF StartRead, SelectOrphans
  <2>3. QED
    BY <2>1, <2>2
<1>2. ASSUME NEW w \in Workers, CloseOrphans(w) PROVE LockHeld'
  <2>1. UNCHANGED <<botState, myRun, apiPc, target>>
    BY <1>2 DEF CloseOrphans
  <2>2. \A v \in Workers : pc'[v] \in LockedPcs => pc[v] \in LockedPcs
    BY <1>2 DEF CloseOrphans
  <2>3. \A r \in Runs : lock[r] # None => lock'[r] = lock[r]
    BY <1>2 DEF CloseOrphans, CanLockForNoKeyUpdate
  <2>4. /\ \A v \in Workers : pc[v] \in LockedPcs => myRun[v] \in Runs /\ v # None
        /\ \A a \in Apis : apiPc[a] = "locked" => target[a] \in Runs /\ a # None
    OBVIOUS
  <2> HIDE DEF OwnershipInv, TypeOK, Owned, LoopPcs, LockedPcs, Runs
  <2>5. QED
    BY <2>1, <2>2, <2>3, <2>4
<1>3. ASSUME NEW w \in Workers, InsertRun(w) PROVE LockHeld'
  <2>1. \A v \in Workers : pc'[v] \in LockedPcs =>
            v # w /\ pc[v] \in LockedPcs /\ myRun'[v] = myRun[v]
    BY <1>3 DEF InsertRun
  <2>2. \A r \in 1..nRuns : lock[r] # w => lock'[r] = lock[r] /\ botState'[r] = botState[r]
    BY <1>3 DEF InsertRun, Release
  <2>3. UNCHANGED <<apiPc, target>>
    BY <1>3 DEF InsertRun
  <2> HIDE DEF OwnershipInv, TypeOK, Owned, LockHeld, LoopPcs, LockedPcs, Runs
  <2>4. QED
    BY <2>1, <2>2, <2>3, LockReleased
<1>4. ASSUME NEW w \in Workers, InsertRejected(w) PROVE LockHeld'
  <2>1. \A v \in Workers : pc'[v] \in LockedPcs =>
            v # w /\ pc[v] \in LockedPcs /\ myRun'[v] = myRun[v]
    BY <1>4 DEF InsertRejected
  <2>2. \A r \in 1..nRuns : lock[r] # w => lock'[r] = lock[r] /\ botState'[r] = botState[r]
    BY <1>4 DEF InsertRejected, Release
  <2>3. UNCHANGED <<apiPc, target>>
    BY <1>4 DEF InsertRejected
  <2> HIDE DEF OwnershipInv, TypeOK, Owned, LockHeld, LoopPcs, LockedPcs, Runs
  <2>4. QED
    BY <2>1, <2>2, <2>3, LockReleased
<1>5. ASSUME NEW w \in Workers, NEW s \in Stages, StageClean(w, s) PROVE LockHeld'
  BY <1>5 DEF StageClean, NextStage
<1>6. ASSUME NEW w \in Workers, NEW s \in Stages, SafeModeLock(w, s) PROVE LockHeld'
  <2> DEFINE r == myRun[w]
  <2>1. r \in Runs /\ lock[r] = None /\ UNCHANGED <<botState, myRun, apiPc, target>>
    <3>1. r \in Runs
      BY <1>6 DEF SafeModeLock
    <3>2. QED
      BY <1>6, <3>1 DEF SafeModeLock, CanLockForUpdate
  <2>2. CASE lock' = lock /\ pc' = [pc EXCEPT ![w] = NextStage(s)]
    BY <2>1, <2>2 DEF NextStage
  <2>3. CASE /\ lock' = [lock EXCEPT ![r] = w]
             /\ pc' = [pc EXCEPT ![w] = LockedStage(s)]
             /\ resolve_persisted_state(botState[r]) = "ACTIVE"
    <3>1. ~Forbids(botState[r])
      BY <2>3 DEF Forbids, can_trade
    <3>2. \A v \in Workers \ {w} : pc'[v] = pc[v]
      BY <2>3
    <3>3. \A q \in Runs : q # r => lock'[q] = lock[q]
      BY <2>3
    <3>4. \A v \in Workers : pc'[v] \in LockedPcs =>
              lock'[myRun'[v]] = v /\ ~Forbids(botState'[myRun'[v]])
      BY <2>1, <2>3, <3>1, <3>2, <3>3
    <3>5. \A a \in Apis : apiPc'[a] = "locked" => lock'[target'[a]] = a
      BY <2>1, <3>3, SMTT(30)
    <3>6. QED
      BY <3>4, <3>5
  <2>4. QED
    BY <1>6, <2>2, <2>3 DEF SafeModeLock
<1>7. ASSUME NEW w \in Workers, NEW s \in Stages, SafeModeCommit(w, s) PROVE LockHeld'
  <2>1. \A v \in Workers : pc'[v] \in LockedPcs =>
            v # w /\ pc[v] \in LockedPcs /\ myRun'[v] = myRun[v]
    BY <1>7 DEF SafeModeCommit, NextStage
  <2>2. \A r \in 1..nRuns : lock[r] # w => lock'[r] = lock[r] /\ botState'[r] = botState[r]
    BY <1>7 DEF SafeModeCommit, Release, LockedStage
  <2>3. UNCHANGED <<apiPc, target>>
    BY <1>7 DEF SafeModeCommit
  <2> HIDE DEF OwnershipInv, TypeOK, Owned, LockHeld, LoopPcs, LockedPcs, Runs
  <2>4. QED
    BY <2>1, <2>2, <2>3, LockReleased
<1>8. ASSUME NEW w \in Workers, NEW s \in Stages, SafeModeFails(w, s) PROVE LockHeld'
  <2>1. \A v \in Workers : pc'[v] \in LockedPcs =>
            v # w /\ pc[v] \in LockedPcs /\ myRun'[v] = myRun[v]
    BY <1>8 DEF SafeModeFails, NextStage
  <2>2. \A r \in 1..nRuns : lock[r] # w => lock'[r] = lock[r] /\ botState'[r] = botState[r]
    BY <1>8 DEF SafeModeFails, Release, LockedStage
  <2>3. UNCHANGED <<apiPc, target>>
    BY <1>8 DEF SafeModeFails
  <2> HIDE DEF OwnershipInv, TypeOK, Owned, LockHeld, LoopPcs, LockedPcs, Runs
  <2>4. QED
    BY <2>1, <2>2, <2>3, LockReleased
<1>9. ASSUME NEW w \in Workers, Symbol(w) PROVE LockHeld'
  <2>1. UNCHANGED <<lock, botState, myRun, apiPc, target>>
    BY <1>9 DEF Symbol, SymbolSync, SymbolSyncFails, PipelineDone, SymbolAsk, SymbolSkipped,
                SymbolNoEntry, SymbolError, SymbolOrder
  <2>2. \E next \in Pcs \ LockedPcs : pc' = [pc EXCEPT ![w] = next]
    BY <1>9 DEF Symbol, SymbolSync, SymbolSyncFails, PipelineDone, SymbolAsk, SymbolSkipped,
                SymbolNoEntry, SymbolError, SymbolOrder, AfterSync, Pcs
  <2>3. QED
    BY <2>1, <2>2
<1>10. ASSUME NEW w \in Workers, Loop(w) PROVE LockHeld'
  <2>1. UNCHANGED <<lock, botState, myRun, apiPc, target>>
    BY <1>10 DEF Loop, LoopSync, LoopSyncFails, TickMarketData, TickRaises, WaitExpires,
                 ShutdownSignal, Close
  <2>2. \E next \in Pcs \ LockedPcs : pc' = [pc EXCEPT ![w] = next]
    BY <1>10 DEF Loop, LoopSync, LoopSyncFails, TickMarketData, TickRaises, WaitExpires,
                 ShutdownSignal, Close, Pcs
  <2>3. QED
    BY <2>1, <2>2
<1>11. ASSUME NEW w \in Workers, Crash(w) PROVE LockHeld'
  <2>1. \A v \in Workers : pc'[v] \in LockedPcs =>
            v # w /\ pc[v] \in LockedPcs /\ myRun'[v] = myRun[v]
    BY <1>11 DEF Crash
  <2>2. \A r \in 1..nRuns : lock[r] # w => lock'[r] = lock[r] /\ botState'[r] = botState[r]
    BY <1>11 DEF Crash, Release
  <2>3. UNCHANGED <<apiPc, target>>
    BY <1>11 DEF Crash
  <2> HIDE DEF OwnershipInv, TypeOK, Owned, LockHeld, LoopPcs, LockedPcs, Runs
  <2>4. QED
    BY <2>1, <2>2, <2>3, LockReleased
<1>12. ASSUME NEW a \in Apis, ApiResolve(a) PROVE LockHeld'
  BY <1>12 DEF ApiResolve
<1>13. ASSUME NEW a \in Apis, ApiLock(a) PROVE LockHeld'
  BY <1>13 DEF ApiLock, CanLockForUpdate
<1>14. ASSUME NEW a \in Apis, ApiCommit(a) PROVE LockHeld'
  <2>1. \A b \in Apis : apiPc'[b] = "locked" => b # a /\ apiPc[b] = "locked"
    BY <1>14 DEF ApiCommit
  <2>2. \A r \in 1..nRuns : lock[r] # a => lock'[r] = lock[r]
    BY <1>14 DEF ApiCommit, Release
  <2>3. \A r \in 1..nRuns : lock[r] # a => botState'[r] = botState[r]
    BY <1>14 DEF ApiCommit
  <2>4. UNCHANGED <<pc, myRun, target>>
    BY <1>14 DEF ApiCommit
  <2> HIDE DEF OwnershipInv, TypeOK, Owned, LockHeld, Runs
  <2>5. QED
    BY <2>1, <2>2, <2>3, <2>4, LockReleasedByApi
<1>15. ASSUME NEW a \in Apis, ApiFails(a) PROVE LockHeld'
  <2>1. \A b \in Apis : apiPc'[b] = "locked" => b # a /\ apiPc[b] = "locked"
    BY <1>15 DEF ApiFails
  <2>2. \A r \in 1..nRuns : lock[r] # a => lock'[r] = lock[r]
    BY <1>15 DEF ApiFails, Release
  <2>3. \A r \in 1..nRuns : lock[r] # a => botState'[r] = botState[r]
    BY <1>15 DEF ApiFails
  <2>4. UNCHANGED <<pc, myRun, target>>
    BY <1>15 DEF ApiFails
  <2> HIDE DEF OwnershipInv, TypeOK, Owned, LockHeld, Runs
  <2>5. QED
    BY <2>1, <2>2, <2>3, <2>4, LockReleasedByApi
<1>16. CASE UNCHANGED vars
  BY <1>16 DEF vars
<1>17. QED
  BY <1>1, <1>2, <1>3, <1>4, <1>5, <1>6, <1>7, <1>8, <1>9, <1>10, <1>11, <1>12, <1>13, <1>14,
     <1>15, <1>16
     DEF Next, Worker, Start, SafeMode, Api

LockInv == OwnershipInv /\ LockHeld

(* In every behaviour, a process that is about to write a state holds the lock. *)
LEMMA LockInvariant == Spec => []LockInv
<1>1. Init => LockHeld
  BY DEF Init, LockHeld, LockedPcs
<1>2. LockInv /\ [Next]_vars => LockHeld'
  BY LockStep DEF LockInv
<1>3. QED
  BY <1>1, <1>2, OwnershipInvariant, PTL DEF Spec, LockInv
-----------------------------------------------------------------------------
(***************************************************************************)
(* Persisted states only get stricter.                                      *)
(***************************************************************************)
Tighter ==
    \A r \in Runs :
        /\ Killed(r) => botState'[r] = "KILL_SWITCH_TRIGGERED"
        /\ Forbids(botState[r]) => Forbids(botState'[r])

(* Committed states only get stricter: a killed run stays killed, a run that   *)
(* forbids entries goes on forbidding them.                                    *)
LEMMA StatesTighten == LockInv /\ [Next]_vars => Tighter
<1> SUFFICES ASSUME LockInv, [Next]_vars PROVE Tighter
  OBVIOUS
<1> USE BoundsAreNaturals DEF LockInv, OwnershipInv, TypeOK, Tighter, Killed, Runs,
                              Forbids, can_trade, resolve_persisted_state
<1>1. ASSUME NEW w \in Workers, InsertRun(w) PROVE Tighter
  BY <1>1 DEF InsertRun, Fresh
<1>2. ASSUME NEW w \in Workers, NEW s \in Stages, SafeModeCommit(w, s) \/ SafeModeFails(w, s)
      PROVE  Tighter
  <2>1. CASE pc[w] = LockedStage(s)
    <3>1. ~Forbids(botState[myRun[w]])
      BY <2>1 DEF LockHeld, LockedStage, LockedPcs
    <3>2. QED
      BY <1>2, <3>1 DEF SafeModeCommit, SafeModeFails
  <2>2. CASE pc[w] # LockedStage(s)
    BY <1>2, <2>2 DEF SafeModeCommit, SafeModeFails
  <2>3. QED
    BY <2>1, <2>2
<1>3. ASSUME NEW a \in Apis, ApiCommit(a) \/ ApiFails(a) PROVE Tighter
  BY <1>3 DEF ApiCommit, ApiFails
<1>4. CASE UNCHANGED botState
  BY <1>4
<1>5. ASSUME NEW w \in Workers, Start(w) PROVE Tighter
  BY <1>1, <1>4, <1>5 DEF Start, StartRead, SelectOrphans, CloseOrphans, InsertRejected, dbVars
<1>6. ASSUME NEW w \in Workers, SafeMode(w) PROVE Tighter
  <2> PICK s \in Stages : \/ StageClean(w, s) \/ SafeModeLock(w, s)
                          \/ SafeModeCommit(w, s) \/ SafeModeFails(w, s)
    BY <1>6 DEF SafeMode
  <2>1. CASE StageClean(w, s) \/ SafeModeLock(w, s)
    <3>1. UNCHANGED botState
      BY <2>1 DEF StageClean, SafeModeLock, dbVars
    <3>2. QED
      BY <1>4, <3>1
  <2>2. QED
    BY <1>2, <2>1
<1>7. ASSUME NEW w \in Workers, Symbol(w) \/ Loop(w) \/ Crash(w) PROVE Tighter
  <2>1. UNCHANGED botState
    BY <1>7 DEF Symbol, Loop, dbVars, SymbolSync, SymbolSyncFails, PipelineDone, SymbolAsk,
                SymbolSkipped, SymbolNoEntry, SymbolError, SymbolOrder, LoopSync, LoopSyncFails,
                TickMarketData, TickRaises, WaitExpires, ShutdownSignal, Close, Crash
  <2>2. QED
    BY <1>4, <2>1
<1>8. ASSUME NEW a \in Apis, Api(a) PROVE Tighter
  BY <1>3, <1>4, <1>8 DEF Api, ApiResolve, ApiLock, dbVars
<1>9. CASE UNCHANGED vars
  BY <1>4, <1>9 DEF vars, dbVars
<1>10. QED
  BY <1>5, <1>6, <1>7, <1>8, <1>9 DEF Next, Worker

(* No step, of any process, takes a run out of KILL_SWITCH_TRIGGERED: the read, *)
(* the check and the write of trigger() happen under one row lock.             *)
THEOREM KillSwitchIsFinal == Spec => KillIsFinal
<1>1. LockInv /\ [Next]_vars =>
        [\A r \in Runs : botState[r] = "KILL_SWITCH_TRIGGERED"
                           => botState'[r] = "KILL_SWITCH_TRIGGERED"]_vars
  BY StatesTighten DEF Tighter, Killed
<1>2. QED
  BY <1>1, LockInvariant, PTL DEF Spec, KillIsFinal
-----------------------------------------------------------------------------
(***************************************************************************)
(* Orders after the state forbids them.                                     *)
(***************************************************************************)
InFlight(w) == pc[w] \in {"symbol", "gpt"}

(* A step that places no order, fails no re-read and lets no symbol past its   *)
(* check keeps LateInv.                                                        *)
LEMMA LateFrame ==
    ASSUME TypeOK, LateInv, Tighter, UNCHANGED <<late, blind>>,
           \A v \in Workers : pc'[v] \in {"symbol", "gpt"} => InFlight(v) /\ myRun'[v] = myRun[v]
    PROVE  LateInv'
<1> SUFFICES ASSUME NEW r \in Runs
             PROVE  /\ ~Forbids(botState'[r]) => late'[r] = 0
                    /\ late'[r] <= 1 + blind'[r]
                    /\ \A w \in Workers : pc'[w] \in {"symbol", "gpt"} /\ myRun'[w] = r
                            => late'[r] <= blind'[r]
  BY DEF LateInv
<1>1. ~Forbids(botState'[r]) => ~Forbids(botState[r])
  BY DEF Tighter
<1>2. QED
  BY <1>1 DEF LateInv, InFlight

(* Every step keeps the count of late orders within what the symbol past its   *)
(* check and the failed re-reads allow.                                        *)
LEMMA LateStep == LockInv /\ LateInv /\ [Next]_vars => LateInv'
<1> SUFFICES ASSUME LockInv, LateInv, [Next]_vars PROVE LateInv'
  OBVIOUS
<1>1. Tighter
  BY StatesTighten
<1> USE DEF LockInv, OwnershipInv
<1>2. ASSUME NEW w \in Workers, Start(w) \/ Loop(w) \/ Crash(w) PROVE LateInv'
  <2>1. UNCHANGED <<late, blind>>
    BY <1>2 DEF Start, Loop, Crash, StartRead, SelectOrphans, CloseOrphans, InsertRun,
                InsertRejected, LoopSync, LoopSyncFails, TickMarketData, TickRaises,
                WaitExpires, ShutdownSignal, Close
  <2>2. \A v \in Workers : pc'[v] \in {"symbol", "gpt"} => InFlight(v) /\ myRun'[v] = myRun[v]
    BY <1>2 DEF Start, Loop, Crash, StartRead, SelectOrphans, CloseOrphans, InsertRun,
                InsertRejected, LoopSync, LoopSyncFails, TickMarketData, TickRaises,
                WaitExpires, ShutdownSignal, Close, InFlight, TypeOK
  <2>3. QED
    BY <1>1, <2>1, <2>2, LateFrame
<1>3. ASSUME NEW w \in Workers, SafeMode(w) PROVE LateInv'
  <2>1. UNCHANGED <<late, blind, myRun>>
    BY <1>3 DEF SafeMode, StageClean, SafeModeLock, SafeModeCommit, SafeModeFails
  <2>2. \A v \in Workers : pc'[v] \in {"symbol", "gpt"} => InFlight(v)
    BY <1>3 DEF SafeMode, StageClean, SafeModeLock, SafeModeCommit, SafeModeFails, NextStage,
                LockedStage, InFlight, TypeOK
  <2>3. QED
    BY <1>1, <2>1, <2>2, LateFrame
<1>4. ASSUME NEW a \in Apis, Api(a) PROVE LateInv'
  <2>1. UNCHANGED <<late, blind, pc, myRun>>
    BY <1>4 DEF Api, ApiResolve, ApiLock, ApiCommit, ApiFails, workerVars
  <2>2. QED
    BY <1>1, <2>1, LateFrame DEF InFlight
<1>5. ASSUME NEW w \in Workers,
             \/ PipelineDone(w) \/ SymbolAsk(w) \/ SymbolSkipped(w)
             \/ SymbolNoEntry(w) \/ SymbolError(w)
      PROVE  LateInv'
  <2>1. UNCHANGED <<late, blind, myRun>>
    BY <1>5 DEF PipelineDone, SymbolAsk, SymbolSkipped, SymbolNoEntry, SymbolError
  <2>2. \A v \in Workers : pc'[v] \in {"symbol", "gpt"} => InFlight(v)
    BY <1>5 DEF PipelineDone, SymbolAsk, SymbolSkipped, SymbolNoEntry, SymbolError, InFlight, TypeOK
  <2>3. QED
    BY <1>1, <2>1, <2>2, LateFrame
\* The check sends a symbol on only when the committed state allows entries.
<1>6. ASSUME NEW w \in Workers, SymbolSync(w) PROVE LateInv'
  <2>1. UNCHANGED <<late, blind, myRun, botState>> /\ myRun[w] \in Runs
    BY <1>6, BoundsAreNaturals DEF SymbolSync, dbVars, Owned, LoopPcs, TypeOK, Runs
  <2>2. pc'[w] = "symbol" => ~Forbids(botState[myRun[w]])
    BY <1>6 DEF SymbolSync, SyncedState, AfterSync, Forbids, can_trade, resolve_persisted_state,
                TypeOK
  <2>3. pc'[w] # "gpt" /\ \A v \in Workers : v # w => pc'[v] = pc[v]
    BY <1>6 DEF SymbolSync, AfterSync, TypeOK
  <2>4. QED
    BY <2>1, <2>2, <2>3 DEF LateInv, TypeOK
\* A failed re-read is charged to blind before the symbol goes on.
<1>7. ASSUME NEW w \in Workers, SymbolSyncFails(w) PROVE LateInv'
  <2> DEFINE r0 == myRun[w]
  <2>1. UNCHANGED <<late, myRun, botState>> /\ r0 \in Runs
    BY <1>7, BoundsAreNaturals DEF SymbolSyncFails, dbVars, Owned, LoopPcs, TypeOK, Runs
  <2>2. blind' = IF Forbids(botState[r0]) THEN [blind EXCEPT ![r0] = blind[r0] + 1] ELSE blind
    BY <1>7 DEF SymbolSyncFails
  <2>3. \A v \in Workers : v # w => pc'[v] = pc[v]
    BY <1>7 DEF SymbolSyncFails, TypeOK
  <2>4. QED
    BY <2>1, <2>2, <2>3 DEF LateInv, TypeOK
\* The order of the one symbol in flight: no other worker owns the run.
<1>8. ASSUME NEW w \in Workers, SymbolOrder(w) PROVE LateInv'
  <2> DEFINE r0 == myRun[w]
  <2>1. UNCHANGED <<blind, myRun, botState>> /\ r0 \in Runs /\ pc[w] = "gpt"
    BY <1>8, BoundsAreNaturals DEF SymbolOrder, dbVars, Owned, LoopPcs, TypeOK, Runs
  <2>2. late' = IF Forbids(botState[r0]) THEN [late EXCEPT ![r0] = late[r0] + 1] ELSE late
    BY <1>8 DEF SymbolOrder
  <2>3. pc'[w] = "pipe" /\ \A v \in Workers : v # w => pc'[v] = pc[v]
    BY <1>8 DEF SymbolOrder, TypeOK
  <2>4. \A v \in Workers : pc'[v] \in {"symbol", "gpt"} => myRun'[v] # r0
    BY <2>1, <2>3 DEF Distinct, LoopPcs
  <2>5. QED
    BY <2>1, <2>2, <2>3, <2>4 DEF LateInv, TypeOK
<1>9. CASE UNCHANGED vars
  <2>1. UNCHANGED <<late, blind, pc, myRun>>
    BY <1>9 DEF vars, workerVars
  <2>2. QED
    BY <1>1, <2>1, LateFrame DEF InFlight
<1>10. QED
  BY <1>2, <1>3, <1>4, <1>5, <1>6, <1>7, <1>8, <1>9 DEF Next, Worker, Symbol

(* After a state that forbids entries is committed, at most one order is placed *)
(* for the run, and one for each re-read of the state that failed.             *)
THEOREM LateEntries == Spec => []LateEntriesBounded
<1>1. Init => LateInv
  BY DEF Init, LateInv, Runs
<1>2. LockInv /\ LateInv /\ [Next]_vars => LateInv'
  BY LateStep
<1>3. LateInv => LateEntriesBounded
  BY DEF LateInv, LateEntriesBounded
<1>4. QED
  BY <1>1, <1>2, <1>3, LockInvariant, PTL DEF Spec
-----------------------------------------------------------------------------
(***************************************************************************)
(* The state in a worker's memory against the committed one.                *)
(***************************************************************************)
Backed(mem, persisted) ==
    /\ mem = "KILL_SWITCH_TRIGGERED" => persisted = "KILL_SWITCH_TRIGGERED"
    /\ mem = "SAFE_MODE" => Forbids(persisted)

(* What is left alone stays backed, since committed states only get stricter. *)
LEMMA BackedFrame ==
    ASSUME LockInv, MemoryBacked, Tighter, NEW v \in Workers,
           pc[v] \in LoopPcs, local'[v] = local[v], myRun'[v] = myRun[v]
    PROVE  Backed(local'[v], botState'[myRun'[v]])
<1>1. myRun[v] \in Runs
  BY BoundsAreNaturals DEF LockInv, OwnershipInv, Owned, TypeOK, Runs
<1>2. QED
  BY <1>1 DEF MemoryBacked, Tighter, Killed, Backed

(* Every step of a worker that takes a restriction into memory takes one that  *)
(* is committed; the carried state is committed with the run.                  *)
LEMMA MemoryStep ==
    LockInv /\ CarriedInMemory /\ MemoryBacked /\ [Next]_vars => CarriedInMemory' /\ MemoryBacked'
<1> SUFFICES ASSUME LockInv, CarriedInMemory, MemoryBacked, [Next]_vars
             PROVE  CarriedInMemory' /\ MemoryBacked'
  OBVIOUS
<1>1. Tighter
  BY StatesTighten
<1> USE DEF LockInv, OwnershipInv, TypeOK
\* Nobody but w moves, and what w does is one of the cases below.
<1>2. ASSUME NEW w \in Workers,
             \A v \in Workers : v # w =>
                UNCHANGED <<pc[v], local[v], carried[v], myRun[v]>>,
             pc'[w] \in StartPcs =>
                (carried'[w] <=> local'[w] # "ACTIVE") /\ local'[w] # "SAFE_MODE",
             pc'[w] \in LoopPcs => Backed(local'[w], botState'[myRun'[w]])
      PROVE  CarriedInMemory' /\ MemoryBacked'
  <2>1. CarriedInMemory'
    BY <1>2 DEF CarriedInMemory
  <2>2. ASSUME NEW v \in Workers, pc'[v] \in LoopPcs
        PROVE  Backed(local'[v], botState'[myRun'[v]])
    BY <1>1, <1>2, <2>2, BackedFrame
  <2>3. QED
    BY <2>1, <2>2 DEF MemoryBacked, Backed
<1>3. ASSUME NEW w \in Workers, StartRead(w) PROVE CarriedInMemory' /\ MemoryBacked'
  <2>1. CarriedState # "SAFE_MODE"
    BY DEF CarriedState, is_running
  <2>2. QED
    BY <1>2, <1>3, <2>1 DEF StartRead, StartPcs, LoopPcs, LockedPcs, dbVars
<1>4. ASSUME NEW w \in Workers, SelectOrphans(w) \/ CloseOrphans(w) \/ InsertRejected(w)
      PROVE  CarriedInMemory' /\ MemoryBacked'
  BY <1>2, <1>4 DEF SelectOrphans, CloseOrphans, InsertRejected, StartPcs, LoopPcs, LockedPcs,
                    CarriedInMemory
\* The carried state is written by the transaction that creates the run.
<1>5. ASSUME NEW w \in Workers, InsertRun(w) PROVE CarriedInMemory' /\ MemoryBacked'
  <2>1. /\ pc[w] \in StartPcs
        /\ nRuns + 1 \in Runs
        /\ myRun'[w] = nRuns + 1
        /\ local'[w] = local[w]
        /\ botState'[nRuns + 1] = IF carried[w] THEN local[w] ELSE "NoRow"
    BY <1>5, BoundsAreNaturals DEF InsertRun, StartPcs, Runs
  <2>2. Backed(local'[w], botState'[myRun'[w]])
    BY <2>1 DEF Backed, CarriedInMemory
  <2>3. pc'[w] = "loop" /\ \A v \in Workers : v # w =>
                UNCHANGED <<pc[v], local[v], carried[v], myRun[v]>>
    BY <1>5 DEF InsertRun
  <2>4. QED
    BY <1>2, <2>2, <2>3 DEF StartPcs
<1>6. ASSUME NEW w \in Workers, LoopSync(w) \/ SymbolSync(w)
      PROVE  CarriedInMemory' /\ MemoryBacked'
  <2>1. UNCHANGED <<botState, myRun, carried>> /\ local' = [local EXCEPT ![w] = SyncedState(w)]
    BY <1>6 DEF LoopSync, SymbolSync, dbVars
  <2>2. \A v \in Workers : v # w => pc'[v] = pc[v]
    BY <1>6 DEF LoopSync, SymbolSync
  <2>3. pc[w] \in LoopPcs /\ pc'[w] \notin StartPcs
    BY <1>6 DEF LoopSync, SymbolSync, LoopPcs, StartPcs, AfterSync
  <2>4. Backed(local'[w], botState'[myRun'[w]])
    BY <2>1, <2>3 DEF SyncedState, Backed, MemoryBacked, Forbids, can_trade,
                      resolve_persisted_state
  <2>5. QED
    BY <1>2, <2>1, <2>2, <2>3, <2>4
<1>7. ASSUME NEW w \in Workers, NEW s \in Stages, SafeModeLock(w, s)
      PROVE  CarriedInMemory' /\ MemoryBacked'
  <2> DEFINE current == resolve_persisted_state(botState[myRun[w]])
  <2>1. UNCHANGED <<botState, myRun, carried>>
    BY <1>7 DEF SafeModeLock
  <2>2. \A v \in Workers : v # w => pc'[v] = pc[v] /\ local'[v] = local[v]
    BY <1>7 DEF SafeModeLock
  <2>3. pc[w] \in LoopPcs /\ pc'[w] \notin StartPcs
    BY <1>7 DEF SafeModeLock, LoopPcs, StartPcs, NextStage, LockedStage, Stages
  <2>4. local'[w] \in {"ACTIVE", current}
    BY <1>7 DEF SafeModeLock
  <2>5. Backed(local'[w], botState'[myRun'[w]])
    BY <2>1, <2>4 DEF Backed, Forbids, can_trade, resolve_persisted_state
  <2>6. QED
    BY <1>2, <2>1, <2>2, <2>3, <2>5
<1>8. ASSUME NEW w \in Workers, NEW s \in Stages, SafeModeCommit(w, s)
      PROVE  CarriedInMemory' /\ MemoryBacked'
  <2>1. myRun[w] \in Runs /\ pc'[w] \notin StartPcs
    BY <1>8, BoundsAreNaturals DEF SafeModeCommit, LockedStage, NextStage, LoopPcs, LockedPcs,
                                   StartPcs, Owned, Runs, Stages
  <2>2. Backed(local'[w], botState'[myRun'[w]])
    BY <1>8, <2>1 DEF SafeModeCommit, Backed, Forbids, can_trade, resolve_persisted_state
  <2>3. \A v \in Workers : v # w => UNCHANGED <<pc[v], local[v], carried[v], myRun[v]>>
    BY <1>8 DEF SafeModeCommit
  <2>4. QED
    BY <1>2, <2>1, <2>2, <2>3
\* The other steps of a worker change neither its memory nor its run.
<1>9. ASSUME NEW w \in Workers, UNCHANGED <<local, carried, myRun>>, pc'[w] \notin StartPcs,
             pc'[w] \in LoopPcs => pc[w] \in LoopPcs,
             \A v \in Workers : v # w => pc'[v] = pc[v]
      PROVE  CarriedInMemory' /\ MemoryBacked'
  BY <1>1, <1>2, <1>9, BackedFrame
<1>10. ASSUME NEW w \in Workers, NEW s \in Stages, StageClean(w, s) \/ SafeModeFails(w, s)
       PROVE  CarriedInMemory' /\ MemoryBacked'
  BY <1>9, <1>10 DEF StageClean, SafeModeFails, NextStage, LockedStage, Stages, StartPcs, LoopPcs,
                     LockedPcs
<1>11. ASSUME NEW w \in Workers,
              \/ SymbolSyncFails(w) \/ PipelineDone(w) \/ SymbolAsk(w) \/ SymbolSkipped(w)
              \/ SymbolNoEntry(w) \/ SymbolError(w) \/ SymbolOrder(w)
       PROVE  CarriedInMemory' /\ MemoryBacked'
  BY <1>9, <1>11 DEF SymbolSyncFails, AfterSync, PipelineDone, SymbolAsk, SymbolSkipped,
                     SymbolNoEntry, SymbolError, SymbolOrder, StartPcs, LoopPcs
<1>12. ASSUME NEW w \in Workers,
              \/ LoopSyncFails(w) \/ TickMarketData(w) \/ TickRaises(w) \/ WaitExpires(w)
              \/ ShutdownSignal(w) \/ Close(w) \/ Crash(w)
       PROVE  CarriedInMemory' /\ MemoryBacked'
  BY <1>9, <1>12 DEF LoopSyncFails, TickMarketData, TickRaises, WaitExpires, ShutdownSignal,
                     Close, Crash, StartPcs, LoopPcs, LockedPcs
<1>13. CASE UNCHANGED workerVars
  <2>1. CarriedInMemory'
    BY <1>13 DEF workerVars, CarriedInMemory
  <2>2. ASSUME NEW v \in Workers, pc'[v] \in LoopPcs
        PROVE  Backed(local'[v], botState'[myRun'[v]])
    BY <1>1, <1>13, <2>2, BackedFrame DEF workerVars
  <2>3. QED
    BY <2>1, <2>2 DEF MemoryBacked, Backed
<1>14. QED
  BY <1>3, <1>4, <1>5, <1>6, <1>7, <1>8, <1>10, <1>11, <1>12, <1>13
     DEF Next, vars, Worker, Start, SafeMode, Symbol, Loop, Api, ApiResolve, ApiLock, ApiCommit,
         ApiFails

(* A worker's state machine never holds a restriction the database does not.   *)
THEOREM MemoryIsBacked == Spec => []MemoryBacked
<1>1. Init => CarriedInMemory /\ MemoryBacked
  BY DEF Init, CarriedInMemory, MemoryBacked, StartPcs, LoopPcs, LockedPcs
<1>2. QED
  BY <1>1, MemoryStep, LockInvariant, PTL DEF Spec
-----------------------------------------------------------------------------
(***************************************************************************)
(* The kill switch across restarts.                                         *)
(***************************************************************************)
(* A step that creates no run, kills none and lets no process into a start-up  *)
(* or a request keeps CarryInv.                                                *)
LEMMA CarryFrame ==
    ASSUME TypeOK, CarryInv, nRuns' = nRuns,
           \A r \in Runs : Killed(r) <=> botState'[r] = "KILL_SWITCH_TRIGGERED",
           \A v \in Workers : pc'[v] \in StartPcs => pc[v] \in StartPcs /\ local'[v] = local[v],
           \A a \in Apis : apiPc'[a] # "idle" => apiPc[a] # "idle",
           \A a \in Apis : apiPc'[a] = "locked" => apiPc[a] = "locked" /\ target'[a] = target[a]
    PROVE  CarryInv'
<1> USE BoundsAreNaturals DEF TypeOK, Runs
<1>1. KillCarriedOver'
  BY DEF CarryInv, KillCarriedOver, Killed
<1>2. \A w \in Workers : pc'[w] \in StartPcs =>
        (local'[w] = "KILL_SWITCH_TRIGGERED" <=> nRuns' > 0 /\ Killed(nRuns)')
  BY DEF CarryInv, Killed
<1>3. QED
  BY <1>1, <1>2 DEF CarryInv

(* When no start-up overlaps a request, every step keeps the newest run as     *)
(* killed as the one before it, in the database and in a starting worker.      *)
LEMMA CarryStep ==
    ~StartupOverlap /\ LockInv /\ CarriedInMemory /\ CarryInv /\ [Next]_vars => CarryInv'
<1> SUFFICES ASSUME ~StartupOverlap, LockInv, CarriedInMemory, CarryInv, [Next]_vars
             PROVE  CarryInv'
  OBVIOUS
<1> USE BoundsAreNaturals DEF LockInv, OwnershipInv, TypeOK, Runs
<1>1. ASSUME NEW w \in Workers, StartRead(w) PROVE CarryInv'
  <2>1. UNCHANGED <<nRuns, botState, apiPc, target>> /\ ~RequestInFlight
    BY <1>1 DEF StartRead, dbVars, apiVars
  <2>2. CarriedState = "KILL_SWITCH_TRIGGERED" <=> nRuns > 0 /\ Killed(nRuns)
    BY DEF CarriedState, Killed, is_running
  <2>3. \A v \in Workers : pc'[v] \in StartPcs =>
            (local'[v] = "KILL_SWITCH_TRIGGERED" <=> nRuns > 0 /\ Killed(nRuns))
    BY <1>1, <2>2 DEF StartRead, CarryInv
  <2>4. QED
    BY <2>1, <2>3 DEF CarryInv, KillCarriedOver, Killed, RequestInFlight
<1>2. ASSUME NEW w \in Workers, SelectOrphans(w) \/ CloseOrphans(w) \/ InsertRejected(w)
      PROVE  CarryInv'
  BY <1>2, CarryFrame DEF SelectOrphans, CloseOrphans, InsertRejected, StartPcs, Killed, dbVars,
                          apiVars
\* The new run is killed exactly when its predecessor is.
<1>3. ASSUME NEW w \in Workers, InsertRun(w) PROVE CarryInv'
  <2>1. pc[w] \in StartPcs /\ nRuns + 1 \in Runs /\ nRuns' = nRuns + 1
    BY <1>3 DEF InsertRun, StartPcs
  <2>2. \A r \in Runs : r # nRuns + 1 => botState'[r] = botState[r]
    BY <1>3 DEF InsertRun
  <2>3. botState'[nRuns + 1] = IF carried[w] THEN local[w] ELSE "NoRow"
    BY <1>3, <2>1 DEF InsertRun
  <2>4. (nRuns > 0 /\ Killed(nRuns)) <=> botState'[nRuns + 1] = "KILL_SWITCH_TRIGGERED"
    BY <2>1, <2>3 DEF CarryInv, CarriedInMemory
  <2>5. KillCarriedOver'
    <3> SUFFICES ASSUME NEW r \in 1..nRuns, botState'[r] = "KILL_SWITCH_TRIGGERED"
                 PROVE  botState'[r + 1] = "KILL_SWITCH_TRIGGERED"
      BY <2>1 DEF KillCarriedOver
    <3>1. Killed(r)
      BY <2>2 DEF Killed
    <3>2. CASE r = nRuns
      BY <2>4, <3>1, <3>2
    <3>3. CASE r \in 1..(nRuns - 1)
      BY <2>2, <3>1, <3>3 DEF CarryInv, KillCarriedOver, Killed
    <3>4. QED
      BY <3>2, <3>3
  <2>6. \A v \in Workers : pc'[v] \in StartPcs => pc[v] \in StartPcs /\ local'[v] = local[v]
    BY <1>3 DEF InsertRun, StartPcs
  <2>7. UNCHANGED <<apiPc, target>> /\ \A a \in Apis : apiPc[a] = "idle"
    BY <1>3, <2>1 DEF InsertRun, apiVars, CarryInv
  <2>8. QED
    BY <2>1, <2>4, <2>5, <2>6, <2>7 DEF CarryInv, Killed
\* A check that reaches its commit found the run not killed.
<1>4. ASSUME NEW w \in Workers, NEW s \in Stages, SafeModeCommit(w, s) \/ SafeModeFails(w, s)
      PROVE  CarryInv'
  <2>1. \A r \in Runs : Killed(r) <=> botState'[r] = "KILL_SWITCH_TRIGGERED"
    <3>1. CASE pc[w] = LockedStage(s)
      <4>1. ~Killed(myRun[w])
        BY <3>1 DEF LockHeld, LockedStage, LockedPcs, Killed, Forbids, can_trade,
                    resolve_persisted_state
      <4>2. \/ botState' = botState
            \/ botState' = [botState EXCEPT ![myRun[w]] = "SAFE_MODE"]
        BY <1>4 DEF SafeModeCommit, SafeModeFails
      <4>3. QED
        BY <4>1, <4>2 DEF Killed
    <3>2. CASE pc[w] # LockedStage(s)
      BY <1>4, <3>2 DEF SafeModeCommit, SafeModeFails, Killed
    <3>3. QED
      BY <3>1, <3>2
  <2>2. UNCHANGED <<nRuns, apiPc, target>>
    BY <1>4 DEF SafeModeCommit, SafeModeFails, apiVars
  <2>3. \A v \in Workers : pc'[v] \in StartPcs => pc[v] \in StartPcs /\ local'[v] = local[v]
    BY <1>4 DEF SafeModeCommit, SafeModeFails, NextStage, StartPcs
  <2>4. QED
    BY <2>1, <2>2, <2>3, CarryFrame
<1>5. ASSUME NEW w \in Workers, NEW s \in Stages, StageClean(w, s) \/ SafeModeLock(w, s)
      PROVE  CarryInv'
  <2>1. UNCHANGED <<nRuns, botState, apiPc, target>>
    BY <1>5 DEF StageClean, SafeModeLock, apiVars, dbVars
  <2>2. \A v \in Workers : pc'[v] \in StartPcs => pc[v] \in StartPcs /\ local'[v] = local[v]
    BY <1>5 DEF StageClean, SafeModeLock, NextStage, LockedStage, StartPcs
  <2>3. QED
    BY <2>1, <2>2, CarryFrame DEF Killed
<1>6. ASSUME NEW w \in Workers, Symbol(w) \/ Loop(w) \/ Crash(w) PROVE CarryInv'
  <2>1. UNCHANGED <<nRuns, botState, apiPc, target>>
    BY <1>6 DEF Symbol, Loop, Crash, SymbolSync, SymbolSyncFails, PipelineDone, SymbolAsk,
                SymbolSkipped, SymbolNoEntry, SymbolError, SymbolOrder, LoopSync, LoopSyncFails,
                TickMarketData, TickRaises, WaitExpires, ShutdownSignal, Close, dbVars, apiVars
  <2>2. \A v \in Workers : pc'[v] \in StartPcs => pc[v] \in StartPcs /\ local'[v] = local[v]
    <3>1. CASE Symbol(w)
      BY <3>1 DEF Symbol, SymbolSync, SymbolSyncFails, PipelineDone, SymbolAsk, SymbolSkipped,
                  SymbolNoEntry, SymbolError, SymbolOrder, AfterSync, StartPcs
    <3>2. CASE Loop(w)
      BY <3>2 DEF Loop, LoopSync, LoopSyncFails, TickMarketData, TickRaises, WaitExpires,
                  ShutdownSignal, Close, StartPcs
    <3>3. CASE Crash(w)
      BY <3>3 DEF Crash, StartPcs
    <3>4. QED
      BY <1>6, <3>1, <3>2, <3>3
  <2>3. QED
    BY <2>1, <2>2, CarryFrame DEF Killed
<1>7. ASSUME NEW a \in Apis, ApiResolve(a) PROVE CarryInv'
  <2>1. UNCHANGED <<nRuns, botState, pc, local>> /\ ~Starting
    BY <1>7 DEF ApiResolve, dbVars, workerVars
  <2>2. \A b \in Apis : apiPc'[b] = "locked" => apiPc[b] = "locked" /\ target'[b] = target[b]
    BY <1>7 DEF ApiResolve
  <2>3. QED
    BY <2>1, <2>2 DEF CarryInv, KillCarriedOver, Killed, Starting
\* The request goes on only for a RUNNING run, which is the newest.
<1>8. ASSUME NEW a \in Apis, ApiLock(a) PROVE CarryInv'
  <2>1. UNCHANGED <<nRuns, botState, target, pc, local>>
    BY <1>8 DEF ApiLock, workerVars
  <2>2. \A b \in Apis : apiPc'[b] # "idle" => apiPc[b] # "idle"
    BY <1>8 DEF ApiLock
  <2>3. apiPc'[a] = "locked" => target[a] = nRuns
    BY <1>8 DEF ApiLock, RunningIsNewest, Owned
  <2>4. \A b \in Apis : b # a => apiPc'[b] = apiPc[b]
    BY <1>8 DEF ApiLock
  <2>5. QED
    BY <2>1, <2>2, <2>3, <2>4 DEF CarryInv, KillCarriedOver, Killed
\* Killing the newest run, while no worker is starting.
<1>9. ASSUME NEW a \in Apis, ApiCommit(a) \/ ApiFails(a) PROVE CarryInv'
  <2>1. UNCHANGED <<nRuns, target, pc, local>> /\ apiPc[a] # "idle"
    BY <1>9 DEF ApiCommit, ApiFails, workerVars
  <2>2. \A b \in Apis : /\ apiPc'[b] # "idle" => apiPc[b] # "idle"
                        /\ apiPc'[b] = "locked" => apiPc[b] = "locked"
    BY <1>9 DEF ApiCommit, ApiFails
  <2>3. \/ botState' = botState
        \/ botState' = [botState EXCEPT ![nRuns] = "KILL_SWITCH_TRIGGERED"]
    BY <1>9 DEF ApiCommit, ApiFails, CarryInv
  <2>4. KillCarriedOver'
    <3> SUFFICES ASSUME NEW r \in 1..(nRuns - 1), botState'[r] = "KILL_SWITCH_TRIGGERED"
                 PROVE  botState'[r + 1] = "KILL_SWITCH_TRIGGERED"
      BY <2>1 DEF KillCarriedOver
    <3>1. botState[r] = "KILL_SWITCH_TRIGGERED" /\ r \in Runs /\ r + 1 \in Runs
      BY <2>3
    <3>2. botState[r + 1] = "KILL_SWITCH_TRIGGERED"
      BY <3>1 DEF CarryInv, KillCarriedOver
    <3>3. QED
      BY <2>3, <3>1, <3>2
  <2>5. \A w \in Workers : pc'[w] \notin StartPcs
    BY <2>1 DEF CarryInv
  <2>6. QED
    BY <2>1, <2>2, <2>4, <2>5 DEF CarryInv
<1>10. CASE UNCHANGED vars
  BY <1>10, CarryFrame DEF vars, dbVars, workerVars, apiVars, Killed
<1>11. QED
  BY <1>1, <1>2, <1>3, <1>4, <1>5, <1>6, <1>7, <1>8, <1>9, <1>10
     DEF Next, Worker, Start, SafeMode, Api

(* If no start-up overlaps a kill-switch request, a run that follows a killed  *)
(* run is born killed, however start-ups and crashes interleave.               *)
THEOREM KillSurvivesRestart == ~StartupOverlap /\ Spec => []KillCarriedOver
<1> SUFFICES ASSUME ~StartupOverlap PROVE Spec => []KillCarriedOver
  OBVIOUS
<1>1. Init => CarriedInMemory /\ MemoryBacked /\ CarryInv
  BY DEF Init, CarriedInMemory, MemoryBacked, CarryInv, KillCarriedOver, StartPcs, LoopPcs, LockedPcs
<1>2. LockInv /\ CarriedInMemory /\ MemoryBacked /\ CarryInv /\ [Next]_vars
        => CarriedInMemory' /\ MemoryBacked' /\ CarryInv'
  BY MemoryStep, CarryStep
<1>3. CarryInv => KillCarriedOver
  BY DEF CarryInv
<1>4. QED
  BY <1>1, <1>2, <1>3, LockInvariant, PTL DEF Spec
-----------------------------------------------------------------------------
(***************************************************************************)
(* BotControl implements RunHistory.  The locks make a decision taken in    *)
(* one step still right in the step that writes it: a process about to      *)
(* write a state locks an open run, and a start-up about to insert its run  *)
(* has locked the one run it closes.                                        *)
(***************************************************************************)
StatesWritten == \A r \in Runs : botState[r] \in {"NoRow", "SAFE_MODE", "KILL_SWITCH_TRIGGERED"}

OpenWhileLocked ==
    /\ \A w \in Workers : pc[w] \in LockedPcs => runStatus[myRun[w]] = "RUNNING"
    /\ \A a \in Apis : apiPc[a] = "locked" => runStatus[target[a]] = "RUNNING"

OrphansLocked ==
    \A w \in Workers :
        /\ orphans[w] \subseteq 1..nRuns
        /\ \A q, r \in orphans[w] : q = r
        /\ pc[w] = "insert" => \A r \in orphans[w] : lock[r] = w

CarriedWasKilled ==
    \A w \in Workers : pc[w] \in StartPcs =>
        \/ local[w] = "ACTIVE"
        \/ local[w] = "KILL_SWITCH_TRIGGERED" /\ \E r \in 1..nRuns : Killed(r)

HistoryInv == StatesWritten /\ OpenWhileLocked /\ OrphansLocked /\ CarriedWasKilled

(* Every state a step writes is a restriction, or the kill switch carried over. *)
LEMMA StatesWrittenStep ==
    LockInv /\ CarriedInMemory /\ StatesWritten /\ CarriedWasKilled /\ [Next]_vars
        => StatesWritten'
<1> SUFFICES ASSUME LockInv, CarriedInMemory, StatesWritten, CarriedWasKilled, [Next]_vars
             PROVE  StatesWritten'
  OBVIOUS
<1> USE DEF StatesWritten, LockInv, OwnershipInv
<1>1. CASE \A w \in Workers : ~InsertRun(w)
  BY <1>1, RunFrameHolds DEF RunFrame
<1>2. ASSUME NEW w \in Workers, InsertRun(w) PROVE StatesWritten'
  <2>1. pc[w] \in StartPcs /\ botState \in [Runs -> BotStates \cup {"NoRow"}]
    BY <1>2 DEF InsertRun, StartPcs, TypeOK
  <2>2. (IF carried[w] THEN local[w] ELSE "NoRow") \in {"NoRow", "KILL_SWITCH_TRIGGERED"}
    BY <2>1 DEF CarriedInMemory, CarriedWasKilled
  <2>3. QED
    BY <1>2, <2>1, <2>2 DEF InsertRun
<1>3. QED
  BY <1>1, <1>2

(* A start-up that carries a kill switch over has read it from a run that is    *)
(* still killed when the new run is inserted.                                   *)
LEMMA CarriedWasKilledStep ==
    LockInv /\ StatesWritten /\ CarriedWasKilled /\ [Next]_vars => CarriedWasKilled'
<1> SUFFICES ASSUME LockInv, StatesWritten, CarriedWasKilled, [Next]_vars
             PROVE  CarriedWasKilled'
  OBVIOUS
<1> USE BoundsAreNaturals DEF LockInv, OwnershipInv
<1>1. nRuns' >= nRuns /\ nRuns \in Nat /\ nRuns' \in Nat
  <2>1. CASE \A w \in Workers : ~InsertRun(w)
    BY <2>1, RunFrameHolds DEF RunFrame, TypeOK
  <2>2. ASSUME NEW w \in Workers, InsertRun(w)
        PROVE  nRuns' >= nRuns /\ nRuns \in Nat /\ nRuns' \in Nat
    BY <2>2 DEF InsertRun, TypeOK
  <2>3. QED
    BY <2>1, <2>2
<1>2. (\E r \in 1..nRuns : Killed(r)) => \E r \in 1..nRuns' : Killed(r)'
  <2>1. \A r \in 1..nRuns : r \in Runs /\ r \in 1..nRuns'
    BY <1>1 DEF TypeOK, Runs
  <2>2. QED
    BY <2>1, StatesTighten DEF Tighter, Killed
<1>3. ASSUME \A v \in Workers : pc'[v] \in StartPcs => pc[v] \in StartPcs /\ local'[v] = local[v]
      PROVE  CarriedWasKilled'
  BY <1>2, <1>3 DEF CarriedWasKilled
<1>4. ASSUME NEW w \in Workers, StartRead(w) PROVE CarriedWasKilled'
  <2>1. \/ CarriedState = "ACTIVE"
        \/ CarriedState = "KILL_SWITCH_TRIGGERED" /\ nRuns \in 1..nRuns /\ Killed(nRuns)
    BY <1>1 DEF CarriedState, StatesWritten, is_running, Killed, Runs, TypeOK
  <2>2. local'[w] = CarriedState /\ \A v \in Workers : v # w => pc'[v] = pc[v] /\ local'[v] = local[v]
    BY <1>4 DEF StartRead, TypeOK
  <2>3. QED
    BY <1>2, <2>1, <2>2 DEF CarriedWasKilled
<1>5. ASSUME NEW w \in Workers, Start(w) PROVE CarriedWasKilled'
  BY <1>3, <1>4, <1>5 DEF Start, SelectOrphans, CloseOrphans, InsertRun, InsertRejected, StartPcs,
                          TypeOK
<1>6. ASSUME NEW w \in Workers, SafeMode(w) PROVE CarriedWasKilled'
  BY <1>3, <1>6 DEF SafeMode, StageClean, SafeModeLock, SafeModeCommit, SafeModeFails, NextStage,
                    LockedStage, Stages, StartPcs, TypeOK
<1>7. ASSUME NEW w \in Workers, Symbol(w) PROVE CarriedWasKilled'
  BY <1>3, <1>7 DEF Symbol, SymbolSync, SymbolSyncFails, PipelineDone, SymbolAsk, SymbolSkipped,
                    SymbolNoEntry, SymbolError, SymbolOrder, AfterSync, StartPcs, TypeOK
<1>8. ASSUME NEW w \in Workers, Loop(w) \/ Crash(w) PROVE CarriedWasKilled'
  BY <1>3, <1>8 DEF Loop, LoopSync, LoopSyncFails, TickMarketData, TickRaises, WaitExpires,
                    ShutdownSignal, Close, Crash, StartPcs, TypeOK
<1>9. CASE UNCHANGED workerVars
  BY <1>3, <1>9 DEF workerVars
<1>10. QED
  BY <1>5, <1>6, <1>7, <1>8, <1>9
     DEF Next, vars, Worker, Api, ApiResolve, ApiLock, ApiCommit, ApiFails

(* The runs a start-up is about to close are existing ones, at most one, and    *)
(* under its lock once the UPDATE has run: nobody takes a row from its holder.  *)
LEMMA OrphansLockedStep == LockInv /\ OrphansLocked /\ [Next]_vars => OrphansLocked'
<1> SUFFICES ASSUME LockInv, OrphansLocked, [Next]_vars PROVE OrphansLocked'
  OBVIOUS
<1> USE BoundsAreNaturals, ProcessesDistinct DEF LockInv, OwnershipInv
<1>1. nRuns \in Nat /\ \A r \in 1..nRuns : r \in Runs
  BY DEF TypeOK, Runs
\* Rows locked by a worker that does not move stay locked by it.
<1>2. ASSUME \A r \in Runs, v \in Workers :
                lock[r] = v /\ pc'[v] = "insert" /\ pc[v] = "insert" => lock'[r] = v,
             \A v \in Workers : pc'[v] = "insert" => pc[v] = "insert",
             UNCHANGED orphans, nRuns' = nRuns \/ nRuns' = nRuns + 1
      PROVE  OrphansLocked'
  BY <1>1, <1>2 DEF OrphansLocked
<1>3. ASSUME NEW w \in Workers, SelectOrphans(w) PROVE OrphansLocked'
  <2>1. /\ orphans' = [orphans EXCEPT ![w] = {r \in Runs : runStatus[r] = "RUNNING"}]
        /\ pc' = [pc EXCEPT ![w] = "closeOrphans"]
        /\ UNCHANGED <<nRuns, lock>>
    BY <1>3 DEF SelectOrphans, dbVars
  <2>2. \A r \in Runs : runStatus[r] = "RUNNING" => r \in 1..nRuns /\ r = nRuns
    BY <1>1 DEF RunningIsNewest, Runs
  <2>3. pc'[w] # "insert" /\ orphans'[w] = {r \in Runs : runStatus[r] = "RUNNING"}
    BY <2>1 DEF TypeOK
  <2>4. \A v \in Workers : v # w => pc'[v] = pc[v] /\ orphans'[v] = orphans[v]
    BY <2>1 DEF TypeOK
  <2>5. QED
    BY <2>1, <2>2, <2>3, <2>4 DEF OrphansLocked
<1>4. ASSUME NEW w \in Workers, CloseOrphans(w) PROVE OrphansLocked'
  <2>1. /\ \A r \in orphans[w] : lock[r] = None
        /\ lock' = [r \in Runs |-> IF r \in orphans[w] THEN w ELSE lock[r]]
        /\ UNCHANGED <<orphans, nRuns>>
    BY <1>4 DEF CloseOrphans, CanLockForNoKeyUpdate
  <2>2. \A v \in Workers : v # w => pc'[v] = pc[v]
    BY <1>4 DEF CloseOrphans, TypeOK
  <2>3. \A v \in Workers : \A r \in orphans[v] : r \in Runs
    BY <1>1 DEF OrphansLocked
  <2>4. \A v \in Workers : pc'[v] = "insert" => \A r \in orphans[v] : lock'[r] = v
    BY <2>1, <2>2, <2>3 DEF OrphansLocked
  <2>5. QED
    BY <2>1, <2>4 DEF OrphansLocked
<1>5. ASSUME NEW w \in Workers, UNCHANGED orphans, nRuns' = nRuns \/ nRuns' = nRuns + 1,
             \/ UNCHANGED lock
             \/ lock' = Release(w)
             \/ \E r \in Runs : lock[r] = None /\ lock' = [lock EXCEPT ![r] = w],
             pc'[w] # "insert", \A v \in Workers : v # w => pc'[v] = pc[v]
      PROVE  OrphansLocked'
  <2>1. \A r \in Runs, v \in Workers :
            lock[r] = v /\ pc'[v] = "insert" /\ pc[v] = "insert" => lock'[r] = v
    BY <1>5 DEF Release, TypeOK
  <2>2. QED
    BY <1>2, <1>5, <2>1
<1>6. ASSUME NEW w \in Workers, StartRead(w) \/ InsertRun(w) \/ InsertRejected(w)
      PROVE  OrphansLocked'
  BY <1>5, <1>6 DEF StartRead, InsertRun, InsertRejected, dbVars, TypeOK
<1>7. ASSUME NEW w \in Workers, NEW s \in Stages,
             StageClean(w, s) \/ SafeModeLock(w, s) \/ SafeModeCommit(w, s) \/ SafeModeFails(w, s)
      PROVE  OrphansLocked'
  <2>1. UNCHANGED <<orphans, nRuns>>
    BY <1>7 DEF StageClean, SafeModeLock, SafeModeCommit, SafeModeFails, dbVars
  <2>2. pc'[w] # "insert" /\ \A v \in Workers : v # w => pc'[v] = pc[v]
    BY <1>7 DEF StageClean, SafeModeLock, SafeModeCommit, SafeModeFails, NextStage, LockedStage,
                Stages, TypeOK
  <2>3. SafeModeLock(w, s) => myRun[w] \in Runs /\ lock[myRun[w]] = None
    BY <1>1 DEF SafeModeLock, CanLockForUpdate, Owned, LoopPcs, Stages
  <2>4. \/ UNCHANGED lock
        \/ lock' = Release(w)
        \/ \E r \in Runs : lock[r] = None /\ lock' = [lock EXCEPT ![r] = w]
    BY <1>7, <2>3 DEF StageClean, SafeModeLock, SafeModeCommit, SafeModeFails, dbVars
  <2>5. QED
    BY <1>5, <2>1, <2>2, <2>4
<1>8. ASSUME NEW w \in Workers, Symbol(w) PROVE OrphansLocked'
  <2>1. UNCHANGED <<orphans, nRuns, lock>> /\ \A v \in Workers : v # w => pc'[v] = pc[v]
    BY <1>8 DEF Symbol, SymbolSync, SymbolSyncFails, PipelineDone, SymbolAsk, SymbolSkipped,
                SymbolNoEntry, SymbolError, SymbolOrder, dbVars, TypeOK
  <2>2. pc'[w] # "insert"
    BY <1>8 DEF Symbol, SymbolSync, SymbolSyncFails, PipelineDone, SymbolAsk, SymbolSkipped,
                SymbolNoEntry, SymbolError, SymbolOrder, AfterSync, TypeOK
  <2>3. QED
    BY <1>5, <2>1, <2>2
<1>9. ASSUME NEW w \in Workers, Loop(w) \/ Crash(w) PROVE OrphansLocked'
  BY <1>5, <1>9 DEF Loop, LoopSync, LoopSyncFails, TickMarketData, TickRaises, WaitExpires,
                    ShutdownSignal, Close, Crash, dbVars, TypeOK
<1>10. ASSUME NEW a \in Apis, Api(a) PROVE OrphansLocked'
  <2>1. UNCHANGED <<orphans, nRuns, pc>>
    BY <1>10 DEF Api, ApiResolve, ApiLock, ApiCommit, ApiFails, dbVars, workerVars
  <2>2. ApiLock(a) => target[a] \in Runs /\ lock[target[a]] = None
    BY <1>1 DEF ApiLock, CanLockForUpdate, Owned
  <2>3. \A r \in Runs, v \in Workers : lock[r] = v => lock'[r] = v
    BY <1>10, <2>2 DEF Api, ApiResolve, ApiLock, ApiCommit, ApiFails, dbVars, Release, TypeOK
  <2>4. QED
    BY <1>2, <2>1, <2>3
<1>11. CASE UNCHANGED vars
  BY <1>2, <1>11 DEF vars, dbVars, workerVars
<1>12. QED
  BY <1>3, <1>4, <1>6, <1>7, <1>8, <1>9, <1>10, <1>11 DEF Next, Worker, Start, SafeMode

(* A run stays open while a process holds it locked for a restriction: closing  *)
(* it takes the row lock, and a start-up closes only rows it has locked.        *)
LEMMA OpenWhileLockedStep ==
    LockInv /\ OrphansLocked /\ OpenWhileLocked /\ [Next]_vars => OpenWhileLocked'
<1> SUFFICES ASSUME LockInv, OrphansLocked, OpenWhileLocked, [Next]_vars
             PROVE  OpenWhileLocked'
  OBVIOUS
<1> USE BoundsAreNaturals, ProcessesDistinct DEF LockInv, OwnershipInv
<1>1. nRuns \in Nat /\ (\A r \in 1..nRuns : r \in Runs)
  BY DEF TypeOK, Runs
<1>2. /\ \A v \in Workers : pc[v] \in LockedPcs => myRun[v] \in 1..nRuns /\ lock[myRun[v]] = v
      /\ \A a \in Apis : apiPc[a] = "locked" => target[a] \in 1..nRuns /\ lock[target[a]] = a
  BY DEF Owned, LockHeld, LoopPcs
\* A step that lets no process past its lock closes no locked run.
<1>3. ASSUME \A v \in Workers : pc'[v] \in LockedPcs => pc[v] \in LockedPcs /\ myRun'[v] = myRun[v],
             \A a \in Apis : apiPc'[a] = "locked" => apiPc[a] = "locked" /\ target'[a] = target[a],
             \A r \in 1..nRuns :
                \/ runStatus'[r] = runStatus[r]
                \/ lock[r] = None
                \/ \E v \in Workers : lock[r] = v /\ pc[v] \notin LockedPcs
      PROVE  OpenWhileLocked'
  BY <1>2, <1>3 DEF OpenWhileLocked
<1>4. ASSUME NEW w \in Workers, StartRead(w) \/ SelectOrphans(w) \/ CloseOrphans(w) \/ InsertRejected(w)
      PROVE  OpenWhileLocked'
  BY <1>3, <1>4 DEF StartRead, SelectOrphans, CloseOrphans, InsertRejected, LockedPcs, dbVars,
                    apiVars, TypeOK
<1>5. ASSUME NEW w \in Workers, InsertRun(w) PROVE OpenWhileLocked'
  <2>1. pc[w] = "insert" /\ UNCHANGED <<apiPc, target>>
    BY <1>5 DEF InsertRun, apiVars
  <2>2. \A v \in Workers : pc'[v] \in LockedPcs => pc[v] \in LockedPcs /\ myRun'[v] = myRun[v]
    BY <1>5 DEF InsertRun, LockedPcs, TypeOK
  <2>3. \A r \in 1..nRuns : r \in orphans[w] \/ runStatus'[r] = runStatus[r]
    BY <1>1, <1>5 DEF InsertRun
  <2>4. \A r \in orphans[w] : lock[r] = w
    BY <2>1 DEF OrphansLocked
  <2>5. QED
    BY <1>3, <2>1, <2>2, <2>3, <2>4 DEF LockedPcs
<1>6. ASSUME NEW w \in Workers, NEW s \in Stages, SafeModeLock(w, s) PROVE OpenWhileLocked'
  <2>1. UNCHANGED <<runStatus, myRun, apiPc, target>>
    BY <1>6 DEF SafeModeLock, apiVars
  <2>2. \A v \in Workers : v # w => pc'[v] = pc[v]
    BY <1>6 DEF SafeModeLock, TypeOK
  <2>3. pc'[w] \in LockedPcs => runStatus[myRun[w]] = "RUNNING"
    BY <1>6 DEF SafeModeLock, NextStage, LockedPcs, Stages, TypeOK
  <2>4. QED
    BY <2>1, <2>2, <2>3 DEF OpenWhileLocked
<1>7. ASSUME NEW w \in Workers, NEW s \in Stages,
             StageClean(w, s) \/ SafeModeCommit(w, s) \/ SafeModeFails(w, s)
      PROVE  OpenWhileLocked'
  BY <1>3, <1>7 DEF StageClean, SafeModeCommit, SafeModeFails, NextStage, LockedPcs, Stages,
                    dbVars, apiVars, TypeOK
<1>8. ASSUME NEW w \in Workers, Symbol(w) PROVE OpenWhileLocked'
  BY <1>3, <1>8 DEF Symbol, SymbolSync, SymbolSyncFails, PipelineDone, SymbolAsk, SymbolSkipped,
                    SymbolNoEntry, SymbolError, SymbolOrder, AfterSync, LockedPcs, dbVars, apiVars,
                    TypeOK
<1>9. ASSUME NEW w \in Workers, Close(w) PROVE OpenWhileLocked'
  <2>1. lock[myRun[w]] = None /\ UNCHANGED <<myRun, apiPc, target>>
    BY <1>9 DEF Close, CanLockForNoKeyUpdate, apiVars
  <2>2. \A r \in 1..nRuns : r = myRun[w] \/ runStatus'[r] = runStatus[r]
    BY <1>1, <1>9 DEF Close, TypeOK
  <2>3. \A v \in Workers : pc'[v] \in LockedPcs => pc[v] \in LockedPcs
    BY <1>9 DEF Close, LockedPcs, TypeOK
  <2>4. QED
    BY <1>3, <2>1, <2>2, <2>3
<1>10. ASSUME NEW w \in Workers, Loop(w) \/ Crash(w) PROVE OpenWhileLocked'
  BY <1>3, <1>9, <1>10 DEF Loop, LoopSync, LoopSyncFails, TickMarketData, TickRaises, WaitExpires,
                           ShutdownSignal, Crash, LockedPcs, dbVars, apiVars, TypeOK
<1>11. ASSUME NEW a \in Apis, ApiLock(a) PROVE OpenWhileLocked'
  <2>1. UNCHANGED <<runStatus, target, pc, myRun>> /\ \A b \in Apis : b # a => apiPc'[b] = apiPc[b]
    BY <1>11 DEF ApiLock, workerVars, TypeOK
  <2>2. apiPc'[a] = "locked" => runStatus[target[a]] = "RUNNING"
    BY <1>11 DEF ApiLock, TypeOK
  <2>3. QED
    BY <2>1, <2>2 DEF OpenWhileLocked
<1>12. ASSUME NEW a \in Apis, ApiResolve(a) \/ ApiCommit(a) \/ ApiFails(a) PROVE OpenWhileLocked'
  BY <1>3, <1>12 DEF ApiResolve, ApiCommit, ApiFails, dbVars, workerVars, TypeOK
<1>13. CASE UNCHANGED vars
  BY <1>3, <1>13 DEF vars, dbVars, workerVars, apiVars
<1>14. QED
  BY <1>4, <1>5, <1>6, <1>7, <1>8, <1>10, <1>11, <1>12, <1>13
     DEF Next, Worker, Start, SafeMode, Api

HistoryInd ==
    /\ LockInv /\ CarriedInMemory /\ MemoryBacked /\ HistoryInv
    /\ ~StartupOverlap => CarryInv

(* What the refinement needs of every reachable state.                          *)
LEMMA HistoryInvariant == Spec => []HistoryInd
<1>1. Init => CarriedInMemory /\ MemoryBacked /\ HistoryInv /\ CarryInv
  BY DEF Init, CarriedInMemory, MemoryBacked, HistoryInv, StatesWritten, OpenWhileLocked,
         OrphansLocked, CarriedWasKilled, CarryInv, KillCarriedOver, StartPcs, LoopPcs, LockedPcs
<1>2. HistoryInd /\ [Next]_vars => HistoryInv' /\ (~StartupOverlap => CarryInv)'
  BY StatesWrittenStep, OpenWhileLockedStep, OrphansLockedStep, CarriedWasKilledStep, CarryStep
     DEF HistoryInd, HistoryInv
<1>3. QED
  BY <1>1, <1>2, MemoryStep, LockInvariant, PTL DEF Spec, HistoryInd

(* A step that leaves the runs and their states alone is no step of the history.*)
LEMMA HistoryStutters ==
    ASSUME nRuns' = nRuns, runStatus' = runStatus, botState' = botState
    PROVE  UNCHANGED History!vars
  BY DEF History!vars

(* Closing a run stops it in the history.                                       *)
LEMMA HistoryStops ==
    ASSUME TypeOK, NEW r \in 1..nRuns, nRuns' = nRuns, botState' = botState,
           runStatus' = [runStatus EXCEPT ![r] = "STOPPED"]
    PROVE  History!Stop(r)
<1>1. \A q \in 1..nRuns : q \in Runs
  BY BoundsAreNaturals DEF TypeOK, Runs
<1>2. [q \in 1..nRuns' |-> runStatus'[q]]
        = [[q \in 1..nRuns |-> runStatus[q]] EXCEPT ![r] = "STOPPED"]
  BY <1>1 DEF TypeOK
<1>3. QED
  BY <1>2 DEF History!Stop

(* Writing a state the open run does not have yet restricts it in the history.  *)
LEMMA HistoryRestricts ==
    ASSUME TypeOK, NEW r \in 1..nRuns, nRuns' = nRuns, runStatus' = runStatus,
           runStatus[r] = "RUNNING", NEW s \in {"SAFE_MODE", "KILL_SWITCH_TRIGGERED"},
           botState' = [botState EXCEPT ![r] = s],
           s = "SAFE_MODE" => ~Forbids(botState[r]),
           s = "KILL_SWITCH_TRIGGERED" => botState[r] \in {"NoRow", "SAFE_MODE"}
    PROVE  History!Restrict(r)
<1> DEFINE st == [q \in 1..nRuns |-> resolve_persisted_state(botState[q])]
<1>1. \A q \in 1..nRuns : q \in Runs
  BY BoundsAreNaturals DEF TypeOK, Runs
<1>2. s \in History!Tighter(st[r])
  BY DEF Forbids, can_trade, resolve_persisted_state, History!Tighter
<1>3. [q \in 1..nRuns' |-> resolve_persisted_state(botState'[q])] = [st EXCEPT ![r] = s]
  <2>1. \A q \in 1..nRuns : resolve_persisted_state(botState'[q])
                              = IF q = r THEN s ELSE resolve_persisted_state(botState[q])
    BY <1>1 DEF TypeOK, resolve_persisted_state
  <2>2. QED
    BY <2>1
<1>4. r \in History!Open
  BY DEF History!Open
<1>5. QED
  BY <1>2, <1>3, <1>4 DEF History!Restrict

(* Inserting a run begins one in the history: it is born in a state the history *)
(* allows, and the one run that was open is closed with it.                     *)
LEMMA HistoryBegins ==
    ASSUME LockInv, CarriedInMemory, HistoryInv, ~StartupOverlap => CarryInv,
           NEW w \in Workers, InsertRun(w)
    PROVE  \E crashed \in 0..nRuns, s \in History!BirthStates : History!Begin(crashed, s)
<1> USE BoundsAreNaturals DEF LockInv, OwnershipInv
<1>1. /\ pc[w] \in StartPcs /\ pc[w] = "insert"
      /\ nRuns \in Nat /\ nRuns' = nRuns + 1 /\ nRuns + 1 \in Runs
      /\ \A r \in 1..nRuns : r \in Runs /\ r # nRuns + 1
  BY DEF InsertRun, StartPcs, TypeOK, Runs
<1> DEFINE born == IF carried[w] THEN local[w] ELSE "ACTIVE"
           closed == IF orphans[w] = {} THEN 0 ELSE CHOOSE r \in orphans[w] : TRUE
<1>2. /\ orphans[w] \subseteq 1..nRuns
      /\ \A q, r \in orphans[w] : q = r
  BY DEF HistoryInv, OrphansLocked
<1>3. closed \in 0..nRuns /\ \A r \in 1..nRuns : r \in orphans[w] <=> r = closed
  <2>1. CASE orphans[w] = {}
    BY <1>1, <2>1
  <2>2. CASE orphans[w] # {}
    BY <1>1, <1>2, <2>2
  <2>3. QED
    BY <2>1, <2>2
<1>4. born \in History!BirthStates
  <2>1. born = local[w] /\ born \in {"ACTIVE", "KILL_SWITCH_TRIGGERED"}
    BY <1>1 DEF CarriedInMemory, HistoryInv, CarriedWasKilled
  <2>2. History!Killed = {r \in 1..nRuns : Killed(r)}
    BY DEF History!Killed, Killed, resolve_persisted_state
  <2>3. CASE StartupOverlap
    <3>1. born = "KILL_SWITCH_TRIGGERED" => \E r \in 1..nRuns : Killed(r)
      BY <1>1, <2>1 DEF HistoryInv, CarriedWasKilled
    <3>2. \A r \in 1..nRuns : Killed(r) =>
             "KILL_SWITCH_TRIGGERED" = [q \in 1..nRuns |-> resolve_persisted_state(botState[q])][r]
      BY DEF Killed, resolve_persisted_state
    <3>3. QED
      BY <2>1, <2>2, <2>3, <3>1, <3>2 DEF History!BirthStates
  <2>4. CASE ~StartupOverlap
    <3>1. born = "KILL_SWITCH_TRIGGERED" <=> nRuns \in History!Killed
      BY <1>1, <2>1, <2>2, <2>4 DEF CarryInv
    <3>2. QED
      BY <2>1, <2>4, <3>1 DEF History!BirthStates
  <2>5. QED
    BY <2>3, <2>4
<1>5. History!Begin(closed, born)
  <2> HIDE DEF closed, born
  <2>1. History!Open \subseteq {closed}
    BY <1>1, <1>3 DEF InsertRun, UniqueRunningHolds, History!Open
  <2>2. [r \in 1..nRuns' |-> runStatus'[r]]
          = [r \in 1..nRuns' |->
                IF r = nRuns' THEN "RUNNING"
                ELSE IF r = closed THEN "CRASHED" ELSE [q \in 1..nRuns |-> runStatus[q]][r]]
    BY <1>1, <1>3 DEF InsertRun
  <2>3. [r \in 1..nRuns' |-> resolve_persisted_state(botState'[r])]
          = [r \in 1..nRuns' |->
                IF r = nRuns' THEN born
                ELSE [q \in 1..nRuns |-> resolve_persisted_state(botState[q])][r]]
    <3>1. resolve_persisted_state(botState'[nRuns + 1]) = born
      BY <1>1, BoundsAreNaturals
         DEF InsertRun, TypeOK, resolve_persisted_state, born, CarriedInMemory, HistoryInv,
             CarriedWasKilled
    <3>2. \A r \in 1..nRuns : botState'[r] = botState[r]
      BY <1>1 DEF InsertRun, TypeOK
    <3>3. \A r \in 1..nRuns' : r = nRuns' \/ r \in 1..nRuns
      BY <1>1
    <3>4. QED
      BY <1>1, <3>1, <3>2, <3>3
  <2>4. QED
    BY <1>1, <2>1, <2>2, <2>3 DEF History!Begin
<1> HIDE DEF closed, born
<1>6. QED
  BY <1>3, <1>4, <1>5 DEF History!Begin

(* Every step is one of the history's, or none.                                 *)
LEMMA HistoryStep ==
    LockInv /\ CarriedInMemory /\ HistoryInv /\ (~StartupOverlap => CarryInv) /\ [Next]_vars
        => [History!Next]_(History!vars)
<1> SUFFICES ASSUME LockInv, CarriedInMemory, HistoryInv, ~StartupOverlap => CarryInv, [Next]_vars
             PROVE  History!Next \/ UNCHANGED History!vars
  OBVIOUS
<1> USE DEF LockInv, OwnershipInv
<1>1. ASSUME NEW w \in Workers, InsertRun(w) PROVE History!Next
  BY <1>1, HistoryBegins DEF History!Next
<1>2. ASSUME NEW w \in Workers, Start(w) PROVE History!Next \/ UNCHANGED History!vars
  BY <1>1, <1>2, HistoryStutters
     DEF Start, StartRead, SelectOrphans, CloseOrphans, InsertRejected, dbVars
<1>3. ASSUME NEW w \in Workers, NEW s \in Stages, pc[w] = LockedStage(s),
             botState' = [botState EXCEPT ![myRun[w]] = "SAFE_MODE"],
             nRuns' = nRuns, runStatus' = runStatus
      PROVE  History!Next
  <2>1. pc[w] \in LockedPcs /\ myRun[w] \in 1..nRuns
    BY <1>3 DEF Stages, LockedStage, LockedPcs, LoopPcs, Owned
  <2>2. runStatus[myRun[w]] = "RUNNING" /\ ~Forbids(botState[myRun[w]])
    BY <2>1 DEF HistoryInv, OpenWhileLocked, LockHeld
  <2>3. History!Restrict(myRun[w])
    BY <1>3, <2>1, <2>2, HistoryRestricts
  <2>4. QED
    BY <2>1, <2>3 DEF History!Next
<1>4. ASSUME NEW w \in Workers, SafeMode(w) PROVE History!Next \/ UNCHANGED History!vars
  <2> PICK s \in Stages : \/ StageClean(w, s) \/ SafeModeLock(w, s)
                          \/ SafeModeCommit(w, s) \/ SafeModeFails(w, s)
    BY <1>4 DEF SafeMode
  <2>1. CASE StageClean(w, s) \/ SafeModeLock(w, s)
    BY <2>1, HistoryStutters DEF StageClean, SafeModeLock, dbVars
  <2>2. CASE SafeModeCommit(w, s) \/ SafeModeFails(w, s)
    BY <1>3, <2>2, HistoryStutters DEF SafeModeCommit, SafeModeFails
  <2>3. QED
    BY <2>1, <2>2
<1>5. ASSUME NEW w \in Workers, Symbol(w) PROVE UNCHANGED History!vars
  BY <1>5, HistoryStutters DEF Symbol, SymbolSync, SymbolSyncFails, PipelineDone, SymbolAsk,
     SymbolSkipped, SymbolNoEntry, SymbolError, SymbolOrder, dbVars
<1>6. ASSUME NEW w \in Workers, Close(w) PROVE History!Next
  <2>1. PICK r \in 1..nRuns : r = myRun[w]
    BY <1>6 DEF Close, Owned, LoopPcs
  <2>2. /\ nRuns' = nRuns /\ botState' = botState
        /\ runStatus' = [runStatus EXCEPT ![r] = "STOPPED"]
    BY <1>6, <2>1 DEF Close
  <2>3. History!Stop(r)
    BY <2>2, HistoryStops
  <2>4. QED
    BY <2>3 DEF History!Next
<1>7. ASSUME NEW w \in Workers, Loop(w) \/ Crash(w) PROVE History!Next \/ UNCHANGED History!vars
  BY <1>6, <1>7, HistoryStutters DEF Loop, LoopSync, LoopSyncFails, TickMarketData, TickRaises,
     WaitExpires, ShutdownSignal, Crash, dbVars
\* The request writes the state it decided on, or the one that is there.
<1>8. ASSUME NEW a \in Apis, apiPc[a] = "locked",
             botState' = [botState EXCEPT ![target[a]] = "KILL_SWITCH_TRIGGERED"],
             nRuns' = nRuns, runStatus' = runStatus
      PROVE  History!Next \/ UNCHANGED History!vars
  <2>1. target[a] \in 1..nRuns /\ target[a] \in Runs /\ runStatus[target[a]] = "RUNNING"
    BY <1>8, BoundsAreNaturals DEF HistoryInv, OpenWhileLocked, Owned, TypeOK, Runs
  <2>2. CASE botState[target[a]] = "KILL_SWITCH_TRIGGERED"
    BY <1>8, <2>2, HistoryStutters DEF TypeOK
  <2>3. CASE botState[target[a]] # "KILL_SWITCH_TRIGGERED"
    <3>1. botState[target[a]] \in {"NoRow", "SAFE_MODE"}
      BY <2>1, <2>3 DEF HistoryInv, StatesWritten
    <3>2. History!Restrict(target[a])
      BY <1>8, <2>1, <3>1, HistoryRestricts
    <3>3. QED
      BY <2>1, <3>2 DEF History!Next
  <2>4. QED
    BY <2>2, <2>3
<1>9. ASSUME NEW a \in Apis, Api(a) PROVE History!Next \/ UNCHANGED History!vars
  BY <1>8, <1>9, HistoryStutters DEF Api, ApiResolve, ApiLock, ApiCommit, ApiFails, dbVars
<1>10. CASE UNCHANGED vars
  BY <1>10, HistoryStutters DEF vars, dbVars
<1>11. QED
  BY <1>2, <1>4, <1>5, <1>7, <1>9, <1>10 DEF Next, Worker

(* BotControl implements RunHistory, for any number of workers, requests and    *)
(* runs: the interleaved reads, locks, writes and crashes of start-ups, checks  *)
(* and kill switches come down to atomic births, restrictions of the open run   *)
(* and closings (orchestrator.py:182-281, emergency_stop.py:118-176).           *)
THEOREM RunHistoryImplemented == Spec => RunHistoryKept
<1>1. Init => History!Init
  <2> SUFFICES ASSUME Init PROVE History!Init
    OBVIOUS
  <2>1. nRuns = 0 /\ \A r \in 1..nRuns : FALSE
    BY DEF Init
  <2>2. QED
    BY <2>1 DEF History!Init
<1>2. HistoryInd /\ [Next]_vars => [History!Next]_(History!vars)
  BY HistoryStep DEF HistoryInd
<1>3. QED
  BY <1>1, <1>2, HistoryInvariant, PTL DEF Spec, RunHistoryKept, History!Spec

(* A closed run is neither reopened nor given another state: a corollary of the *)
(* history, for the states that are written (emergency_stop.py:125-141).        *)
THEOREM ClosedRunsStayClosed == Spec => ClosedRunsFrozen
<1> DEFINE Frozen == \A r \in 1..nRuns : runStatus[r] # "RUNNING" =>
                        runStatus'[r] # "RUNNING" /\ botState'[r] = botState[r]
           st == [q \in 1..nRuns |-> resolve_persisted_state(botState[q])]
           ss == [q \in 1..nRuns |-> runStatus[q]]
\* The states written tell whether the resolved one has changed.
<1>1. ASSUME TypeOK, TypeOK', StatesWritten, StatesWritten', NEW r \in 1..nRuns, nRuns' >= nRuns,
             runStatus'[r] # "RUNNING",
             resolve_persisted_state(botState'[r]) = resolve_persisted_state(botState[r])
      PROVE  botState'[r] = botState[r]
  <2>1. r \in Runs
    BY <1>1, BoundsAreNaturals DEF TypeOK, Runs
  <2>2. QED
    BY <1>1, <2>1 DEF StatesWritten, resolve_persisted_state
<1>2. ASSUME TypeOK, TypeOK', StatesWritten, StatesWritten', History!Next PROVE Frozen
  <2> SUFFICES ASSUME NEW r \in 1..nRuns, runStatus[r] # "RUNNING"
               PROVE  runStatus'[r] # "RUNNING" /\ botState'[r] = botState[r]
    OBVIOUS
  <2>1. r \notin History!Open /\ ss[r] = runStatus[r] /\ st[r] = resolve_persisted_state(botState[r])
    BY DEF History!Open
  <2>2. ASSUME r \in 1..nRuns', nRuns' >= nRuns, ss'[r] # "RUNNING", st'[r] = st[r]
        PROVE  runStatus'[r] # "RUNNING" /\ botState'[r] = botState[r]
    BY <1>1, <1>2, <2>1, <2>2
  <2>3. ASSUME NEW crashed \in 0..nRuns, NEW s \in History!BirthStates, History!Begin(crashed, s)
        PROVE  runStatus'[r] # "RUNNING" /\ botState'[r] = botState[r]
    <3>1. nRuns' = nRuns + 1 /\ nRuns \in Nat /\ r \in 1..nRuns' /\ r # nRuns'
      BY <1>2, <2>3 DEF History!Begin, TypeOK
    <3>2. ss'[r] # "RUNNING" /\ st'[r] = st[r]
      BY <2>1, <2>3, <3>1 DEF History!Begin
    <3>3. QED
      BY <2>2, <3>1, <3>2
  <2>4. ASSUME NEW q \in 1..nRuns, History!Stop(q)
        PROVE  runStatus'[r] # "RUNNING" /\ botState'[r] = botState[r]
    <3>1. nRuns' = nRuns /\ ss' = [ss EXCEPT ![q] = "STOPPED"] /\ st' = st
      BY <2>4 DEF History!Stop
    <3>2. ss'[r] # "RUNNING" /\ st'[r] = st[r]
      BY <2>1, <3>1
    <3>3. QED
      BY <1>2, <2>2, <3>1, <3>2 DEF TypeOK
  <2>5. ASSUME NEW q \in 1..nRuns, History!Restrict(q)
        PROVE  runStatus'[r] # "RUNNING" /\ botState'[r] = botState[r]
    <3>1. nRuns' = nRuns /\ ss' = ss /\ q # r /\ \E s : st' = [st EXCEPT ![q] = s]
      BY <2>1, <2>5 DEF History!Restrict
    <3>2. ss'[r] # "RUNNING" /\ st'[r] = st[r]
      BY <2>1, <3>1
    <3>3. QED
      BY <1>2, <2>2, <3>1, <3>2 DEF TypeOK
  <2>6. QED
    BY <1>2, <2>3, <2>4, <2>5 DEF History!Next
<1>3. ASSUME TypeOK, TypeOK', StatesWritten, StatesWritten', UNCHANGED History!vars PROVE Frozen
  <2>1. nRuns' = nRuns /\ ss' = ss /\ st' = st
    BY <1>3 DEF History!vars
  <2>2. ASSUME NEW r \in 1..nRuns, runStatus[r] # "RUNNING"
        PROVE  runStatus'[r] # "RUNNING" /\ botState'[r] = botState[r]
    <3>1. /\ ss[r] = runStatus[r] /\ ss'[r] = runStatus'[r]
          /\ st[r] = resolve_persisted_state(botState[r])
          /\ st'[r] = resolve_persisted_state(botState'[r])
      BY <2>1
    <3>2. QED
      BY <1>1, <1>3, <2>1, <2>2, <3>1 DEF TypeOK
  <2>3. QED
    BY <2>2
<1>4. HistoryInd /\ HistoryInd' /\ [Next]_vars => [Frozen]_vars
  <2>1. HistoryInd /\ [Next]_vars => History!Next \/ UNCHANGED History!vars
    BY HistoryStep DEF HistoryInd
  <2>2. HistoryInd => TypeOK /\ StatesWritten
    BY DEF HistoryInd, LockInv, OwnershipInv, HistoryInv
  <2>3. HistoryInd' => TypeOK' /\ StatesWritten'
    BY DEF HistoryInd, LockInv, OwnershipInv, HistoryInv
  <2> HIDE DEF Frozen
  <2>4. QED
    BY <1>2, <1>3, <2>1, <2>2, <2>3
<1>5. QED
  BY <1>4, HistoryInvariant, PTL DEF Spec, ClosedRunsFrozen
=============================================================================
