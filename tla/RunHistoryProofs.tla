-------------------------- MODULE RunHistoryProofs --------------------------
(***************************************************************************)
(* What RunHistory's promise is good for: the facts about the open run and  *)
(* the kill switch that its readers rely on follow from it, without a word  *)
(* about locks or processes.                                                *)
(***************************************************************************)
EXTENDS RunHistory, TLAPS

IInv ==
    /\ newest \in Nat
    /\ status \in [1..newest -> {"RUNNING", "STOPPED", "CRASHED"}]
    /\ state \in [1..newest -> {"ACTIVE", "SAFE_MODE", "KILL_SWITCH_TRIGGERED"}]
    /\ OnlyNewestOpen
    /\ ~Overlap => KillInherited

(* A new run is born in a state of its own type, and adds to what is there.     *)
LEMMA BeginKeeps ==
    ASSUME IInv, NEW crashed \in 0..newest, NEW s \in BirthStates, Begin(crashed, s)
    PROVE  IInv'
<1>1. newest \in Nat /\ newest' = newest + 1 /\ newest + 1 \notin 1..newest
  BY DEF IInv, Begin
<1>2. s \in {"ACTIVE", "SAFE_MODE", "KILL_SWITCH_TRIGGERED"}
  BY DEF BirthStates, IInv, Killed
<1>3. /\ \A r \in 1..newest' : r = newest + 1 \/ r \in 1..newest
      /\ \A r \in 1..newest : r \in 1..newest'
  BY <1>1
<1>4. status' \in [1..newest' -> {"RUNNING", "STOPPED", "CRASHED"}]
  BY <1>1, <1>3 DEF IInv, Begin
<1>5. state' \in [1..newest' -> {"ACTIVE", "SAFE_MODE", "KILL_SWITCH_TRIGGERED"}]
  BY <1>1, <1>2, <1>3 DEF IInv, Begin
<1>6. OnlyNewestOpen'
  <2>1. \A r \in 1..newest : status'[r] # "RUNNING"
    BY <1>1, <1>3 DEF Begin, Open
  <2>2. QED
    BY <1>1, <1>3, <2>1 DEF OnlyNewestOpen, Open
<1>7. ~Overlap => KillInherited'
  <2> SUFFICES ASSUME ~Overlap, NEW r \in Killed', r < newest'
               PROVE  r + 1 \in Killed'
    BY DEF KillInherited
  <2>1. r \in 1..newest /\ r + 1 \in 1..newest'
    BY <1>1 DEF Killed
  <2>2. \A q \in 1..newest : q \in Killed' <=> q \in Killed
    BY <1>1, <1>3 DEF Killed, Begin
  <2>3. CASE r = newest
    <3>1. s = "KILL_SWITCH_TRIGGERED"
      BY <2>1, <2>2, <2>3 DEF BirthStates
    <3>2. state'[newest'] = s
      BY <1>1, <1>3 DEF Begin
    <3>3. QED
      BY <1>1, <2>1, <2>3, <3>1, <3>2 DEF Killed
  <2>4. CASE r < newest
    <3>1. r \in Killed /\ r + 1 \in 1..newest
      BY <1>1, <2>1, <2>2, <2>4
    <3>2. r + 1 \in Killed
      BY <2>4, <3>1 DEF IInv, KillInherited
    <3>3. QED
      BY <2>2, <3>1, <3>2
  <2>5. QED
    BY <1>1, <2>1, <2>3, <2>4
<1>8. QED
  BY <1>1, <1>4, <1>5, <1>6, <1>7 DEF IInv

(* A restriction reaches the newest run only, so it breaks no inheritance.      *)
LEMMA RestrictKeeps == ASSUME IInv, NEW r \in 1..newest, Restrict(r) PROVE IInv'
<1>1. r = newest /\ r \in Open
  BY DEF Restrict, IInv, OnlyNewestOpen
<1>2. PICK s \in Tighter(state[r]) : state' = [state EXCEPT ![r] = s]
  BY DEF Restrict
<1>3. s \in {"SAFE_MODE", "KILL_SWITCH_TRIGGERED"} /\ state[r] # "KILL_SWITCH_TRIGGERED"
  BY DEF Tighter, IInv
<1>4. newest' = newest /\ status' = status
  BY DEF Restrict
<1>5. OnlyNewestOpen'
  BY <1>4 DEF IInv, OnlyNewestOpen, Open
<1>6. ~Overlap => KillInherited'
  <2> SUFFICES ASSUME ~Overlap, NEW q \in Killed', q < newest PROVE q + 1 \in Killed'
    BY <1>4 DEF KillInherited
  <2>1. q \in 1..newest /\ q # r /\ q + 1 \in 1..newest
    BY <1>1, <1>4 DEF Killed, IInv
  <2>2. q \in Killed
    BY <1>2, <1>4, <2>1 DEF Killed, IInv
  <2>3. q + 1 \in Killed
    BY <2>2 DEF IInv, KillInherited
  <2>4. QED
    BY <1>2, <1>3, <1>4, <2>1, <2>3 DEF Killed, IInv
<1>7. QED
  BY <1>2, <1>3, <1>4, <1>5, <1>6 DEF IInv

(* Every reachable history has one open run at most, its newest, and without    *)
(* requests during start-ups, killed runs followed by killed runs.              *)
LEMMA HistoryInductive == Spec => []IInv
<1>1. Init => IInv
  BY DEF Init, IInv, OnlyNewestOpen, KillInherited, Open, Killed
<1>2. IInv /\ [Next]_vars => IInv'
  <2> SUFFICES ASSUME IInv, [Next]_vars PROVE IInv'
    OBVIOUS
  <2>1. ASSUME NEW crashed \in 0..newest, NEW s \in BirthStates, Begin(crashed, s) PROVE IInv'
    BY <2>1, BeginKeeps
  <2>2. ASSUME NEW r \in 1..newest, Stop(r) PROVE IInv'
    BY <2>2 DEF Stop, IInv, OnlyNewestOpen, KillInherited, Open, Killed
  <2>3. ASSUME NEW r \in 1..newest, Restrict(r) PROVE IInv'
    BY <2>3, RestrictKeeps
  <2>4. CASE UNCHANGED vars
    BY <2>4 DEF vars, IInv, OnlyNewestOpen, KillInherited, Open, Killed
  <2>5. QED
    BY <2>1, <2>2, <2>3, <2>4 DEF Next
<1>3. QED
  BY <1>1, <1>2, PTL DEF Spec

(* At most one run is open, and it is the newest: what POST /kill-switch        *)
(* resolves is what the next start-up reads (bot.py:24-46).                     *)
THEOREM OneOpenRun == Spec => []OnlyNewestOpen
  BY HistoryInductive, PTL DEF IInv

(* Without requests during start-ups, a run born after a killed run is killed   *)
(* (orchestrator.py:308-350).                                                   *)
THEOREM KillSwitchInherited == ~Overlap /\ Spec => []KillInherited
<1> SUFFICES ASSUME ~Overlap PROVE Spec => []KillInherited
  OBVIOUS
<1>1. IInv => KillInherited
  BY DEF IInv
<1>2. QED
  BY <1>1, HistoryInductive, PTL

(* No step reopens a closed run or changes its state.                           *)
THEOREM ClosedRunIsFinal == Spec => ClosedIsFinal
<1>1. IInv /\ [Next]_vars =>
        [\A r \in 1..newest \ Open : status'[r] # "RUNNING" /\ state'[r] = state[r]]_vars
  <2> SUFFICES ASSUME IInv, Next, NEW r \in 1..newest \ Open
               PROVE  status'[r] # "RUNNING" /\ state'[r] = state[r]
    BY DEF vars
  <2>1. ASSUME NEW crashed \in 0..newest, NEW s \in BirthStates, Begin(crashed, s)
        PROVE  status'[r] # "RUNNING" /\ state'[r] = state[r]
    <3>1. r \in 1..newest' /\ r # newest' /\ status[r] # "RUNNING"
      BY <2>1 DEF Begin, Open, IInv
    <3>2. QED
      BY <2>1, <3>1 DEF Begin
  <2>2. ASSUME NEW q \in 1..newest, Stop(q) \/ Restrict(q)
        PROVE  status'[r] # "RUNNING" /\ state'[r] = state[r]
    BY <2>2 DEF Stop, Restrict, Open, IInv
  <2>3. QED
    BY <2>1, <2>2 DEF Next
<1>2. QED
  BY <1>1, HistoryInductive, PTL DEF Spec, ClosedIsFinal
=============================================================================
