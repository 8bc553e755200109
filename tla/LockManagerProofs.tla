------------------------- MODULE LockManagerProofs -------------------------
(***************************************************************************)
(* Theorems about LockManager for any number of callers, any bound on the  *)
(* generation counter and any timeouts.                                    *)
(***************************************************************************)
EXTENDS LockManager, TLAPS

\* Part of the inductive invariant: a session, and what an unlock in progress
\* will publish or has published, carries a generation that was issued.
Issued ==
    /\ state # Locked => state.id <= generation
    /\ \A c \in Callers : call[c].pc \in UnlockPCs =>
          /\ call[c].session # Locked
          /\ call[c].session.id <= generation

\* Part of the inductive invariant: no two unlocks share a generation.
Distinct ==
    \A c, d \in Callers :
        At(c, "publish") /\ At(d, "publish") /\ c # d =>
            call[c].session.id # call[d].session.id

\* Part of the inductive invariant: what a timer waited since it last observed
\* activity and what it has still to wait make up its timeout.
TimerExact ==
    \A g \in Gen :
        /\ task[g].status = "spawned" => task[g].idle = 0
        /\ task[g].status = "waiting" => task[g].idle + task[g].left = task[g].timeout
        /\ task[g].status = "expired" => task[g].idle = task[g].timeout

----------------------------------------------------------------------------
(* Type correctness.                                                       *)

\* The records the actions build have their types.
LEMMA IdleCallType == IdleCall \in Call
BY ConstantsAssumption DEF IdleCall, Call, PCs, Gen, SensitiveOperation

LEMMA NoTimerType ==
    /\ NoTimer \in Task /\ NoTimer.left <= NoTimer.timeout
    /\ EndedTask \in Task /\ EndedTask.left <= EndedTask.timeout
<1>1. NoTimer \in Task /\ NoTimer.left <= NoTimer.timeout
  BY DEF NoTimer, Task
<1>2. EndedTask \in Task
  BY <1>1 DEF EndedTask, Task
<1>3. EndedTask.left <= EndedTask.timeout
  BY <1>1 DEF EndedTask, NoTimer
<1>. QED BY <1>1, <1>2, <1>3

\* Callers' records keep their type when one field changes.
LEMMA GotoType ==
    ASSUME call \in [Callers -> Call], NEW c \in Callers, NEW pc \in PCs, Goto(c, pc)
    PROVE  call' \in [Callers -> Call]
BY DEF Goto, Call

LEMMA ReturnType ==
    ASSUME call \in [Callers -> Call], NEW c \in Callers, Return(c)
    PROVE  call' \in [Callers -> Call]
BY IdleCallType DEF Return

\* cancel_auto_lock keeps the types.
LEMMA CancelType ==
    ASSUME TypeOK, cancel_auto_lock
    PROVE  /\ auto_lock_task' \in Gen \cup {NoTask}
           /\ task' \in [Gen -> Task]
           /\ \A g \in Gen : task'[g].left <= task'[g].timeout
<1>1. CASE auto_lock_task # NoTask /\ task[auto_lock_task].status \in Alive
  <2>1. auto_lock_task \in Gen
    BY <1>1 DEF TypeOK
  <2>2. task' = [task EXCEPT ![auto_lock_task].aborted = TRUE]
    BY <1>1 DEF cancel_auto_lock
  <2>3. task' \in [Gen -> Task]
    BY <2>1, <2>2 DEF TypeOK, Task
  <2>4. \A g \in Gen : task'[g].left <= task'[g].timeout
    BY <2>1, <2>2 DEF TypeOK, Task
  <2>. QED BY <2>3, <2>4 DEF cancel_auto_lock
<1>2. CASE ~(auto_lock_task # NoTask /\ task[auto_lock_task].status \in Alive)
  BY <1>2 DEF TypeOK, cancel_auto_lock
<1>. QED BY <1>1, <1>2

LEMMA TypeInit == Init => TypeOK
BY ConstantsAssumption, IdleCallType, NoTimerType DEF Init, TypeOK, Gen

\* Durations are numbers.
LEMMA TaskTypes ==
    ASSUME TypeOK, NEW g \in Gen
    PROVE  /\ task[g] \in Task
           /\ task[g].timeout \in Nat /\ task[g].left \in Nat /\ task[g].idle \in Nat
<1>1. task[g] \in Task
  BY DEF TypeOK
<1>2. task[g].timeout \in Timeouts \cup {0} /\ task[g].left \in Nat /\ task[g].idle \in Nat
  BY <1>1 DEF Task
<1>3. \A x \in Timeouts \cup {0} : x \in Nat
  BY ConstantsAssumption
<1>. QED BY <1>1, <1>2, <1>3

LEMMA TypeStep == TypeOK /\ Issued /\ [Next]_vars => TypeOK'
<1>. SUFFICES ASSUME TypeOK, Issued, [Next]_vars PROVE TypeOK'
  OBVIOUS
<1>. USE DEF PCs, UnlockPCs, LockPCs
<1>1. ASSUME NEW c \in Callers, NEW strength \in Strengths, NEW outcome \in Outcomes,
             NEW runtime \in Runtimes, NEW timeout \in Timeouts,
             BeginUnlock(c, strength, outcome, runtime, timeout)
      PROVE  TypeOK'
  <2>1. generation' \in Gen /\ generation + 1 \in Gen
    BY <1>1, ConstantsAssumption
    DEF BeginUnlock, CanAdvance, published_generation, TypeOK, Gen
  <2>2. NewSession(strength, outcome, runtime) \in Session
    BY <2>1 DEF NewSession, next_generation, Session, reauth_at_unlock
  <2>3. [IdleCall EXCEPT !.pc = "publish", 
            !.session = NewSession(strength, outcome, runtime), !.timeout = timeout] \in Call
    BY <2>2, IdleCallType DEF Call
  <2>4. call' \in [Callers -> Call]
    BY <1>1, <2>3 DEF BeginUnlock, TypeOK
  <2>. QED BY <1>1, <2>1, <2>4 DEF BeginUnlock, TypeOK
<1>2. ASSUME NEW c \in Callers, PublishSession(c) PROVE TypeOK'
  <2>1. call' \in [Callers -> Call]
    BY <1>2, GotoType DEF PublishSession, TypeOK
  <2>. QED BY <1>2, <2>1 DEF PublishSession, TypeOK, Call
<1>3. ASSUME NEW c \in Callers, CancelOldTimer(c) PROVE TypeOK'
  <2>1. call' \in [Callers -> Call]
    BY <1>3, GotoType DEF CancelOldTimer, TypeOK
  <2>. QED BY <1>3, <2>1, CancelType DEF CancelOldTimer, TypeOK
<1>4. ASSUME NEW c \in Callers, SpawnTimer(c) PROVE TypeOK'
  <2>1. call' \in [Callers -> Call]
    BY <1>4, GotoType DEF SpawnTimer, TypeOK
  <2>2. call[c].session.id \in Gen /\ call[c].timeout \in Timeouts \cup {0}
    BY <1>4 DEF SpawnTimer, At, Issued, TypeOK, Call, Session
  <2>. DEFINE t == [NoTimer EXCEPT !.status = "spawned", !.timeout = call[c].timeout]
  <2>a. t \in Task
    BY <2>2, NoTimerType DEF Task
  <2>b. t.left = 0 /\ t.timeout = call[c].timeout
    BY DEF NoTimer
  <2>3. t \in Task /\ t.left <= t.timeout
    BY <2>2, <2>a, <2>b, ConstantsAssumption
  <2>4. task' = [task EXCEPT ![call[c].session.id] = t]
    BY <1>4 DEF SpawnTimer
  <2>. HIDE DEF t
  <2>. QED BY <1>4, <2>1, <2>2, <2>3, <2>4 DEF SpawnTimer, TypeOK
<1>5. ASSUME NEW c \in Callers, StoreHandle(c) PROVE TypeOK'
  <2>1. call' \in [Callers -> Call]
    BY <1>5, ReturnType DEF StoreHandle, TypeOK
  <2>2. call[c].session.id \in Gen
    BY <1>5 DEF StoreHandle, At, Issued, TypeOK, Call, Session
  <2>. QED BY <1>5, <2>1, <2>2 DEF StoreHandle, TypeOK
<1>6. ASSUME NEW c \in Callers, BeginLock(c) PROVE TypeOK'
  <2>1. generation' \in Gen
    BY <1>6, ConstantsAssumption
    DEF BeginLock, CanAdvance, published_generation, TypeOK, Gen
  <2>2. call' \in [Callers -> Call]
    BY <1>6, GotoType DEF BeginLock, TypeOK
  <2>. QED BY <1>6, <2>1, <2>2 DEF BeginLock, TypeOK
<1>7. ASSUME NEW c \in Callers, WipeState(c) PROVE TypeOK'
  <2>1. call' \in [Callers -> Call]
    BY <1>7, GotoType DEF WipeState, TypeOK
  <2>. QED BY <1>7, <2>1 DEF WipeState, TypeOK
<1>8. ASSUME NEW c \in Callers, CancelTimer(c) PROVE TypeOK'
  <2>1. call' \in [Callers -> Call]
    BY <1>8, ReturnType DEF CancelTimer, TypeOK
  <2>. QED BY <1>8, <2>1, CancelType DEF CancelTimer, TypeOK
<1>9. ASSUME NEW g \in Gen, TimerStart(g) PROVE TypeOK'
  <2>. DEFINE t == [task[g] EXCEPT !.status = "waiting", !.left = task[g].timeout]
  <2>a. t \in Task
    BY TaskTypes DEF Task
  <2>b. t.left = task[g].timeout /\ t.timeout = task[g].timeout
    BY TaskTypes DEF Task
  <2>1. t \in Task /\ t.left <= t.timeout
    BY <2>a, <2>b, TaskTypes
  <2>2. task' = [task EXCEPT ![g] = t]
    BY <1>9 DEF TimerStart, TypeOK
  <2>. HIDE DEF t
  <2>. QED BY <1>9, <2>1, <2>2 DEF TimerStart, TypeOK
<1>10. ASSUME NEW g \in Gen, TimerExpire(g) PROVE TypeOK'
  <2>1. task' \in [Gen -> Task]
    BY <1>10 DEF TimerExpire, TypeOK, Task
  <2>2. \A h \in Gen : task'[h].left <= task'[h].timeout
    BY <1>10 DEF TimerExpire, TypeOK, Task
  <2>. QED BY <1>10, <2>1, <2>2 DEF TimerExpire, TypeOK
<1>11. ASSUME NEW g \in Gen, TimerFire(g) PROVE TypeOK'
  BY <1>11, NoTimerType DEF TimerFire, TypeOK
<1>12. ASSUME NEW g \in Gen, TimerActivity(g) PROVE TypeOK'
  <2>1. CASE is_current(g)
    <3>1. task' = [task EXCEPT ![g] = [task[g] EXCEPT
              !.permit = FALSE, !.left = task[g].timeout, !.idle = 0]]
      BY <1>12, <2>1 DEF TimerActivity, push_deadline, TypeOK
    <3>2. [task[g] EXCEPT !.permit = FALSE, !.left = task[g].timeout, !.idle = 0] \in Task
      BY TaskTypes DEF Task
    <3>3. task' \in [Gen -> Task]
      BY <3>1, <3>2 DEF TypeOK
    <3>4. \A h \in Gen : task'[h].left <= task'[h].timeout
      BY <3>1, ConstantsAssumption DEF TypeOK, Task
    <3>. QED BY <1>12, <3>3, <3>4 DEF TimerActivity, TypeOK
  <2>2. CASE ~is_current(g)
    BY <1>12, <2>2, NoTimerType DEF TimerActivity, TypeOK
  <2>. QED BY <2>1, <2>2
<1>13. ASSUME NEW g \in Gen, TaskDrop(g) PROVE TypeOK'
  BY <1>13, NoTimerType DEF TaskDrop, TypeOK
<1>14. CASE Tick
  <2>1. ASSUME NEW g \in Gen PROVE task'[g] \in Task /\ task'[g].left <= task'[g].timeout
    <3>1. CASE task[g].status = "waiting" /\ task[g].left > 0
      <4>1. task'[g] = [task[g] EXCEPT !.left = @ - 1, !.idle = @ + 1]
        BY <1>14, <3>1 DEF Tick
      <4>2. task[g].left - 1 \in Nat /\ task[g].idle + 1 \in Nat
        BY <3>1, TaskTypes
      <4>3. task'[g] \in Task
        BY <4>1, <4>2, TaskTypes DEF Task
      <4>4. task'[g].left = task[g].left - 1 /\ task'[g].timeout = task[g].timeout
        BY <4>1, TaskTypes DEF Task
      <4>5. task[g].left <= task[g].timeout
        BY DEF TypeOK
      <4>. QED BY <4>3, <4>4, <4>5, TaskTypes
    <3>2. CASE ~(task[g].status = "waiting" /\ task[g].left > 0)
      BY <1>14, <3>2, TaskTypes DEF Tick, TypeOK
    <3>. QED BY <3>1, <3>2
  <2>2. task' \in [Gen -> Task]
    BY <1>14, <2>1 DEF Tick
  <2>. QED BY <1>14, <2>1, <2>2 DEF Tick, TypeOK
<1>15. ASSUME NEW c \in Callers, CloneNotify(c) PROVE TypeOK'
  <2>. DEFINE r == [call[c] EXCEPT !.pc = "notify", !.handle = notify]
  <2>1. r \in Call
    BY DEF TypeOK, Call
  <2>2. call' = [call EXCEPT ![c] = r]
    BY <1>15 DEF CloneNotify, TypeOK
  <2>. HIDE DEF r
  <2>. QED BY <1>15, <2>1, <2>2 DEF CloneNotify, TypeOK
<1>16. ASSUME NEW c \in Callers, NotifyOne(c) PROVE TypeOK'
  <2>1. call' \in [Callers -> Call] /\ call[c].handle \in Gen
    BY <1>16, ReturnType DEF NotifyOne, TypeOK, Call
  <2>2. task' \in [Gen -> Task]
    BY <1>16, <2>1 DEF NotifyOne, TypeOK, Task
  <2>3. \A h \in Gen : task'[h].left <= task'[h].timeout
    BY <1>16, <2>1 DEF NotifyOne, TypeOK, Task
  <2>. QED BY <1>16, <2>1, <2>2, <2>3 DEF NotifyOne, TypeOK
<1>17. ASSUME NEW c \in Callers, NEW runtime \in Runtimes, SetRuntimePolicyState(c, runtime)
       PROVE  TypeOK'
  <2>1. state \in Session
    BY <1>17 DEF SetRuntimePolicyState, TypeOK
  <2>2. state' \in Session
    BY <1>17, <2>1 DEF SetRuntimePolicyState, Session, reauth_after_posture, is_restrictive
  <2>. QED BY <1>17, <2>2 DEF SetRuntimePolicyState, TypeOK
<1>18. ASSUME NEW c \in Callers, MarkStrongReauthRequired(c) PROVE TypeOK'
  <2>1. state' \in Session
    BY <1>18 DEF MarkStrongReauthRequired, TypeOK, Session
  <2>. QED BY <1>18, <2>1 DEF MarkStrongReauthRequired, TypeOK
<1>19. ASSUME NEW c \in Callers, ClearStrongReauthRequirement(c) PROVE TypeOK'
  <2>1. state' \in Session
    BY <1>19 DEF ClearStrongReauthRequirement, TypeOK, Session
  <2>. QED BY <1>19, <2>1 DEF ClearStrongReauthRequirement, TypeOK
<1>20. ASSUME NEW c \in Callers, NEW op \in Operations, CheckPolicy(c, op) PROVE TypeOK'
  <2>1. [IdleCall EXCEPT !.pc = "reauth", !.session = state, !.op = op] \in Call
    BY IdleCallType, ConstantsAssumption DEF Call, TypeOK
  <2>2. call' \in [Callers -> Call]
    BY <1>20, <2>1 DEF CheckPolicy, TypeOK
  <2>. QED BY <1>20, <2>2 DEF CheckPolicy, TypeOK
<1>21. ASSUME NEW c \in Callers, CheckReauth(c) PROVE TypeOK'
  <2>1. call' \in [Callers -> Call]
    <3>1. CASE Return(c)
      BY <3>1, ReturnType DEF TypeOK
    <3>2. CASE call' = [call EXCEPT ![c].pc = "entry", ![c].checked = state]
      <4>. DEFINE r == [call[c] EXCEPT !.pc = "entry", !.checked = state]
      <4>1. r \in Call
        BY DEF TypeOK, Call
      <4>2. call' = [call EXCEPT ![c] = r]
        BY <3>2 DEF TypeOK
      <4>. HIDE DEF r
      <4>. QED BY <4>1, <4>2 DEF TypeOK
    <3>. QED BY <1>21, <3>1, <3>2 DEF CheckReauth
  <2>. QED BY <1>21, <2>1 DEF CheckReauth, TypeOK
<1>22. ASSUME NEW c \in Callers, GetEntry(c) PROVE TypeOK'
  BY <1>22, ReturnType DEF GetEntry, TypeOK
<1>23. ASSUME NEW c \in Callers, DropCall(c) PROVE TypeOK'
  BY <1>23, ReturnType DEF DropCall, TypeOK
<1>24. CASE UNCHANGED vars
  BY <1>24 DEF vars, TypeOK
<1>. QED
  BY <1>1, <1>2, <1>3, <1>4, <1>5, <1>6, <1>7, <1>8, <1>9, <1>10, <1>11, <1>12, <1>13,
     <1>14, <1>15, <1>16, <1>17, <1>18, <1>19, <1>20, <1>21, <1>22, <1>23, <1>24
  DEF Next, Start, Continue, TimerStep, HandleRuntimeSecurityEvent

----------------------------------------------------------------------------
(* Generations.                                                            *)

LEMMA GenerationInit == Init => Issued /\ Distinct
BY DEF Init, Issued, Distinct, At, IdleCall, UnlockPCs

\* A step that keeps the counter and the state, and after which no caller is
\* inside an unlock that it was not in before, keeps both parts.
LEMMA GenerationFrame ==
    ASSUME Issued, Distinct,
           generation' = generation,
           state' # Locked => state # Locked /\ state'.id = state.id,
           \A c \in Callers : call'[c].pc \in UnlockPCs =>
              /\ call[c].pc \in UnlockPCs
              /\ call'[c].session = call[c].session
              /\ call'[c].pc = "publish" => call[c].pc = "publish"
    PROVE  Issued' /\ Distinct'
<1>1. Issued'
  BY DEF Issued
<1>2. Distinct'
  BY DEF Distinct, At, UnlockPCs
<1>. QED BY <1>1, <1>2

LEMMA GenerationStep == TypeOK /\ Issued /\ Distinct /\ [Next]_vars => Issued' /\ Distinct'
<1>. SUFFICES ASSUME TypeOK, Issued, Distinct, [Next]_vars PROVE Issued' /\ Distinct'
  OBVIOUS
<1>. USE DEF At, Idle, UnlockPCs
<1>1. ASSUME NEW c \in Callers, NEW strength \in Strengths, NEW outcome \in Outcomes,
             NEW runtime \in Runtimes, NEW timeout \in Timeouts,
             BeginUnlock(c, strength, outcome, runtime, timeout)
      PROVE  Issued' /\ Distinct'
  <2>1. generation \in Nat /\ generation' = generation + 1
    BY <1>1 DEF BeginUnlock, published_generation, TypeOK, Gen
  <2>2. NewSession(strength, outcome, runtime) \in Session
    BY <1>1, ConstantsAssumption DEF BeginUnlock, CanAdvance, published_generation,
       NewSession, next_generation, Session, reauth_at_unlock, TypeOK, Gen
  <2>3. /\ call'[c].session = NewSession(strength, outcome, runtime)
        /\ \A d \in Callers : d # c => call'[d] = call[d]
    BY <1>1 DEF BeginUnlock, TypeOK, IdleCall
  <2>4. call'[c].session # Locked /\ call'[c].session.id = generation + 1
    <3>1. call'[c].session # Locked
      BY <2>2, <2>3, LockedAssumption
    <3>2. NewSession(strength, outcome, runtime).id = generation + 1
      BY DEF NewSession, next_generation
    <3>. QED BY <2>3, <3>1, <3>2
  <2>5. \A d \in Callers : call[d].pc \in UnlockPCs =>
           call[d].session.id \in Nat /\ call[d].session.id <= generation
    BY DEF Issued, TypeOK, Call, Session, Gen
  <2>6. Issued'
    BY <1>1, <2>1, <2>3, <2>4, <2>5 DEF Issued, BeginUnlock, TypeOK, Session, Gen
  <2>7. Distinct'
    BY <2>1, <2>3, <2>4, <2>5 DEF Distinct
  <2>. QED BY <2>6, <2>7
<1>2. ASSUME NEW c \in Callers, PublishSession(c) PROVE Issued' /\ Distinct'
  <2>1. /\ call'[c].pc = "cancel_old" /\ call'[c].session = call[c].session
        /\ \A d \in Callers : d # c => call'[d] = call[d]
    BY <1>2 DEF PublishSession, Goto, TypeOK, Call
  <2>2. Issued'
    BY <1>2, <2>1 DEF PublishSession, Issued
  <2>3. Distinct'
    BY <2>1 DEF Distinct
  <2>. QED BY <2>2, <2>3
<1>3. ASSUME NEW c \in Callers,
             CancelOldTimer(c) \/ SpawnTimer(c) \/ StoreHandle(c) \/ DropCall(c)
      PROVE  Issued' /\ Distinct'
  <2>1. \A d \in Callers : call'[d].pc \in UnlockPCs =>
              /\ call[d].pc \in UnlockPCs
              /\ call'[d].session = call[d].session
              /\ call'[d].pc = "publish" => call[d].pc = "publish"
    BY <1>3 DEF CancelOldTimer, SpawnTimer, StoreHandle, DropCall, Goto, Return, IdleCall,
       TypeOK, Call
  <2>. QED BY <1>3, <2>1, GenerationFrame DEF CancelOldTimer, SpawnTimer, StoreHandle, DropCall
<1>4. ASSUME NEW c \in Callers, BeginLock(c) PROVE Issued' /\ Distinct'
  <2>1. generation \in Nat /\ generation' = generation + 1 /\ state' = state
    BY <1>4 DEF BeginLock, published_generation, TypeOK, Gen
  <2>2. \A d \in Callers : call'[d].pc \in UnlockPCs => call'[d] = call[d]
    BY <1>4 DEF BeginLock, Goto, TypeOK, Call
  <2>3. \A d \in Callers : call[d].pc \in UnlockPCs =>
           call[d].session.id \in Nat /\ call[d].session.id <= generation
    BY DEF Issued, TypeOK, Call, Session, Gen
  <2>4. Issued'
    BY <2>1, <2>2, <2>3 DEF Issued, TypeOK, Session, Gen
  <2>5. Distinct'
    BY <2>2 DEF Distinct
  <2>. QED BY <2>4, <2>5
<1>5. ASSUME NEW c \in Callers,
             WipeState(c) \/ CancelTimer(c) \/ CloneNotify(c) \/ NotifyOne(c)
             \/ CheckReauth(c) \/ GetEntry(c)
             \/ (\E op \in Operations : CheckPolicy(c, op))
      PROVE  Issued' /\ Distinct'
  <2>1. \A d \in Callers : call'[d].pc \in UnlockPCs => call'[d] = call[d]
    <3>1. CASE WipeState(c)
      BY <3>1 DEF WipeState, Goto, TypeOK, Call
    <3>2. CASE CancelTimer(c) \/ NotifyOne(c) \/ GetEntry(c)
      BY <3>2 DEF CancelTimer, NotifyOne, GetEntry, Return, IdleCall, TypeOK
    <3>3. CASE CloneNotify(c)
      BY <3>3 DEF CloneNotify, TypeOK, Call
    <3>4. CASE CheckReauth(c)
      BY <3>4 DEF CheckReauth, Return, IdleCall, TypeOK, Call
    <3>5. CASE \E op \in Operations : CheckPolicy(c, op)
      BY <3>5 DEF CheckPolicy, IdleCall, TypeOK
    <3>. QED BY <1>5, <3>1, <3>2, <3>3, <3>4, <3>5
  <2>2. generation' = generation /\ (state' = state \/ state' = Locked)
    BY <1>5 DEF WipeState, CancelTimer, CloneNotify, NotifyOne, CheckReauth, GetEntry, CheckPolicy
  <2>. QED BY <2>1, <2>2, GenerationFrame
<1>6. ASSUME NEW g \in Gen, TimerStep(g) PROVE Issued' /\ Distinct'
  <2>1. generation' = generation /\ call' = call /\ (state' = state \/ state' = Locked)
    BY <1>6 DEF TimerStep, TimerStart, TimerExpire, TimerFire, TimerActivity, TaskDrop
  <2>. QED BY <2>1, GenerationFrame
<1>7. CASE Tick
  BY <1>7, GenerationFrame DEF Tick
<1>8. ASSUME NEW c \in Callers,
             MarkStrongReauthRequired(c) \/ ClearStrongReauthRequirement(c)
             \/ (\E runtime \in Runtimes : SetRuntimePolicyState(c, runtime))
      PROVE  Issued' /\ Distinct'
  <2>1. state # Locked /\ state'.id = state.id
    BY <1>8 DEF MarkStrongReauthRequired, ClearStrongReauthRequirement,
       SetRuntimePolicyState, TypeOK, Session
  <2>2. generation' = generation /\ call' = call
    BY <1>8 DEF MarkStrongReauthRequired, ClearStrongReauthRequirement, SetRuntimePolicyState
  <2>. QED BY <2>1, <2>2, GenerationFrame
<1>9. CASE UNCHANGED vars
  BY <1>9, GenerationFrame DEF vars
<1>. QED
  BY <1>1, <1>2, <1>3, <1>4, <1>5, <1>6, <1>7, <1>8, <1>9
  DEF Next, Start, Continue, HandleRuntimeSecurityEvent

----------------------------------------------------------------------------
(* Timers.                                                                 *)

LEMMA TimerInit == Init => TimerExact
BY DEF Init, TimerExact, NoTimer

\* A task whose status and durations a step leaves alone stays exact.
LEMMA TimerFrame ==
    ASSUME TimerExact,
           \A g \in Gen :
              \/ /\ task'[g].status = task[g].status
                 /\ task'[g].left = task[g].left
                 /\ task'[g].idle = task[g].idle
                 /\ task'[g].timeout = task[g].timeout
              \/ task'[g].status \notin {"waiting", "expired"} /\ task'[g].idle = 0
    PROVE  TimerExact'
BY DEF TimerExact

LEMMA TimerStepExact == TypeOK /\ Issued /\ TimerExact /\ [Next]_vars => TimerExact'
<1>. SUFFICES ASSUME TypeOK, Issued, TimerExact, [Next]_vars PROVE TimerExact'
  OBVIOUS
<1>1. CASE task' = task
  BY <1>1, TimerFrame
<1>2. ASSUME cancel_auto_lock PROVE TimerExact'
  BY <1>2, TimerFrame DEF cancel_auto_lock, TypeOK, Task
<1>3. ASSUME NEW c \in Callers, SpawnTimer(c) PROVE TimerExact'
  <2>1. call[c].session.id \in Gen
    BY <1>3 DEF SpawnTimer, At, Issued, TypeOK, Call, Session, UnlockPCs
  <2>. QED BY <1>3, <2>1, TimerFrame DEF SpawnTimer, TypeOK, NoTimer
<1>4. ASSUME NEW c \in Callers, NotifyOne(c) PROVE TimerExact'
  <2>1. call[c].handle \in Gen
    BY DEF TypeOK, Call
  <2>. QED BY <1>4, <2>1, TimerFrame DEF NotifyOne, TypeOK, Task
<1>5. ASSUME NEW g \in Gen, TimerStep(g) PROVE TimerExact'
  <2>1. \A h \in Gen : h # g => task'[h] = task[h]
    BY <1>5 DEF TimerStep, TimerStart, TimerExpire, TimerFire, TimerActivity, TaskDrop, TypeOK
  <2>2. CASE TimerFire(g) \/ TaskDrop(g)
    BY <2>1, <2>2, TimerFrame DEF TimerFire, TaskDrop, TypeOK, EndedTask, NoTimer
  <2>3. CASE TimerExpire(g)
    <3>1. /\ task[g].status = "waiting" /\ task[g].left = 0
          /\ task'[g] = [task[g] EXCEPT !.status = "expired"]
      BY <2>3 DEF TimerExpire, TypeOK
    <3>2. /\ task'[g].status = "expired" /\ task'[g].idle = task[g].idle
          /\ task'[g].timeout = task[g].timeout
      BY <3>1, TaskTypes DEF Task
    <3>3. task[g].idle = task[g].timeout
      BY <3>1, TaskTypes DEF TimerExact
    <3>. QED BY <2>1, <3>2, <3>3 DEF TimerExact
  <2>4. CASE TimerActivity(g)
    <3>1. CASE is_current(g)
      <4>1. task'[g] = [task[g] EXCEPT !.permit = FALSE, !.left = task[g].timeout, !.idle = 0]
        BY <2>4, <3>1 DEF TimerActivity, push_deadline, TypeOK
      <4>2. /\ task'[g].status = task[g].status /\ task'[g].idle = 0
            /\ task'[g].left = task[g].timeout /\ task'[g].timeout = task[g].timeout
            /\ task[g].status = "waiting"
        <5>1. task[g] \in Task
          BY TaskTypes
        <5>2. task[g].status = "waiting"
          BY <2>4 DEF TimerActivity
        <5>. QED BY <4>1, <5>1, <5>2 DEF Task
      <4>3. 0 + task[g].timeout = task[g].timeout
        BY TaskTypes
      <4>. QED BY <2>1, <4>2, <4>3 DEF TimerExact
    <3>2. CASE ~is_current(g)
      BY <2>1, <2>4, <3>2, TimerFrame DEF TimerActivity, TypeOK, EndedTask, NoTimer
    <3>. QED BY <3>1, <3>2
  <2>5. CASE TimerStart(g)
    <3>1. task'[g] = [task[g] EXCEPT !.status = "waiting", !.left = task[g].timeout]
      BY <2>5 DEF TimerStart, TypeOK
    <3>2. /\ task'[g].status = "waiting" /\ task'[g].idle = task[g].idle
          /\ task'[g].left = task[g].timeout /\ task'[g].timeout = task[g].timeout
      BY <3>1, TaskTypes DEF Task
    <3>3. task[g].idle = 0
      BY <2>5 DEF TimerStart, TimerExact
    <3>4. 0 + task[g].timeout = task[g].timeout
      BY TaskTypes
    <3>. QED BY <2>1, <3>2, <3>3, <3>4 DEF TimerExact
  <2>. QED BY <1>5, <2>2, <2>3, <2>4, <2>5 DEF TimerStep
<1>6. CASE Tick
  <2>. SUFFICES ASSUME NEW g \in Gen
                PROVE  /\ task'[g].status = "spawned" => task'[g].idle = 0
                       /\ task'[g].status = "waiting" =>
                             task'[g].idle + task'[g].left = task'[g].timeout
                       /\ task'[g].status = "expired" => task'[g].idle = task'[g].timeout
    BY DEF TimerExact
  <2>1. CASE task[g].status = "waiting" /\ task[g].left > 0
    <3>1. task'[g] = [task[g] EXCEPT !.left = @ - 1, !.idle = @ + 1]
      BY <1>6, <2>1 DEF Tick
    <3>2. /\ task'[g].status = "waiting" /\ task'[g].idle = task[g].idle + 1
          /\ task'[g].left = task[g].left - 1 /\ task'[g].timeout = task[g].timeout
      BY <2>1, <3>1, TaskTypes DEF Task
    <3>. QED BY <2>1, <3>2, TaskTypes DEF TimerExact
  <2>2. CASE ~(task[g].status = "waiting" /\ task[g].left > 0)
    BY <1>6, <2>2 DEF Tick, TimerExact
  <2>. QED BY <2>1, <2>2
<1>7. ASSUME NEW c \in Callers, Start(c) PROVE task' = task
  BY <1>7 DEF Start, BeginUnlock, BeginLock, CloneNotify, SetRuntimePolicyState,
     ClearStrongReauthRequirement, HandleRuntimeSecurityEvent, MarkStrongReauthRequired,
     CheckPolicy
<1>8. ASSUME NEW c \in Callers, Continue(c) PROVE TimerExact'
  BY <1>1, <1>2, <1>3, <1>4, <1>8 DEF Continue, PublishSession, CancelOldTimer, StoreHandle,
     WipeState, CancelTimer, CheckReauth, GetEntry
<1>9. CASE UNCHANGED vars
  BY <1>1, <1>9 DEF vars
<1>10. ASSUME NEW c \in Callers, DropCall(c) PROVE task' = task
  BY <1>10 DEF DropCall
<1>. QED BY <1>1, <1>5, <1>6, <1>7, <1>8, <1>9, <1>10 DEF Next

----------------------------------------------------------------------------
(* Posture.                                                                *)

\* Part of the inductive invariant: what an unlock is about to publish already
\* carries the flag its strength and its posture call for.
PostureOfUnlocks ==
    \A c \in Callers :
        /\ At(c, "publish")
        /\ \/ is_restrictive(call[c].session.runtime_state)
           \/ ~is_strong(call[c].session.auth_strength)
        => call[c].session.strong_reauth_required

Posture == ReauthCoversPosture /\ PostureOfUnlocks /\ GrantNeedsStrongSession

LEMMA PostureInit == Init => Posture
BY DEF Init, Posture, ReauthCoversPosture, PostureOfUnlocks, GrantNeedsStrongSession, At, IdleCall

\* A step that keeps the session or closes it, and neither starts an unlock
\* nor grants, keeps the posture facts.
LEMMA PostureFrame ==
    ASSUME Posture,
           state' = state \/ state' = Locked,
           \A c \in Callers : call'[c].pc \in {"publish", "entry"} => call'[c] = call[c]
    PROVE  Posture'
BY DEF Posture, ReauthCoversPosture, PostureOfUnlocks, GrantNeedsStrongSession, At

LEMMA PostureStep == TypeOK /\ Issued /\ Posture /\ [Next]_vars => Posture'
<1>. SUFFICES ASSUME TypeOK, Issued, Posture, [Next]_vars PROVE Posture'
  OBVIOUS
<1>1. ASSUME NEW c \in Callers, NEW strength \in Strengths, NEW outcome \in Outcomes,
             NEW runtime \in Runtimes, NEW timeout \in Timeouts,
             BeginUnlock(c, strength, outcome, runtime, timeout)
      PROVE  Posture'
  <2>1. /\ call'[c].pc = "publish"
        /\ call'[c].session = NewSession(strength, outcome, runtime)
        /\ \A d \in Callers : d # c => call'[d] = call[d]
        /\ state' = state
    BY <1>1 DEF BeginUnlock, TypeOK, IdleCall
  <2>2. LET s == NewSession(strength, outcome, runtime)
        IN  is_restrictive(s.runtime_state) \/ ~is_strong(s.auth_strength)
               => s.strong_reauth_required
    BY DEF NewSession, reauth_at_unlock
  <2>. QED BY <2>1, <2>2
    DEF Posture, ReauthCoversPosture, PostureOfUnlocks, GrantNeedsStrongSession, At
<1>2. ASSUME NEW c \in Callers, PublishSession(c) PROVE Posture'
  <2>1. /\ call'[c].pc = "cancel_old" /\ state' = call[c].session /\ At(c, "publish")
        /\ \A d \in Callers : d # c => call'[d] = call[d]
    BY <1>2 DEF PublishSession, Goto, TypeOK, Call
  <2>. QED BY <2>1
    DEF Posture, ReauthCoversPosture, PostureOfUnlocks, GrantNeedsStrongSession, At
<1>3. ASSUME NEW c \in Callers, CheckReauth(c) PROVE Posture'
  <2>1. CASE state = Locked \/ requires_strong_reauth_for(state, call[c].op)
    BY <1>3, <2>1, PostureFrame DEF CheckReauth, Return, IdleCall, TypeOK
  <2>2. CASE ~(state = Locked \/ requires_strong_reauth_for(state, call[c].op))
    <3>1. /\ call'[c].pc = "entry" /\ call'[c].checked = state /\ state' = state
          /\ \A d \in Callers : d # c => call'[d] = call[d]
      BY <1>3, <2>2 DEF CheckReauth, TypeOK, Call
    <3>2. call[c].op \in SensitiveOperation
      BY DEF TypeOK, Call
    <3>3. /\ is_strong(state.auth_strength)
          /\ is_restrictive(state.runtime_state) => state.lifted
      BY <2>2, <3>2 DEF requires_strong_reauth_for, requires_strong_reauth, Posture,
         ReauthCoversPosture
    <3>. QED BY <3>1, <3>3
      DEF Posture, ReauthCoversPosture, PostureOfUnlocks, GrantNeedsStrongSession, At
  <2>. QED BY <2>1, <2>2
<1>4. ASSUME NEW c \in Callers, NEW runtime \in Runtimes, SetRuntimePolicyState(c, runtime)
      PROVE  Posture'
  <2>1. state \in Session /\ call' = call
    BY <1>4 DEF SetRuntimePolicyState, TypeOK
  <2>2. /\ state'.runtime_state = runtime
        /\ state'.auth_strength = state.auth_strength
        /\ state'.strong_reauth_required <=> reauth_after_posture(state, runtime)
        /\ state'.lifted <=> (state.lifted /\ ~is_restrictive(runtime))
    BY <1>4, <2>1 DEF SetRuntimePolicyState, Session
  <2>3. ReauthCoversPosture'
    BY <1>4, <2>2 DEF Posture, ReauthCoversPosture, reauth_after_posture, SetRuntimePolicyState
  <2>. QED BY <2>1, <2>3 DEF Posture, PostureOfUnlocks, GrantNeedsStrongSession, At
<1>5. ASSUME NEW c \in Callers, MarkStrongReauthRequired(c) \/ ClearStrongReauthRequirement(c)
      PROVE  Posture'
  <2>1. state \in Session /\ call' = call
    BY <1>5 DEF MarkStrongReauthRequired, ClearStrongReauthRequirement, TypeOK
  <2>2. state'.strong_reauth_required \/ state'.lifted
    BY <1>5, <2>1 DEF MarkStrongReauthRequired, ClearStrongReauthRequirement, Session
  <2>3. ReauthCoversPosture'
    BY <2>2 DEF ReauthCoversPosture
  <2>. QED BY <2>1, <2>3 DEF Posture, PostureOfUnlocks, GrantNeedsStrongSession, At
<1>6. ASSUME NEW c \in Callers, NEW pc \in {"cancel_old", "spawn", "store", "wipe", "cancel"},
             Goto(c, pc), state' = state \/ state' = Locked
      PROVE  Posture'
  BY <1>6, PostureFrame DEF Goto, TypeOK, Call
<1>7. ASSUME NEW c \in Callers, Return(c), state' = state PROVE Posture'
  BY <1>7, PostureFrame DEF Return, IdleCall, TypeOK
<1>8. ASSUME NEW c \in Callers, CloneNotify(c) PROVE Posture'
  BY <1>8, PostureFrame DEF CloneNotify, TypeOK, Call
<1>9. ASSUME NEW c \in Callers, NEW op \in Operations, CheckPolicy(c, op) PROVE Posture'
  BY <1>9, PostureFrame DEF CheckPolicy, IdleCall, TypeOK
<1>10. ASSUME call' = call, state' = state \/ state' = Locked PROVE Posture'
  BY <1>10, PostureFrame
<1>11. ASSUME NEW c \in Callers, Continue(c) PROVE Posture'
  BY <1>2, <1>3, <1>6, <1>7, <1>11
  DEF Continue, CancelOldTimer, SpawnTimer, StoreHandle, WipeState, CancelTimer, NotifyOne,
      GetEntry
<1>12. ASSUME NEW c \in Callers, BeginLock(c) PROVE Posture'
  BY <1>6, <1>12 DEF BeginLock
<1>13. ASSUME NEW g \in Gen, TimerStep(g) PROVE Posture'
  BY <1>10, <1>13
  DEF TimerStep, TimerStart, TimerExpire, TimerFire, TimerActivity, TaskDrop
<1>14. CASE Tick \/ UNCHANGED vars
  BY <1>10, <1>14 DEF Tick, vars
<1>15. ASSUME NEW c \in Callers, DropCall(c) PROVE Posture'
  BY <1>7, <1>15 DEF DropCall
<1>. QED
  BY <1>1, <1>4, <1>5, <1>8, <1>9, <1>11, <1>12, <1>13, <1>14, <1>15
  DEF Next, Start, HandleRuntimeSecurityEvent

----------------------------------------------------------------------------
(* The inductive invariant and the theorems about every concurrent history.*)

IInv == TypeOK /\ Issued /\ Distinct /\ TimerExact /\ Posture

LEMMA Invariance == Spec => []IInv
<1>1. Init => IInv
  BY TypeInit, GenerationInit, TimerInit, PostureInit DEF IInv
<1>2. IInv /\ [Next]_vars => IInv'
  BY TypeStep, GenerationStep, TimerStepExact, PostureStep DEF IInv
<1>. QED BY <1>1, <1>2, PTL DEF Spec

\* Every variable of the lock manager has its type in every reachable state,
\* and no timer has more to wait than its timeout.
THEOREM TypeCorrect == Spec => []TypeOK
<1>1. IInv => TypeOK
  BY DEF IInv
<1>. QED BY <1>1, Invariance, PTL

\* A restrictive or weakly authenticated session always carries the sticky
\* re-authentication flag, unless it was cleared explicitly.
THEOREM ReauthSticky == Spec => []ReauthCoversPosture
<1>1. IInv => ReauthCoversPosture
  BY DEF IInv, Posture
<1>. QED BY <1>1, Invariance, PTL

\* A sensitive operation is granted on strong sessions only, and in a
\* restrictive posture only after an explicit clear.
THEOREM GrantsAreStrong == Spec => []GrantNeedsStrongSession
<1>1. IInv => GrantNeedsStrongSession
  BY DEF IInv, Posture
<1>. QED BY <1>1, Invariance, PTL

\* Only the task's own firing, with its generation still current, can be the
\* step in which a task ends and the vault locks.
LEMMA AutoLocksFires ==
    ASSUME TypeOK, [Next]_vars, NEW g \in Gen, AutoLocks(g)
    PROVE  generation = g
<1>1. task' # task /\ task'[g] # task[g] /\ state' # state
  BY DEF AutoLocks
<1>2. ASSUME NEW c \in Callers, Start(c) PROVE FALSE
  BY <1>1, <1>2 DEF Start, BeginUnlock, BeginLock, CloneNotify, SetRuntimePolicyState,
     ClearStrongReauthRequirement, HandleRuntimeSecurityEvent, MarkStrongReauthRequired,
     CheckPolicy
<1>3. ASSUME NEW c \in Callers, Continue(c) PROVE FALSE
  BY <1>1, <1>3 DEF Continue, PublishSession, CancelOldTimer, SpawnTimer, StoreHandle,
     WipeState, CancelTimer, NotifyOne, CheckReauth, GetEntry
<1>4. ASSUME NEW h \in Gen, TimerStep(h) PROVE generation = g
  <2>1. TimerFire(h)
    BY <1>1, <1>4 DEF TimerStep, TimerStart, TimerExpire, TimerActivity, TaskDrop
  <2>2. h = g
    BY <1>1, <2>1 DEF TimerFire, TypeOK
  <2>. QED BY <1>1, <2>1, <2>2 DEF TimerFire, is_current
<1>5. ~Tick /\ ~(UNCHANGED vars) /\ \A c \in Callers : ~DropCall(c)
  BY <1>1 DEF Tick, vars, DropCall
<1>. QED BY <1>2, <1>3, <1>4, <1>5 DEF Next

\* However unlocks, locks and aborts overlap, a timer never closes a session
\* that is newer than the unlock the timer was spawned for.
THEOREM StaleTimersAreHarmless == Spec => NoStaleLock
<1>1. IInv /\ [Next]_vars => [\A g \in Gen : AutoLocks(g) => state.id <= g]_vars
  <2>. SUFFICES ASSUME IInv, [Next]_vars, NEW g \in Gen, AutoLocks(g)
                PROVE  state.id <= g
    OBVIOUS
  <2>1. generation = g
    BY AutoLocksFires DEF IInv
  <2>. QED BY <2>1 DEF IInv, Issued, AutoLocks
<1>. QED BY <1>1, Invariance, PTL DEF Spec, NoStaleLock

\* The auto-lock never closes a session before a full quiet timeout.
THEOREM AutoLockIsPatient == Spec => AutoLockOnlyWhenIdle
<1>1. IInv /\ [Next]_vars =>
        [\A g \in Gen : AutoLocks(g) => task[g].idle >= task[g].timeout]_vars
  <2>. SUFFICES ASSUME IInv, [Next]_vars, NEW g \in Gen, AutoLocks(g)
                PROVE  task[g].idle >= task[g].timeout
    OBVIOUS
  <2>1. task[g].idle = task[g].timeout
    BY DEF IInv, TimerExact, AutoLocks
  <2>. QED BY <2>1, TaskTypes DEF IInv
<1>. QED BY <1>1, Invariance, PTL DEF Spec, AutoLockOnlyWhenIdle

----------------------------------------------------------------------------
(* The flag falls only by an explicit clear.                               *)

\* Part of the invariant: the open session was published by its own unlock, so
\* no unlock that has yet to publish carries its generation.
Unpublished ==
    \A c \in Callers :
        At(c, "publish") /\ state # Locked => call[c].session.id # state.id

\* A step that neither starts nor publishes an unlock leaves the pending
\* unlocks alone, and keeps the open session or closes it.
Keeps ==
    /\ state' # Locked => state # Locked /\ state'.id = state.id
    /\ \A c \in Callers : call'[c].pc = "publish" => call'[c] = call[c]

\* Only a clear, or the publication of another session, takes the flag back.
Lifts ==
    /\ state # Locked /\ state.strong_reauth_required
    /\ state' # Locked /\ ~state'.strong_reauth_required

LEMMA OtherSteps ==
    ASSUME TypeOK, [Next]_vars,
           ~\E c \in Callers, strength \in Strengths, outcome \in Outcomes,
               runtime \in Runtimes, timeout \in Timeouts :
               BeginUnlock(c, strength, outcome, runtime, timeout),
           ~\E c \in Callers : PublishSession(c)
    PROVE  Keeps /\ (Lifts => \E c \in Callers : ClearStrongReauthRequirement(c))
<1>. DEFINE Goal == Keeps /\ (Lifts => \E c \in Callers : ClearStrongReauthRequirement(c))
<1>0. ASSUME state' = state \/ state' = Locked,
             \A c \in Callers : call'[c].pc = "publish" => call'[c] = call[c]
      PROVE  Goal
  BY <1>0 DEF Keeps, Lifts
<1>1. ASSUME NEW c \in Callers, NEW pc \in {"cancel_old", "spawn", "store", "wipe", "cancel"},
             Goto(c, pc), state' = state \/ state' = Locked
      PROVE  Goal
  BY <1>0, <1>1 DEF Goto, TypeOK, Call
<1>2. ASSUME NEW c \in Callers, Return(c), state' = state PROVE Goal
  BY <1>0, <1>2 DEF Return, IdleCall, TypeOK
<1>3. ASSUME NEW c \in Callers, BeginLock(c) \/ CloneNotify(c) PROVE Goal
  BY <1>0, <1>1, <1>3 DEF BeginLock, CloneNotify, TypeOK, Call
<1>4. ASSUME NEW c \in Callers, \E op \in Operations : CheckPolicy(c, op) PROVE Goal
  BY <1>0, <1>4 DEF CheckPolicy, IdleCall, TypeOK
<1>5. ASSUME NEW c \in Callers, CheckReauth(c) PROVE Goal
  BY <1>0, <1>5 DEF CheckReauth, Return, IdleCall, TypeOK, Call
<1>6. ASSUME NEW c \in Callers, Continue(c) \/ DropCall(c) PROVE Goal
  BY <1>1, <1>2, <1>5, <1>6
  DEF Continue, CancelOldTimer, SpawnTimer, StoreHandle, WipeState, CancelTimer, NotifyOne,
      GetEntry, DropCall
<1>7. ASSUME NEW g \in Gen, TimerStep(g) PROVE Goal
  BY <1>0, <1>7 DEF TimerStep, TimerStart, TimerExpire, TimerFire, TimerActivity, TaskDrop
<1>8. CASE Tick \/ UNCHANGED vars
  BY <1>0, <1>8 DEF Tick, vars
<1>9. ASSUME NEW c \in Callers,
             \/ MarkStrongReauthRequired(c)
             \/ \E runtime \in Runtimes : SetRuntimePolicyState(c, runtime)
      PROVE  Goal
  <2>1. state \in Session /\ call' = call
    BY <1>9 DEF MarkStrongReauthRequired, SetRuntimePolicyState, TypeOK
  <2>2. /\ state # Locked /\ state'.id = state.id
        /\ state.strong_reauth_required => state'.strong_reauth_required
    BY <1>9, <2>1 DEF MarkStrongReauthRequired, SetRuntimePolicyState, reauth_after_posture,
       Session
  <2>. QED BY <2>1, <2>2 DEF Keeps, Lifts
<1>10. ASSUME NEW c \in Callers, ClearStrongReauthRequirement(c) PROVE Goal
  BY <1>10 DEF ClearStrongReauthRequirement, Keeps, TypeOK, Session
<1>. QED
  BY <1>3, <1>4, <1>6, <1>7, <1>8, <1>9, <1>10 DEF Next, Start, HandleRuntimeSecurityEvent

LEMMA UnpublishedStep ==
    ASSUME IInv, Unpublished, [Next]_vars
    PROVE  Unpublished'
<1>1. ASSUME NEW c \in Callers, NEW strength \in Strengths, NEW outcome \in Outcomes,
             NEW runtime \in Runtimes, NEW timeout \in Timeouts,
             BeginUnlock(c, strength, outcome, runtime, timeout)
      PROVE  Unpublished'
  <2>1. /\ call'[c].session.id = generation + 1 /\ state' = state
        /\ \A d \in Callers : d # c => call'[d] = call[d]
    BY <1>1 DEF BeginUnlock, NewSession, next_generation, IInv, TypeOK, IdleCall
  <2>2. state # Locked => state.id \in Nat /\ state.id <= generation
    BY DEF IInv, Issued, TypeOK, Session, Gen
  <2>3. generation \in Nat
    BY DEF IInv, TypeOK, Gen
  <2>. QED BY <2>1, <2>2, <2>3 DEF Unpublished, At
<1>2. ASSUME NEW c \in Callers, PublishSession(c) PROVE Unpublished'
  <2>1. /\ call'[c].pc = "cancel_old" /\ state' = call[c].session /\ At(c, "publish")
        /\ \A d \in Callers : d # c => call'[d] = call[d]
    BY <1>2 DEF PublishSession, Goto, IInv, TypeOK, Call
  <2>. QED BY <2>1 DEF IInv, Distinct, Unpublished, At
<1>3. CASE Keeps
  BY <1>3 DEF Keeps, Unpublished, At
<1>. QED BY <1>1, <1>2, <1>3, OtherSteps DEF IInv

\* However calls and timers overlap, nothing but an explicit clear takes back the
\* re-authentication flag of a session that stays open.
THEOREM OnlyClearLifts == Spec => ReauthFallsOnlyByClear
<1>1. Init => Unpublished
  BY DEF Init, Unpublished, At, IdleCall
<1>2. IInv /\ Unpublished /\ [Next]_vars => Unpublished'
  BY UnpublishedStep
<1>. DEFINE A == Lifts /\ state'.id = state.id =>
                    \E c \in Callers : ClearStrongReauthRequirement(c)
<1>3. IInv /\ Unpublished /\ [Next]_vars => A
  <2>. SUFFICES ASSUME IInv, Unpublished, [Next]_vars, Lifts, state'.id = state.id
                PROVE  \E c \in Callers : ClearStrongReauthRequirement(c)
    OBVIOUS
  <2>1. ASSUME NEW c \in Callers, PublishSession(c) PROVE FALSE
    BY <2>1 DEF PublishSession, Unpublished, Lifts, At
  <2>2. ASSUME NEW c \in Callers, NEW strength \in Strengths, NEW outcome \in Outcomes,
               NEW runtime \in Runtimes, NEW timeout \in Timeouts,
               BeginUnlock(c, strength, outcome, runtime, timeout)
        PROVE  FALSE
    BY <2>2 DEF BeginUnlock, Lifts
  <2>. QED BY <2>1, <2>2, OtherSteps DEF IInv
<1>4. IInv /\ Unpublished /\ [Next]_vars =>
        [/\ state # Locked /\ state.strong_reauth_required
         /\ state' # Locked /\ state'.id = state.id /\ ~state'.strong_reauth_required
         => \E c \in Callers : ClearStrongReauthRequirement(c)]_vars
  BY <1>3 DEF Lifts
<1>. QED BY <1>1, <1>2, <1>4, Invariance, PTL DEF Spec, ReauthFallsOnlyByClear

----------------------------------------------------------------------------
(* Refinement of SessionRegister.                                          *)

\* The refinement mapping.
OpenSession == IF state = Locked THEN 0 ELSE state.id
Pending == {call[c].session.id : c \in {d \in Callers : At(d, "publish")}}

LEMMA PendingFrame ==
    ASSUME \A c \in Callers : call'[c].pc = "publish" <=> call[c].pc = "publish",
           \A c \in Callers : call[c].pc = "publish" => call'[c].session = call[c].session
    PROVE  Pending' = Pending
BY DEF Pending, At

\* A step that starts no unlock and publishes nothing keeps what is pending.
LEMMA PendingSame ==
    ASSUME TypeOK, NEW c \in Callers, call[c].pc # "publish",
           \A d \in Callers : d # c => call'[d] = call[d],
           call'[c].pc # "publish"
    PROVE  Pending' = Pending
BY PendingFrame

LEMMA RegisterStep ==
    ASSUME IInv, [Next]_vars
    PROVE  [Register!Next]_(Register!vars)
<1>. USE DEF IInv
<1>1. ASSUME NEW c \in Callers, NEW strength \in Strengths, NEW outcome \in Outcomes,
             NEW runtime \in Runtimes, NEW timeout \in Timeouts,
             BeginUnlock(c, strength, outcome, runtime, timeout)
      PROVE  Register!Request
  <2>1. /\ call[c].pc = "idle" /\ call'[c].pc = "publish"
        /\ call'[c].session.id = generation + 1
        /\ \A d \in Callers : d # c => call'[d] = call[d]
    BY <1>1 DEF BeginUnlock, Idle, NewSession, next_generation, IdleCall, TypeOK
  <2>2. Pending' = Pending \cup {generation + 1}
    BY <2>1 DEF Pending, At
  <2>. QED BY <1>1, <2>2 DEF BeginUnlock, Register!Request, published_generation, Pending
<1>2. ASSUME NEW c \in Callers, PublishSession(c)
      PROVE  Register!Next
  <2>1. /\ call[c].pc = "publish" /\ call'[c].pc = "cancel_old"
        /\ \A d \in Callers : d # c => call'[d] = call[d]
        /\ state' = call[c].session /\ state' # Locked
    BY <1>2 DEF PublishSession, Goto, At, TypeOK, Call, Issued, UnlockPCs
  <2>2. Pending' = Pending \ {call[c].session.id}
    BY <2>1 DEF Pending, At, Distinct
  <2>3. call[c].session.id \in Pending
    BY <2>1 DEF Pending, At
  <2>4. Register!Open(call[c].session.id)
    BY <1>2, <2>1, <2>2, <2>3 DEF Register!Open, Pending, PublishSession
  <2>5. \E s \in Pending : Register!Open(s)
    BY <2>3, <2>4 DEF Register!Open
  <2>. QED BY <2>5 DEF Register!Next, Pending
<1>3. ASSUME NEW c \in Callers, BeginLock(c) PROVE Register!Burn
  <2>1. Pending' = Pending
    BY <1>3, PendingSame DEF BeginLock, Idle, Goto, TypeOK, Call
  <2>. QED BY <1>3, <2>1 DEF BeginLock, Register!Burn, published_generation, Pending
<1>4. ASSUME Pending' = Pending, generation' = generation, state' = Locked \/ OpenSession' = OpenSession
      PROVE  Register!Close \/ UNCHANGED Register!vars
  BY <1>4 DEF Register!Close, Register!vars, Pending, OpenSession
<1>5. ASSUME NEW c \in Callers,
             \/ CancelOldTimer(c) \/ SpawnTimer(c) \/ StoreHandle(c)
             \/ WipeState(c) \/ CancelTimer(c) \/ CloneNotify(c) \/ NotifyOne(c)
             \/ CheckReauth(c) \/ GetEntry(c) \/ \E op \in Operations : CheckPolicy(c, op)
      PROVE  Register!Close \/ UNCHANGED Register!vars
  <2>1. /\ call[c].pc # "publish" /\ call'[c].pc # "publish"
        /\ \A d \in Callers : d # c => call'[d] = call[d]
    <3>1. CASE CancelOldTimer(c) \/ SpawnTimer(c) \/ WipeState(c)
      BY <3>1 DEF CancelOldTimer, SpawnTimer, WipeState, At, Goto, TypeOK, Call
    <3>2. CASE StoreHandle(c) \/ CancelTimer(c) \/ NotifyOne(c) \/ GetEntry(c)
      BY <3>2 DEF StoreHandle, CancelTimer, NotifyOne, GetEntry, At, Return, IdleCall, TypeOK
    <3>3. CASE CloneNotify(c)
      BY <3>3 DEF CloneNotify, Idle, TypeOK, Call
    <3>4. CASE CheckReauth(c)
      BY <3>4 DEF CheckReauth, At, Return, IdleCall, TypeOK, Call
    <3>5. CASE \E op \in Operations : CheckPolicy(c, op)
      BY <3>5 DEF CheckPolicy, Idle, IdleCall, TypeOK
    <3>. QED BY <1>5, <3>1, <3>2, <3>3, <3>4, <3>5
  <2>2. Pending' = Pending
    BY <2>1, PendingSame
  <2>3. generation' = generation /\ (state' = state \/ state' = Locked)
    BY <1>5 DEF CancelOldTimer, SpawnTimer, StoreHandle, WipeState, CancelTimer, CloneNotify,
       NotifyOne, CheckReauth, GetEntry, CheckPolicy
  <2>. QED BY <1>4, <2>2, <2>3 DEF OpenSession
<1>6. ASSUME call' = call, generation' = generation, state' = state \/ state' = Locked
      PROVE  Register!Close \/ UNCHANGED Register!vars
  BY <1>4, <1>6, PendingFrame DEF OpenSession
<1>7. ASSUME NEW g \in Gen, TimerStep(g) PROVE Register!Close \/ UNCHANGED Register!vars
  BY <1>6, <1>7 DEF TimerStep, TimerStart, TimerExpire, TimerFire, TimerActivity, TaskDrop
<1>8. ASSUME NEW c \in Callers,
             MarkStrongReauthRequired(c) \/ ClearStrongReauthRequirement(c)
             \/ (\E runtime \in Runtimes : SetRuntimePolicyState(c, runtime))
      PROVE  Register!Close \/ UNCHANGED Register!vars
  <2>1. state \in Session /\ state' \in Session /\ state'.id = state.id
    <3>1. state \in Session
      BY <1>8 DEF MarkStrongReauthRequired, ClearStrongReauthRequirement,
         SetRuntimePolicyState, TypeOK
    <3>2. CASE MarkStrongReauthRequired(c)
      BY <3>1, <3>2 DEF MarkStrongReauthRequired, Session
    <3>3. CASE ClearStrongReauthRequirement(c)
      BY <3>1, <3>3 DEF ClearStrongReauthRequirement, Session
    <3>4. ASSUME NEW runtime \in Runtimes, SetRuntimePolicyState(c, runtime)
          PROVE  state' \in Session /\ state'.id = state.id
      BY <3>1, <3>4 DEF SetRuntimePolicyState, Session, reauth_after_posture, is_restrictive
    <3>. QED BY <1>8, <3>1, <3>2, <3>3, <3>4
  <2>2. OpenSession' = OpenSession
    BY <2>1, LockedAssumption DEF OpenSession
  <2>3. generation' = generation /\ Pending' = Pending
    BY <1>8, PendingFrame
    DEF MarkStrongReauthRequired, ClearStrongReauthRequirement, SetRuntimePolicyState
  <2>. QED BY <1>4, <2>2, <2>3
<1>9. CASE Tick \/ UNCHANGED vars
  <2>1. call' = call /\ generation' = generation /\ state' = state
    BY <1>9 DEF Tick, vars
  <2>2. Register!Close \/ UNCHANGED Register!vars
    BY <1>6, <2>1
  <2>. QED BY <2>2 DEF Register!Next
<1>10. ASSUME NEW c \in Callers, DropCall(c) PROVE Register!Next \/ UNCHANGED Register!vars
  <2>1. /\ call'[c].pc = "idle" /\ generation' = generation /\ state' = state
        /\ \A d \in Callers : d # c => call'[d] = call[d]
    BY <1>10 DEF DropCall, Return, IdleCall, TypeOK
  <2>2. CASE call[c].pc = "publish"
    <3>1. Pending' = Pending \ {call[c].session.id}
      BY <2>1, <2>2 DEF Pending, At, Distinct
    <3>2. call[c].session.id \in Pending
      BY <2>2 DEF Pending, At
    <3>3. \E s \in Pending : Register!Abandon(s)
      BY <2>1, <3>1, <3>2 DEF Register!Abandon, Pending
    <3>. QED BY <3>3 DEF Register!Next, Pending
  <2>3. CASE call[c].pc # "publish"
    <3>1. Pending' = Pending
      BY <2>1, <2>3, PendingSame
    <3>2. OpenSession' = OpenSession
      BY <2>1 DEF OpenSession
    <3>. QED BY <1>4, <2>1, <3>1, <3>2 DEF Register!Next
  <2>. QED BY <2>2, <2>3
<1>. QED
  BY <1>1, <1>2, <1>3, <1>5, <1>7, <1>8, <1>9, <1>10
  DEF Next, Start, Continue, HandleRuntimeSecurityEvent, Register!Next

\* The detailed lock manager implements the abstract register of sessions.
THEOREM Refinement == Spec => RefinesRegister
<1>1. Init => Register!Init
  BY DEF Init, Register!Init, At, IdleCall
<1>2. IInv /\ [Next]_vars => [Register!Next]_(Register!vars)
  BY RegisterStep
<1>. QED BY <1>1, <1>2, Invariance, PTL DEF Spec, RefinesRegister, Register!Spec

----------------------------------------------------------------------------
(* The auto-lock promise when calls do not overlap and run to their end.   *)

OneCaller == (\E c : Callers = {c}) /\ Cancellable = {}

Armed == state.id = generation /\ Live(generation) /\ auto_lock_task = generation

\* How far the one caller's call got, and what then holds of the open session
\* and of the task of the current generation.
SerialInv ==
    \A c \in Callers :
        /\ At(c, "publish") => call[c].session.id = generation
        /\ call[c].pc \in {"cancel_old", "spawn", "store"} =>
              /\ call[c].session.id = generation
              /\ state # Locked => state.id = generation
        /\ At(c, "store") /\ state # Locked => Live(generation)
        /\ At(c, "cancel") => state = Locked
        /\ ~Changing(c) /\ state # Locked => Armed

\* Unless the vault locks, the current task survives what tasks, time and
\* activity do to it.
LEMMA LiveStep ==
    ASSUME TypeOK, generation' = generation, state' # Locked, Live(generation),
           (\E g \in Gen : TimerStep(g)) \/ Tick \/ (\E c \in Callers : NotifyOne(c))
    PROVE  Live(generation)'
<1>. USE DEF Live, Alive
<1>1. generation \in Gen /\ task \in [Gen -> Task]
  BY DEF TypeOK
<1>2. ASSUME NEW g \in Gen, TimerStep(g), g # generation PROVE Live(generation)'
  BY <1>1, <1>2 DEF TimerStep, TimerStart, TimerExpire, TimerFire, TimerActivity, TaskDrop
<1>3. ASSUME TimerStep(generation) PROVE Live(generation)'
  <2>1. ~TimerFire(generation) /\ ~TaskDrop(generation)
    BY DEF TimerFire, TaskDrop, is_current
  <2>2. CASE TimerStart(generation) \/ TimerExpire(generation)
    BY <1>1, <2>2 DEF TimerStart, TimerExpire, Task
  <2>3. CASE TimerActivity(generation)
    <3>1. task'[generation] = [task[generation] EXCEPT !.permit = FALSE,
              !.left = push_deadline(task[generation]), !.idle = 0]
      BY <1>1, <2>3 DEF TimerActivity, is_current
    <3>2. task'[generation].status = task[generation].status
          /\ task'[generation].aborted = task[generation].aborted
      BY <1>1, <3>1 DEF Task
    <3>. QED BY <3>2
  <2>. QED BY <1>3, <2>1, <2>2, <2>3 DEF TimerStep
<1>4. CASE Tick
  BY <1>1, <1>4 DEF Tick, Task
<1>5. ASSUME NEW c \in Callers, NotifyOne(c) PROVE Live(generation)'
  BY <1>1, <1>5 DEF NotifyOne, TypeOK, Call, Task
<1>. QED BY <1>2, <1>3, <1>4, <1>5

LEMMA SerialStep == OneCaller /\ IInv /\ SerialInv /\ [Next]_vars => SerialInv'
<1>. SUFFICES ASSUME OneCaller, IInv, SerialInv, [Next]_vars PROVE SerialInv'
  OBVIOUS
<1>. PICK me : Callers = {me}
  BY DEF OneCaller
<1>. USE DEF At, Idle, Changing, UnlockPCs, LockPCs
<1>a. TypeOK
  BY DEF IInv
<1>1. ASSUME NEW strength \in Strengths, NEW outcome \in Outcomes,
             NEW runtime \in Runtimes, NEW timeout \in Timeouts,
             BeginUnlock(me, strength, outcome, runtime, timeout)
      PROVE  SerialInv'
  <2>1. call'[me].pc = "publish" /\ call'[me].session.id = generation + 1
    BY <1>a, <1>1 DEF BeginUnlock, TypeOK, IdleCall, NewSession, next_generation
  <2>. QED BY <1>1, <2>1 DEF SerialInv, BeginUnlock, published_generation
<1>2. CASE PublishSession(me)
  <2>1. call'[me].pc = "cancel_old" /\ call'[me].session = call[me].session
    BY <1>a, <1>2 DEF PublishSession, Goto, TypeOK, Call
  <2>. QED BY <1>2, <2>1 DEF SerialInv, PublishSession
<1>3. CASE CancelOldTimer(me)
  <2>1. call'[me].pc = "spawn" /\ call'[me].session = call[me].session
    BY <1>a, <1>3 DEF CancelOldTimer, Goto, TypeOK, Call
  <2>. QED BY <1>3, <2>1 DEF SerialInv, CancelOldTimer
<1>4. CASE SpawnTimer(me)
  <2>1. call'[me].pc = "store" /\ call'[me].session = call[me].session
    BY <1>a, <1>4 DEF SpawnTimer, Goto, TypeOK, Call
  <2>2. call[me].session.id = generation /\ generation' = generation /\ generation \in Gen
    BY <1>a, <1>4 DEF SerialInv, SpawnTimer, TypeOK
  <2>3. task'[generation] = [NoTimer EXCEPT !.status = "spawned", !.timeout = call[me].timeout]
    BY <1>a, <1>4, <2>2 DEF SpawnTimer, TypeOK
  <2>4. Live(generation)'
    BY <2>2, <2>3 DEF Live, Alive, NoTimer
  <2>. QED BY <1>4, <2>1, <2>2, <2>4 DEF SerialInv, SpawnTimer
<1>5. CASE StoreHandle(me)
  <2>1. call'[me].pc = "idle"
    BY <1>a, <1>5 DEF StoreHandle, Return, IdleCall, TypeOK
  <2>. QED BY <1>5, <2>1 DEF SerialInv, StoreHandle, Armed, Live
<1>6. CASE BeginLock(me)
  <2>1. call'[me].pc = "wipe"
    BY <1>a, <1>6 DEF BeginLock, Goto, TypeOK, Call
  <2>. QED BY <2>1 DEF SerialInv
<1>7. CASE WipeState(me)
  <2>1. call'[me].pc = "cancel" /\ state' = Locked
    BY <1>a, <1>7 DEF WipeState, Goto, TypeOK, Call
  <2>. QED BY <2>1 DEF SerialInv
<1>8. CASE CancelTimer(me)
  <2>1. call'[me].pc = "idle" /\ state' = Locked
    BY <1>a, <1>8 DEF CancelTimer, Return, IdleCall, TypeOK, SerialInv
  <2>. QED BY <2>1 DEF SerialInv
<1>9. ASSUME ~Changing(me), ~Changing(me)', UNCHANGED <<generation, auto_lock_task>>,
             state' # Locked => state # Locked /\ state'.id = state.id,
             state' # Locked /\ Live(generation) => Live(generation)'
      PROVE  SerialInv'
  BY <1>9 DEF SerialInv, Armed
<1>10. CASE NotifyOne(me)
  <2>1. ~Changing(me) /\ ~Changing(me)'
    BY <1>a, <1>10 DEF NotifyOne, Return, IdleCall, TypeOK
  <2>. QED BY <1>a, <1>9, <1>10, <2>1, LiveStep DEF NotifyOne
<1>11. CASE CloneNotify(me) \/ CheckReauth(me) \/ GetEntry(me)
            \/ \E op \in Operations : CheckPolicy(me, op)
  <2>1. ~Changing(me) /\ ~Changing(me)'
    <3>1. CASE CloneNotify(me)
      BY <1>a, <3>1 DEF CloneNotify, TypeOK, Call
    <3>2. CASE CheckReauth(me)
      BY <1>a, <3>2 DEF CheckReauth, Return, IdleCall, TypeOK, Call
    <3>3. CASE GetEntry(me)
      BY <1>a, <3>3 DEF GetEntry, Return, IdleCall, TypeOK
    <3>4. CASE \E op \in Operations : CheckPolicy(me, op)
      BY <1>a, <3>4 DEF CheckPolicy, IdleCall, TypeOK
    <3>. QED BY <1>11, <3>1, <3>2, <3>3, <3>4
  <2>2. UNCHANGED <<generation, auto_lock_task, state, task>>
    BY <1>11 DEF CloneNotify, CheckReauth, GetEntry, CheckPolicy
  <2>. QED BY <1>9, <2>1, <2>2 DEF Live
<1>12. CASE MarkStrongReauthRequired(me) \/ ClearStrongReauthRequirement(me)
            \/ \E runtime \in Runtimes : SetRuntimePolicyState(me, runtime)
  <2>1. UNCHANGED <<generation, auto_lock_task, task, call>> /\ ~Changing(me)
        /\ state # Locked /\ state'.id = state.id
    BY <1>a, <1>12 DEF MarkStrongReauthRequired, ClearStrongReauthRequirement,
       SetRuntimePolicyState, TypeOK, Session
  <2>. QED BY <1>9, <2>1 DEF Live
<1>13. CASE (\E g \in Gen : TimerStep(g)) \/ Tick
  <2>1. /\ UNCHANGED <<generation, auto_lock_task, call>>
        /\ state' = state \/ state' = Locked
    BY <1>13
    DEF TimerStep, TimerStart, TimerExpire, TimerFire, TimerActivity, TaskDrop, Tick
  <2>2. state' # Locked /\ Live(generation) => Live(generation)'
    BY <1>a, <1>13, <2>1, LiveStep
  <2>. QED BY <2>1, <2>2 DEF SerialInv, Armed
<1>14. CASE UNCHANGED vars
  BY <1>14 DEF vars, SerialInv, Armed, Live
<1>. QED
  BY <1>1, <1>2, <1>3, <1>4, <1>5, <1>6, <1>7, <1>8, <1>10, <1>11, <1>12, <1>13, <1>14
  DEF Next, Start, Continue, DropCall, HandleRuntimeSecurityEvent, OneCaller

\* When calls neither overlap nor are dropped, an unlocked vault outside of a call always has a
\* live timer of the current generation, whatever the sequence of unlocks,
\* locks, runtime events, activity and timer steps.
THEOREM SerialAutoLock == OneCaller => (Spec => []AutoLockArmed)
<1>. SUFFICES ASSUME OneCaller PROVE Spec => []AutoLockArmed
  OBVIOUS
<1>1. Init => SerialInv
  BY DEF Init, SerialInv, At, IdleCall
<1>2. IInv /\ SerialInv /\ [Next]_vars => SerialInv'
  BY SerialStep
<1>3. SerialInv => AutoLockArmed
  BY DEF SerialInv, AutoLockArmed, OneCaller, Armed
<1>. QED BY <1>1, <1>2, <1>3, Invariance, PTL DEF Spec

----------------------------------------------------------------------------
(* Reading an entry, when calls do not overlap.                            *)

\* While a call is between its checks and the entry, the session it checked is the one
\* that is open, unless a timer closed it.
RevealInv ==
    \A c \in Callers : state # Locked =>
        /\ call[c].pc \in {"reauth", "entry"} =>
              allow_sensitive_operation(policy_context(state), call[c].op)
        /\ At(c, "entry") => ~requires_strong_reauth_for(state, call[c].op)

LEMMA RevealStep ==
    ASSUME NEW me, Callers = {me}
    PROVE  TypeOK /\ RevealInv /\ [Next]_vars => RevealInv'
<1>. SUFFICES ASSUME TypeOK, RevealInv, [Next]_vars PROVE RevealInv'
  OBVIOUS
<1>. USE DEF At, Idle
<1>1. ASSUME call'[me].pc \notin {"reauth", "entry"} PROVE RevealInv'
  BY <1>1 DEF RevealInv
<1>2. ASSUME call' = call, state' = state \/ state' = Locked PROVE RevealInv'
  BY <1>2 DEF RevealInv
<1>3. ASSUME NEW op \in Operations, CheckPolicy(me, op) PROVE RevealInv'
  <2>1. call'[me].pc = "reauth" /\ call'[me].op = op /\ state' = state
    BY <1>3 DEF CheckPolicy, IdleCall, TypeOK
  <2>. QED BY <1>3, <2>1 DEF RevealInv, CheckPolicy
<1>4. CASE CheckReauth(me)
  <2>1. CASE Return(me)
    BY <1>1, <2>1 DEF Return, IdleCall, TypeOK
  <2>2. CASE ~Return(me)
    <3>1. /\ call'[me].pc = "entry" /\ call'[me].op = call[me].op /\ state' = state
          /\ ~requires_strong_reauth_for(state, call[me].op) /\ call[me].pc = "reauth"
      BY <1>4, <2>2 DEF CheckReauth, TypeOK, Call
    <3>. QED BY <3>1 DEF RevealInv
  <2>. QED BY <2>1, <2>2
<1>5. ASSUME NEW pc, pc \notin {"reauth", "entry"}, Goto(me, pc) PROVE RevealInv'
  BY <1>1, <1>5 DEF Goto, TypeOK, Call
<1>6. ASSUME Return(me) PROVE RevealInv'
  BY <1>1, <1>6 DEF Return, IdleCall, TypeOK
<1>7. CASE Continue(me)
  BY <1>4, <1>5, <1>6, <1>7
  DEF Continue, PublishSession, CancelOldTimer, SpawnTimer, StoreHandle, WipeState,
      CancelTimer, NotifyOne, GetEntry
<1>8. ASSUME NEW strength \in Strengths, NEW outcome \in Outcomes,
             NEW runtime \in Runtimes, NEW timeout \in Timeouts,
             BeginUnlock(me, strength, outcome, runtime, timeout)
      PROVE  RevealInv'
  BY <1>1, <1>8 DEF BeginUnlock, IdleCall, TypeOK
<1>9. CASE CloneNotify(me)
  BY <1>1, <1>9 DEF CloneNotify, TypeOK, Call
<1>10. CASE MarkStrongReauthRequired(me) \/ ClearStrongReauthRequirement(me)
            \/ \E runtime \in Runtimes : SetRuntimePolicyState(me, runtime)
  BY <1>1, <1>10 DEF MarkStrongReauthRequired, ClearStrongReauthRequirement,
     SetRuntimePolicyState
<1>11. CASE BeginLock(me)
  BY <1>5, <1>11 DEF BeginLock
<1>12. CASE Start(me)
  BY <1>3, <1>8, <1>9, <1>10, <1>11, <1>12 DEF Start, HandleRuntimeSecurityEvent
<1>13. CASE DropCall(me)
  BY <1>6, <1>13 DEF DropCall
<1>14. CASE (\E g \in Gen : TimerStep(g)) \/ Tick \/ UNCHANGED vars
  BY <1>2, <1>14
  DEF TimerStep, TimerStart, TimerExpire, TimerFire, TimerActivity, TaskDrop, Tick, vars
<1>. QED BY <1>7, <1>12, <1>13, <1>14 DEF Next

\* When calls do not overlap, an entry is read only from a strong primary session in a
\* clean posture without a pending re-authentication, whenever a timer may fire
\* between the checks and the read, and wherever a call may be dropped.
THEOREM RevealsAreAllowed ==
    ASSUME NEW me, Callers = {me}
    PROVE  Spec => RevealAllowedBySession
<1>1. Init => RevealInv
  BY DEF Init, RevealInv
<1>2. TypeOK /\ RevealInv /\ [Next]_vars => RevealInv'
  BY RevealStep
<1>3. TypeOK /\ RevealInv /\ [Next]_vars =>
        [\A c \in Callers :
           At(c, "entry") /\ ~(At(c, "entry"))' /\ state # Locked =>
              /\ state.unlock_outcome = "Primary"
              /\ state.runtime_state = "NotDebugged"
              /\ is_strong(state.auth_strength)
              /\ ~state.strong_reauth_required]_vars
  <2>. SUFFICES ASSUME TypeOK, RevealInv, NEW c \in Callers, At(c, "entry"), state # Locked
                PROVE  /\ state.unlock_outcome = "Primary"
                       /\ state.runtime_state = "NotDebugged"
                       /\ is_strong(state.auth_strength)
                       /\ ~state.strong_reauth_required
    OBVIOUS
  <2>1. /\ state.unlock_outcome \in UnlockOutcome /\ call[c].op \in SensitiveOperation
    BY ConstantsAssumption DEF TypeOK, Session, Call
  <2>2. /\ allow_sensitive_operation(policy_context(state), call[c].op)
        /\ ~requires_strong_reauth_for(state, call[c].op)
    BY DEF RevealInv, At
  <2>3. ~is_decoy(policy_context(state)) /\ state.runtime_state = "NotDebugged"
    BY <2>2 DEF allow_sensitive_operation, allow_exposure, is_restrictive, policy_context
  <2>4. state.unlock_outcome = "Primary"
    BY <2>1, <2>3 DEF is_decoy, policy_context, UnlockOutcome
  <2>. QED BY <2>1, <2>2, <2>3, <2>4 DEF requires_strong_reauth_for, requires_strong_reauth
<1>4. Spec => []TypeOK
  BY TypeCorrect
<1>. QED BY <1>1, <1>2, <1>3, <1>4, PTL DEF Spec, RevealAllowedBySession
============================================================================
