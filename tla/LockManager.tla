----------------------------- MODULE LockManager -----------------------------
(***************************************************************************)
(* VaultLockManager (core/lock_state.rs): the runtime lock state, the      *)
(* sessions it holds and the auto-lock timer tasks, used concurrently by a *)
(* set of callers.                                                         *)
(*                                                                         *)
(* One action is one stretch of code between two points at which another   *)
(* thread or task can be observed: a call is split where it acquires the   *)
(* state mutex, the task mutex or the notify mutex anew.  A critical       *)
(* section of the state mutex contains no await and is one action.         *)
(*                                                                         *)
(* The plaintext JSON of a session is represented by the generation of the *)
(* unlock that supplied it (field id); what the entries in it look like is *)
(* the subject of other modules.                                           *)
(***************************************************************************)
EXTENDS Naturals, SessionPolicy

CONSTANTS
    Callers,    \* threads or tasks that hold a reference to the manager
    Cancellable,\* those whose call may be dropped before it has finished
    MaxGen,     \* bound on the generation counter (a u64 in the code)
    Timeouts,   \* auto-lock timeouts the callers use, in clock ticks
    Strengths,  \* the authentication strengths the callers unlock with
    Outcomes,   \* the unlock outcomes
    Runtimes,   \* the runtime postures the probe reports
    Operations, \* the sensitive operations they ask for
    Locked      \* VaultState::Locked

ASSUME ConstantsAssumption ==
    /\ MaxGen \in Nat \ {0}
    /\ Cancellable \subseteq Callers
    /\ Timeouts \subseteq Nat
    /\ Strengths \subseteq AuthenticationStrength
    /\ Outcomes \subseteq UnlockOutcome
    /\ Runtimes \subseteq RuntimeInspectionState
    /\ Operations \subseteq SensitiveOperation

Gen == 1..MaxGen

NoTask == 0  \* auto_lock_task = None

\* VaultState::Unlocked.  Field lifted is a history variable: it says that the
\* re-authentication requirement was last changed by an explicit clear.
Session ==
    [id : Gen, auth_strength : Strengths, strong_reauth_required : BOOLEAN,
     unlock_outcome : Outcomes, runtime_state : Runtimes, lifted : BOOLEAN]

ASSUME LockedAssumption == Locked \notin Session

UnlockPCs == {"publish", "cancel_old", "spawn", "store"}
LockPCs == {"wipe", "cancel"}
PCs == {"idle", "notify", "reauth", "entry"} \cup UnlockPCs \cup LockPCs

\* A call in progress.  session: what an unlock will publish, or the session
\* an authorization read its policy from; checked: the session it read the
\* re-authentication requirement from; handle: the Notify an activity cloned.
Call ==
    [pc : PCs, session : Session \cup {Locked}, checked : Session \cup {Locked},
     timeout : Timeouts \cup {0}, handle : Gen, op : SensitiveOperation]

IdleCall ==
    [pc |-> "idle", session |-> Locked, checked |-> Locked, timeout |-> 0,
     handle |-> 1, op |-> "RevealSecret"]

\* The auto-lock task that the unlock of generation g spawned, with the
\* permit of the Notify of its cycle.  left is what remains until the
\* deadline; idle (history) counts the ticks since the task started or last
\* observed activity.
Task ==
    [status : {"none", "spawned", "waiting", "expired", "done"},
     aborted : BOOLEAN, permit : BOOLEAN, timeout : Timeouts \cup {0},
     left : Nat, idle : Nat]

Alive == {"spawned", "waiting", "expired"}

NoTimer ==
    [status |-> "none", aborted |-> FALSE, permit |-> FALSE, timeout |-> 0,
     left |-> 0, idle |-> 0]

\* A task that ended; its timer and its Notify are gone.
EndedTask == [NoTimer EXCEPT !.status = "done"]

VARIABLES
    generation,      \* AtomicU64
    state,           \* Mutex<VaultState>
    notify,          \* the current Notify, named by the cycle it belongs to
    auto_lock_task,  \* Mutex<Option<JoinHandle>>
    task,            \* the spawned tasks, by the generation they captured
    call             \* what each caller is doing

vars == <<generation, state, notify, auto_lock_task, task, call>>

Init ==
    /\ generation = 1
    /\ state = Locked
    /\ notify = 1
    /\ auto_lock_task = NoTask
    /\ task = [g \in Gen |-> NoTimer]
    /\ call = [c \in Callers |-> IdleCall]

Idle(c) == call[c].pc = "idle"
At(c, pc) == call[c].pc = pc
Goto(c, pc) == call' = [call EXCEPT ![c].pc = pc]
Return(c) == call' = [call EXCEPT ![c] = IdleCall]

----------------------------------------------------------------------------
(* Generations.                                                            *)

\* Mutant: the value before the addition is returned.
next_generation_old == generation

\* The value fetch_add(1) + 1 returns.
next_generation == generation + 1

\* Mutant: restart_auto_lock advances the generation once more.
published_generation_twice == generation + 2

\* The value it leaves in the counter.
published_generation == generation + 1

\* The counter is bounded by MaxGen.
CanAdvance == published_generation <= MaxGen

\* Mutant: the timer does not compare its generation.
is_current_always(g) == TRUE

\* Mutant: the timer compares with the generation after its own.
is_current_late(g) == generation = g + 1

\* A timer task's test before it acts.
is_current(g) == generation = g

----------------------------------------------------------------------------
(* unlock_with_plaintext_json_with_context and its two compatibility       *)
(* wrappers, followed by restart_auto_lock.                                *)

reauth_at_unlock(strength, runtime) == ~is_strong(strength) \/ is_restrictive(runtime)

NewSession(strength, outcome, runtime) ==
    [id |-> next_generation, auth_strength |-> strength,
     strong_reauth_required |-> reauth_at_unlock(strength, runtime),
     unlock_outcome |-> outcome, runtime_state |-> runtime, lifted |-> FALSE]

\* The call takes its generation.
BeginUnlock(c, strength, outcome, runtime, timeout) ==
    /\ Idle(c)
    /\ CanAdvance
    /\ generation' = published_generation
    /\ call' = [call EXCEPT ![c] = [IdleCall EXCEPT
                  !.pc = "publish",
                  !.session = NewSession(strength, outcome, runtime),
                  !.timeout = timeout]]
    /\ UNCHANGED <<state, notify, auto_lock_task, task>>

\* It replaces the state; a previous session's buffer is dropped.
PublishSession(c) ==
    /\ At(c, "publish")
    /\ state' = call[c].session
    /\ Goto(c, "cancel_old")
    /\ UNCHANGED <<generation, notify, auto_lock_task, task>>

\* cancel_auto_lock: take the handle and request the abort of its task, which
\* does nothing to one that has ended.
cancel_auto_lock ==
    /\ auto_lock_task' = NoTask
    /\ task' = IF auto_lock_task # NoTask /\ task[auto_lock_task].status \in Alive
                 THEN [task EXCEPT ![auto_lock_task].aborted = TRUE]
                 ELSE task

CancelOldTimer(c) ==
    /\ At(c, "cancel_old")
    /\ cancel_auto_lock
    /\ Goto(c, "spawn")
    /\ UNCHANGED <<generation, state, notify>>

\* Rotate the Notify and spawn the task of this cycle.
SpawnTimer(c) ==
    /\ At(c, "spawn")
    /\ notify' = call[c].session.id
    /\ task' = [task EXCEPT ![call[c].session.id] =
                  [NoTimer EXCEPT !.status = "spawned", !.timeout = call[c].timeout]]
    /\ Goto(c, "store")
    /\ UNCHANGED <<generation, state, auto_lock_task>>

\* Store the JoinHandle; one that is still there is dropped, which detaches
\* its task without aborting it.
StoreHandle(c) ==
    /\ At(c, "store")
    /\ auto_lock_task' = call[c].session.id
    /\ Return(c)
    /\ UNCHANGED <<generation, state, notify, task>>

----------------------------------------------------------------------------
(* lock                                                                    *)

BeginLock(c) ==
    /\ Idle(c)
    /\ CanAdvance
    /\ generation' = published_generation
    /\ Goto(c, "wipe")
    /\ UNCHANGED <<state, notify, auto_lock_task, task>>

WipeState(c) ==
    /\ At(c, "wipe")
    /\ state' = Locked
    /\ Goto(c, "cancel")
    /\ UNCHANGED <<generation, notify, auto_lock_task, task>>

CancelTimer(c) ==
    /\ At(c, "cancel")
    /\ cancel_auto_lock
    /\ Return(c)
    /\ UNCHANGED <<generation, state, notify>>

----------------------------------------------------------------------------
(* The auto-lock task.  abort() takes effect when the task next waits: a   *)
(* task that waits on its select is not polled again, one that is past it  *)
(* may still run to the end of the poll.                                   *)

\* Mutant: activity does not move the deadline.
push_deadline_not(t) == t.left

\* Mutant: activity adds the timeout to what is left.
push_deadline_adds(t) == t.left + t.timeout + 1

\* deadline = Instant::now() + timeout
push_deadline(t) == t.timeout

\* The first poll computes the deadline.
TimerStart(g) ==
    /\ task[g].status = "spawned"
    /\ ~task[g].aborted
    /\ task' = [task EXCEPT ![g].status = "waiting", ![g].left = task[g].timeout]
    /\ UNCHANGED <<generation, state, notify, auto_lock_task, call>>

\* select! takes the sleep branch; it may do so when the other is ready too.
TimerExpire(g) ==
    /\ task[g].status = "waiting"
    /\ ~task[g].aborted
    /\ task[g].left = 0
    /\ task' = [task EXCEPT ![g].status = "expired"]
    /\ UNCHANGED <<generation, state, notify, auto_lock_task, call>>

\* With the state mutex held, compare the generation and wipe.  A generation
\* advanced between the load and the wipe commutes with the wipe.
TimerFire(g) ==
    /\ task[g].status = "expired"
    /\ state' = IF is_current(g) THEN Locked ELSE state
    /\ task' = [task EXCEPT ![g] = EndedTask]
    /\ UNCHANGED <<generation, notify, auto_lock_task, call>>

\* select! takes the notified branch.
TimerActivity(g) ==
    /\ task[g].status = "waiting"
    /\ ~task[g].aborted
    /\ task[g].permit
    /\ task' = [task EXCEPT ![g] =
                  IF is_current(g)
                    THEN [@ EXCEPT !.permit = FALSE, !.left = push_deadline(task[g]), !.idle = 0]
                    ELSE EndedTask]
    /\ UNCHANGED <<generation, state, notify, auto_lock_task, call>>

\* The runtime drops an aborted task.
TaskDrop(g) ==
    /\ task[g].aborted
    /\ task[g].status \in Alive
    /\ task' = [task EXCEPT ![g] = EndedTask]
    /\ UNCHANGED <<generation, state, notify, auto_lock_task, call>>

\* Time passes for every task that waits.
Tick ==
    /\ \E g \in Gen : task[g].status = "waiting" /\ task[g].left > 0
    /\ task' = [g \in Gen |->
                  IF task[g].status = "waiting" /\ task[g].left > 0
                    THEN [task[g] EXCEPT !.left = @ - 1, !.idle = @ + 1]
                    ELSE task[g]]
    /\ UNCHANGED <<generation, state, notify, auto_lock_task, call>>

----------------------------------------------------------------------------
(* notify_activity: clone the current Notify, then notify_one on the clone,*)
(* which leaves a permit to the task that listens to it, if there is one.  *)

CloneNotify(c) ==
    /\ Idle(c)
    /\ call' = [call EXCEPT ![c].pc = "notify", ![c].handle = notify]
    /\ UNCHANGED <<generation, state, notify, auto_lock_task, task>>

NotifyOne(c) ==
    /\ At(c, "notify")
    /\ task' = IF task[call[c].handle].status \in Alive
                 THEN [task EXCEPT ![call[c].handle].permit = TRUE]
                 ELSE task
    /\ Return(c)
    /\ UNCHANGED <<generation, state, notify, auto_lock_task>>

----------------------------------------------------------------------------
(* Session posture.                                                        *)

\* Mutant: only a clean posture is recorded, the requirement is not raised.
reauth_after_posture_kept(s, runtime) == s.strong_reauth_required

\* Mutant: the requirement follows the posture, and a clean one takes it back.
reauth_after_posture_follows(s, runtime) == is_restrictive(runtime)

reauth_after_posture(s, runtime) == s.strong_reauth_required \/ is_restrictive(runtime)

\* refresh_runtime_policy_state (the probe's value is arbitrary) and
\* set_runtime_policy_state.
SetRuntimePolicyState(c, runtime) ==
    /\ Idle(c)
    /\ state # Locked
    /\ state' = [state EXCEPT
                   !.runtime_state = runtime,
                   !.strong_reauth_required = reauth_after_posture(state, runtime),
                   !.lifted = @ /\ ~is_restrictive(runtime)]
    /\ UNCHANGED <<generation, notify, auto_lock_task, task, call>>

MarkStrongReauthRequired(c) ==
    /\ Idle(c)
    /\ state # Locked
    /\ state' = [state EXCEPT !.strong_reauth_required = TRUE, !.lifted = FALSE]
    /\ UNCHANGED <<generation, notify, auto_lock_task, task, call>>

ClearStrongReauthRequirement(c) ==
    /\ Idle(c)
    /\ state # Locked
    /\ state' = [state EXCEPT !.strong_reauth_required = FALSE, !.lifted = TRUE]
    /\ UNCHANGED <<generation, notify, auto_lock_task, task, call>>

\* handle_runtime_security_event
HandleRuntimeSecurityEvent(c, event) ==
    \/ forces_lock(event) /\ BeginLock(c)
    \/ /\ ~forces_lock(event)
       /\ event_requires_strong_reauth(event)
       /\ MarkStrongReauthRequired(c)

----------------------------------------------------------------------------
(* get_entry_for_operation: authorize_sensitive_operation, which acquires  *)
(* the state mutex twice, then get_entry, which acquires it once more.     *)
(* Refusals (VaultLocked, PolicyDenied, ReauthRequired) end the call.      *)

policy_context(s) == [outcome |-> s.unlock_outcome, runtime_state |-> s.runtime_state]

\* Mutant: only the sticky flag is consulted.
requires_strong_reauth_flag_only(s, op) == s.strong_reauth_required

requires_strong_reauth_for(s, op) ==
    \/ s.strong_reauth_required
    \/ ~is_strong(s.auth_strength) /\ requires_strong_reauth(op)

\* current_policy_context and the policy matrix.
CheckPolicy(c, op) ==
    /\ Idle(c)
    /\ state # Locked
    /\ allow_sensitive_operation(policy_context(state), op)
    /\ call' = [call EXCEPT ![c] = [IdleCall EXCEPT
                  !.pc = "reauth", !.session = state, !.op = op]]
    /\ UNCHANGED <<generation, state, notify, auto_lock_task, task>>

CheckReauth(c) ==
    /\ At(c, "reauth")
    /\ IF state = Locked \/ requires_strong_reauth_for(state, call[c].op)
         THEN Return(c)
         ELSE call' = [call EXCEPT ![c].pc = "entry", ![c].checked = state]
    /\ UNCHANGED <<generation, state, notify, auto_lock_task, task>>

\* The entry is read from the session that is open now.
GetEntry(c) ==
    /\ At(c, "entry")
    /\ Return(c)
    /\ UNCHANGED <<generation, state, notify, auto_lock_task, task>>

----------------------------------------------------------------------------
\* A future can be dropped where it waits for a mutex: a timeout around the
\* call, or a host that gives up.  What it did so far stays done.
AwaitPCs == {"publish", "cancel_old", "store", "wipe", "cancel", "reauth", "entry"}

DropCall(c) ==
    /\ c \in Cancellable
    /\ call[c].pc \in AwaitPCs
    /\ Return(c)
    /\ UNCHANGED <<generation, state, notify, auto_lock_task, task>>

\* The steps by which a call in progress goes on.
Continue(c) ==
    \/ PublishSession(c) \/ CancelOldTimer(c) \/ SpawnTimer(c) \/ StoreHandle(c)
    \/ WipeState(c) \/ CancelTimer(c)
    \/ NotifyOne(c)
    \/ CheckReauth(c) \/ GetEntry(c)

\* The steps by which a caller starts a call, or does one that is one step.
Start(c) ==
    \/ \E strength \in Strengths, outcome \in Outcomes,
          runtime \in Runtimes, timeout \in Timeouts :
          BeginUnlock(c, strength, outcome, runtime, timeout)
    \/ BeginLock(c)
    \/ CloneNotify(c)
    \/ \E runtime \in Runtimes : SetRuntimePolicyState(c, runtime)
    \/ ClearStrongReauthRequirement(c)
    \/ \E event \in RuntimeSecurityEvent : HandleRuntimeSecurityEvent(c, event)
    \/ \E op \in Operations : CheckPolicy(c, op)

\* The steps of the task of generation g.
TimerStep(g) ==
    TimerStart(g) \/ TimerExpire(g) \/ TimerFire(g) \/ TimerActivity(g) \/ TaskDrop(g)

Next ==
    \/ \E c \in Callers : Start(c) \/ Continue(c) \/ DropCall(c)
    \/ \E g \in Gen : TimerStep(g)
    \/ Tick

Spec == Init /\ [][Next]_vars

\* The async runtime polls every call and every task that is ready, and time
\* passes.  Nobody is obliged to start a call.
Fairness ==
    /\ \A c \in Callers : WF_vars(Continue(c))
    /\ \A g \in Gen : WF_vars(TimerStep(g))
    /\ WF_vars(Tick)

FairSpec == Spec /\ Fairness

----------------------------------------------------------------------------
(* Properties.                                                             *)

\* Every variable has its type, and activity or the passing of time never
\* leave a timer (restart_auto_lock) with more to wait than its timeout.
TypeOK ==
    /\ generation \in Gen
    /\ state \in Session \cup {Locked}
    /\ notify \in Gen
    /\ auto_lock_task \in Gen \cup {NoTask}
    /\ task \in [Gen -> Task]
    /\ call \in [Callers -> Call]
    /\ \A g \in Gen : task[g].left <= task[g].timeout

\* The step in which the task of generation g closes the open session.
AutoLocks(g) ==
    /\ state # Locked /\ state' = Locked
    /\ task[g].status = "expired" /\ task'[g].status = "done"

\* "Prevents stale tasks from prior cycles from locking a newer session"
\* (restart_auto_lock): a timer task that locks never closes a session whose
\* unlock began after the unlock that spawned the task, whatever the order in
\* which overlapping unlocks, locks and aborts take effect.
NoStaleLock == [][\A g \in Gen : AutoLocks(g) => state.id <= g]_vars

\* The auto-lock closes a session only after a full timeout in which its task
\* observed no activity (the deadline computations of restart_auto_lock).
AutoLockOnlyWhenIdle ==
    [][\A g \in Gen : AutoLocks(g) => task[g].idle >= task[g].timeout]_vars

\* A session whose posture is restrictive, or that was not opened with strong
\* authentication, carries the sticky re-authentication flag until somebody
\* clears it explicitly, whichever of unlock, refresh_runtime_policy_state,
\* set_runtime_policy_state and runtime events led there.
ReauthCoversPosture ==
    /\ state # Locked
    /\ is_restrictive(state.runtime_state) \/ ~is_strong(state.auth_strength)
    /\ ~state.lifted
    => state.strong_reauth_required

\* Nothing but clear_strong_reauth_requirement ("callers should use this only
\* after an explicit strong re-authentication step") takes the flag of an open
\* session back: not a posture that is clean again, not another runtime event,
\* and no unlock, lock or timer that overlaps, unless it opens another session.
ReauthFallsOnlyByClear ==
    [][/\ state # Locked /\ state.strong_reauth_required
       /\ state' # Locked /\ state'.id = state.id /\ ~state'.strong_reauth_required
       => \E c \in Callers : ClearStrongReauthRequirement(c)]_vars

\* authorize_sensitive_operation grants only on a strong session, and on one
\* in a restrictive posture only after an explicit clear: a biometric session
\* stays refused even when its flag was cleared.
GrantNeedsStrongSession ==
    \A c \in Callers :
        At(c, "entry") =>
            /\ is_strong(call[c].checked.auth_strength)
            /\ is_restrictive(call[c].checked.runtime_state) => call[c].checked.lifted

\* The sessions a concurrent history opens and closes are those of the
\* abstract register: generations are issued once, a session opens at most
\* once and only on behalf of its own unlock.
Register == INSTANCE SessionRegister WITH
    session <- IF state = Locked THEN 0 ELSE state.id,
    pending <- {call[c].session.id : c \in {d \in Callers : At(d, "publish")}},
    issued <- generation

RefinesRegister == Register!Spec

Changing(c) == call[c].pc \in UnlockPCs \cup LockPCs

Live(g) == task[g].status \in Alive /\ ~task[g].aborted

\* "Inactivity window after which the vault must lock" (unlock_*): while the
\* vault is unlocked and no unlock or lock is under way, the task of the
\* current generation is alive and belongs to the open session.
AutoLockArmed ==
    state # Locked /\ (\A c \in Callers : ~Changing(c)) =>
        state.id = generation /\ Live(generation) /\ auto_lock_task = generation

\* The same promise over time: unless activity is reported again and again,
\* the vault is locked again and again.
AutoLockEventually ==
    []<>(state = Locked) \/ []<><<\E c \in Callers : NotifyOne(c)>>_vars

\* The documented refusals of get_entry_for_operation ("`PolicyDenied` if
\* policy forbids the operation in the current session", "`ReauthRequired` if
\* strong re-authentication is currently required"): the session an entry is
\* read from is a strong one, primary, in a clean posture and without a
\* pending re-authentication.
RevealAllowedBySession ==
    [][\A c \in Callers :
         At(c, "entry") /\ ~(At(c, "entry"))' /\ state # Locked =>
            /\ state.unlock_outcome = "Primary"
            /\ state.runtime_state = "NotDebugged"
            /\ is_strong(state.auth_strength)
            /\ ~state.strong_reauth_required]_vars
============================================================================
