------------------------------ MODULE AuthGate ------------------------------
(***************************************************************************)
(* The throttled unlock flows: the limiter (core/rate_limit.rs), the gate  *)
(* around a password-based operation (core/auth_gate.rs), the two gated    *)
(* flows (core/unlock.rs, import/e2e_signed.rs) and the biometric one      *)
(* (core/biometrics.rs), used concurrently by a set of callers.            *)
(*                                                                         *)
(* One action is one stretch of code between two points at which another   *)
(* caller can be observed: the operation itself runs outside the limiter's *)
(* mutex, the failure is recorded under it, the sleep is outside it again  *)
(* and the reset after a primary unlock acquires it anew.                  *)
(***************************************************************************)
EXTENDS Naturals, VaultUnlock

CONSTANTS
    Callers,      \* threads or tasks that share the gate
    Cancellable,  \* the callers that may drop the future of an attempt
    Flows,        \* the flows they use: "password", "signed", "biometric"
    Vaults,       \* the containers they open
    CounterMax,   \* largest value of the failure counter (u32::MAX)
    quiet_period, max_delay, jitter_max  \* UnlockThrottlePolicy, in ticks

ASSUME GateAssumption ==
    /\ CounterMax \in Nat \ {0}
    /\ quiet_period \in Nat /\ max_delay \in Nat /\ jitter_max \in Nat
    /\ Vaults \subseteq ParsedVaultFile
    /\ Cancellable \subseteq Callers

VARIABLES
    failures,  \* UnlockRateLimiter.failures
    quiet,     \* time since last_failure, up to quiet_period
    due,       \* history: the delay, without jitter, that the last failure earned
    owed,      \* history: what remains of the delay that a caller's last failure earned
    call       \* the attempts in progress

vars == <<failures, quiet, due, owed, call>>

\* An attempt.  result: what the operation returned; payload: the plaintext
\* decodes; left: what remains of the sleep; label: the outcome given to the
\* session.  History: branch, what the credential decrypted; input, what was
\* wrong with the backup, the container or the credential; counted, the failure
\* was recorded.
IdleCall ==
    [pc |-> "idle", flow |-> "password", result |-> "none", payload |-> TRUE, left |-> 0,
     label |-> "none", branch |-> "none", input |-> "good", counted |-> FALSE]

Call ==
    [pc : {"idle", "record", "sleep", "reset", "open", "returned"},
     flow : {"password", "signed", "biometric"}, result : UnlockResult \cup {"none"},
     payload : BOOLEAN, left : 0..(max_delay + jitter_max),
     label : UnlockOutcome \cup {"none"}, branch : UnlockOutcome \cup {"none"},
     input : {"good", "wrong", "malformed", "malformed_branch", "plaintext", "unsigned"}, counted : BOOLEAN]

Init ==
    /\ failures = 0
    /\ quiet = quiet_period
    /\ due = 0
    /\ owed = [c \in Callers |-> 0]
    /\ call = [c \in Callers |-> IdleCall]

----------------------------------------------------------------------------
(* UnlockRateLimiter                                                       *)

\* Mutant: the end of the schedule is missing.
password_delay_for_failures_gap(f) == CASE f <= 2 -> 0 [] f \in 3..4 -> 1 [] OTHER -> 0

password_delay_for_failures(f) ==
    CASE f <= 2 -> 0
      [] f \in 3..4 -> 1
      [] f \in 5..6 -> 5
      [] f \in 7..8 -> 10
      [] f \in 9..10 -> 15
      [] f \in 11..12 -> 30
      [] f \in 13..15 -> 60
      [] OTHER -> 300

\* Mutant: the delay is not capped.
base_delay_uncapped(f) == password_delay_for_failures(f)

base_delay(f) ==
    IF password_delay_for_failures(f) < max_delay THEN password_delay_for_failures(f) ELSE max_delay

\* Half of the streak is dropped after a quiet period.
decayed == IF quiet >= quiet_period THEN failures \div 2 ELSE failures

\* saturating_add(1)
streak_after_failure == IF decayed < CounterMax THEN decayed + 1 ELSE CounterMax

\* Mutant: the delay is computed before the failure is counted.
delay_after_failure_previous(jitter) == base_delay(failures) + jitter

\* What on_failure_delay returns.
delay_after_failure(jitter) == base_delay(streak_after_failure) + jitter

\* on_success
on_success == failures' = 0 /\ quiet' = quiet_period /\ due' = 0

----------------------------------------------------------------------------
(* The flows.                                                              *)

Idle(c) == call[c].pc = "idle"

\* Mutant: errors of the container are counted too.
is_auth_failure_any(result) == result \notin UnlockOutcome

is_auth_failure(result) == result = "AuthFailed"

\* Mutant: every success resets the streak.
should_reset_any(result) == result \in UnlockOutcome

\* The explicit reset of unlock_plaintext_json_gated.
should_reset(result) == result = "Primary"

\* What the gate does next with the result of the operation.
AfterOperation(result) ==
    IF is_auth_failure(result) THEN "record"
    ELSE IF should_reset(result) THEN "reset"
    ELSE IF result \in UnlockOutcome THEN "open"
    ELSE "returned"

\* The branch whose plaintext an unlock returns.
Decrypted(v, opens) ==
    IF ~v.duress \/ "primary" \in decrypted(v, opens) THEN "Primary" ELSE "Decoy"

\* The branches of the container that the credential is for.
Own(v, opens) == opens \cap (IF v.duress THEN Branch ELSE {"primary"})

\* Something that the credential needs cannot be used: the envelope, or the KDF
\* parameters or the plaintext of a branch that it is for.
MalformedBranch(v, opens) == ~(Own(v, opens) \subseteq v.kdf \cap v.decodes)

MalformedContainer(v, opens) ==
    IF v.duress THEN ~v.envelope
    ELSE "primary" \notin v.kdf \/ MalformedBranch(v, opens)

InputClass(v, opens, signature) ==
    CASE signature = "invalid" -> "unsigned"
      [] signature # "invalid" /\ v.mode # "Encrypted" -> "plaintext"
      [] OTHER -> IF MalformedContainer(v, opens) THEN "malformed"
                  ELSE IF MalformedBranch(v, opens) THEN "malformed_branch"
                  ELSE IF Own(v, opens) = {} THEN "wrong" ELSE "good"

Attempt(flow, v, opens, signature, result, pc) ==
    [IdleCall EXCEPT
       !.pc = pc, !.flow = flow, !.result = result,
       !.payload = v.duress \/ "primary" \in v.decodes,
       !.branch = IF result \in UnlockOutcome THEN Decrypted(v, opens) ELSE "none",
       !.input = InputClass(v, opens, signature)]

\* unlock_session_gated and unlock_plaintext_json_gated: the operation.
TryPassword(c, v, opens) ==
    /\ Idle(c) /\ "password" \in Flows
    /\ LET result == unlock_vault(v, opens)
       IN  call' = [call EXCEPT ![c] =
                      Attempt("password", v, opens, "none", result, AfterOperation(result))]
    /\ UNCHANGED <<failures, quiet, due, owed>>

\* import_signed_vault_and_unlock: the signature is verified with the password
\* first, and a failure returns at once; plaintext containers are refused.
TrySigned(c, v, opens, signature) ==
    /\ Idle(c) /\ "signed" \in Flows
    /\ v.mode = "Encrypted"
    /\ LET result == IF signature = "valid" THEN unlock_vault(v, opens) ELSE "AuthFailed"
           pc == IF signature = "valid" THEN AfterOperation(result) ELSE "returned"
       IN  call' = [call EXCEPT ![c] = Attempt("signed", v, opens, signature, result, pc)]
    /\ UNCHANGED <<failures, quiet, due, owed>>

\* unlock_with_biometrics: the key is released by the platform, no password is
\* involved and the gate is not used.
TryBiometric(c, v, opens) ==
    /\ Idle(c) /\ "biometric" \in Flows
    /\ LET result == unlock_with_master_key(v, opens)
           pc == IF result = "Primary" THEN "open" ELSE "returned"
       IN  call' = [call EXCEPT ![c] = Attempt("biometric", v, opens, "none", result, pc)]
    /\ UNCHANGED <<failures, quiet, due, owed>>

\* on_failure_delay, under the mutex.  A delay of zero is not slept.
RecordFailure(c, jitter) ==
    /\ call[c].pc = "record"
    /\ failures' = streak_after_failure
    /\ quiet' = 0
    /\ due' = base_delay(streak_after_failure)
    /\ owed' = [owed EXCEPT ![c] = base_delay(streak_after_failure)]
    /\ call' = [call EXCEPT
                  ![c].pc = IF delay_after_failure(jitter) = 0 THEN "returned" ELSE "sleep",
                  ![c].left = delay_after_failure(jitter),
                  ![c].counted = TRUE]

Wake(c) ==
    /\ call[c].pc = "sleep"
    /\ call[c].left = 0
    /\ call' = [call EXCEPT ![c].pc = "returned"]
    /\ UNCHANGED <<failures, quiet, due, owed>>

\* gate.reset()
Reset(c) ==
    /\ call[c].pc = "reset"
    /\ on_success
    /\ call' = [call EXCEPT ![c].pc = "open"]
    /\ UNCHANGED owed

\* Mutant: the outcome is discarded.
label_primary(flow, result) == "Primary"

\* unlock_session_gated keeps the outcome with the decoded payload; the signed
\* and the biometric flow open a session with the compatibility wrappers of the
\* lock manager, which call it a primary one.
label(flow, result) == IF flow = "password" THEN result ELSE "Primary"

OpenSession(c) ==
    /\ call[c].pc = "open"
    /\ call' = [call EXCEPT
                  ![c].pc = "returned",
                  ![c].label = IF call[c].flow = "password" /\ ~call[c].payload
                                 THEN "none" ELSE label(call[c].flow, call[c].result)]
    /\ UNCHANGED <<failures, quiet, due, owed>>

\* The caller takes the result.
Return(c) ==
    /\ call[c].pc = "returned"
    /\ call' = [call EXCEPT ![c] = IdleCall]
    /\ UNCHANGED <<failures, quiet, due, owed>>

\* The future of an attempt is dropped where it awaits (a timeout around the
\* unlock, a closed window): the mutex of the limiter, the sleep or, in the flows
\* that open the session themselves, the unlock of the manager.
DropCall(c) ==
    /\ c \in Cancellable
    /\ \/ call[c].pc \in {"record", "sleep", "reset"}
       \/ call[c].pc = "open" /\ call[c].flow # "password"
    /\ call' = [call EXCEPT ![c] = IdleCall]
    /\ UNCHANGED <<failures, quiet, due, owed>>

Tick ==
    /\ quiet < quiet_period \/ \E c \in Callers : call[c].left > 0 \/ owed[c] > 0
    /\ quiet' = IF quiet < quiet_period THEN quiet + 1 ELSE quiet
    /\ call' = [c \in Callers |->
                  IF call[c].pc = "sleep" /\ call[c].left > 0
                    THEN [call[c] EXCEPT !.left = @ - 1] ELSE call[c]]
    /\ owed' = [c \in Callers |-> IF owed[c] > 0 THEN owed[c] - 1 ELSE 0]
    /\ UNCHANGED <<failures, due>>

----------------------------------------------------------------------------
Start(c) ==
    \E v \in Vaults, opens \in Credential :
        \/ TryPassword(c, v, opens)
        \/ \E signature \in {"valid", "invalid"} : TrySigned(c, v, opens, signature)
        \/ TryBiometric(c, v, opens)

Continue(c) ==
    \/ \E jitter \in 0..jitter_max : RecordFailure(c, jitter)
    \/ Wake(c) \/ Reset(c) \/ OpenSession(c) \/ Return(c) \/ DropCall(c)

Next == (\E c \in Callers : Start(c) \/ Continue(c)) \/ Tick

Spec == Init /\ [][Next]_vars

----------------------------------------------------------------------------
(* Properties.                                                             *)

\* Every variable has its type, and "backoff is capped": nobody ever waits
\* longer than max_delay and the jitter (on_failure_delay).
TypeOK ==
    /\ failures \in 0..CounterMax
    /\ quiet \in 0..quiet_period
    /\ due \in 0..max_delay
    /\ owed \in [Callers -> 0..max_delay]
    /\ call \in [Callers -> Call]

\* "A successful decoy unlock does not reset the throttle state": the streak
\* falls only in the reset after an attempt that decrypted the primary vault,
\* or by the decay after a quiet period; not by a decoy unlock, another error,
\* or an overflow of the counter.
StreakFallsOnlyWhenEarned ==
    [][failures' < failures =>
         \/ quiet >= quiet_period
         \/ \E c \in Callers :
              /\ call[c].pc = "reset" /\ call'[c].pc = "open"
              /\ call[c].branch = "Primary"]_vars

RecordedFor(c) == ~call[c].counted /\ call'[c].counted

\* "Backoff grows with consecutive failures": without a quiet period or a
\* reset in between, a failure never earns less delay than the one before it,
\* at the end of the schedule and of the counter too, and whoever drops the
\* attempt that earned it.
BackoffGrows ==
    [][(\E c \in Callers : RecordedFor(c)) /\ quiet < quiet_period => due' >= due]_vars

\* "Repeated failures quickly become expensive": a caller that does not drop its
\* attempts has waited for the whole delay its last failure earned before its
\* next failure is recorded, however the other callers interfere.
FailuresSpaced ==
    [][\A c \in Callers \ Cancellable : RecordedFor(c) => owed[c] = 0]_vars

\* What the gate counts (unlock_plaintext_json_gated).  A wrong password that
\* reached the gate and whose attempt returns to its caller was counted.  In a
\* duress container the right password of a branch whose KDF parameters or
\* plaintext are malformed cannot be told from a wrong one: when it opens
\* nothing, it is counted too.  Errors outside the branches of a duress container
\* (its envelope; the KDF parameters or the plaintext of a vault without duress)
\* cost their caller no delay and the streak nothing.
FailuresClassified ==
    \A c \in Callers :
        /\ /\ call[c].pc = "returned" /\ call[c].flow # "biometric"
           /\ call[c].input \in {"wrong", "malformed_branch"}
           /\ call[c].result \notin UnlockOutcome
           => call[c].counted
        /\ call[c].input = "malformed" => ~call[c].counted /\ call[c].left = 0

\* "Does not delay on parse/KDF/payload errors to avoid DoS via malformed files"
\* (unlock_session_gated): a container whose envelope, KDF parameters or
\* plaintext are malformed costs no delay, wherever in it they are.
MalformedNotDelayed ==
    \A c \in Callers :
        call[c].input \in {"malformed", "malformed_branch"} => call[c].pc # "sleep"

\* "Primary vs decoy unlock outcome for the current session": the outcome a
\* session is opened with is the branch whose plaintext it holds; for the
\* password and the biometric flow.
SessionLabelsBranch ==
    \A c \in Callers :
        call[c].label # "none" /\ call[c].flow # "signed" => call[c].label = call[c].branch

\* The same for the signed import.
SignedSessionLabelsBranch ==
    \A c \in Callers :
        call[c].label # "none" /\ call[c].flow = "signed" => call[c].label = call[c].branch
=============================================================================
