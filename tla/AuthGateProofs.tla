--------------------------- MODULE AuthGateProofs ---------------------------
(***************************************************************************)
(* The safety properties of AuthGate, for any callers, containers and      *)
(* throttle policy.                                                        *)
(***************************************************************************)
EXTENDS AuthGate, TLAPS

\* Part of the inductive invariant: the streak determines the delay that the
\* last failure earned.
DueExact == due = base_delay(failures)

\* What is known of an attempt at each of its steps.
Known(c) ==
    /\ call[c].flow = "password" \/ call[c].flow \in Flows
    /\ call[c].pc \in {"reset", "open"} =>
         call[c].result \in UnlockOutcome /\ call[c].result = call[c].branch
    /\ call[c].pc = "reset" => call[c].result = "Primary"
    /\ call[c].pc = "open" /\ call[c].flow = "biometric" => call[c].result = "Primary"
    /\ call[c].label # "none" => call[c].flow = "signed" \/ call[c].label = call[c].branch
    /\ call[c].input = "malformed" =>
         call[c].pc # "record" /\ ~call[c].counted /\ call[c].left = 0
    /\ /\ call[c].input \in {"wrong", "malformed_branch"} /\ call[c].flow # "biometric"
       /\ call[c].result \notin UnlockOutcome
       => call[c].pc = "record" \/ call[c].counted

\* Part of the inductive invariant: every attempt is where its steps led it.
Attempts == \A c \in Callers : Known(c)

IInv == TypeOK /\ DueExact /\ Attempts

----------------------------------------------------------------------------
(* The limiter.                                                            *)

LEMMA DelayType == \A f \in Nat : password_delay_for_failures(f) \in Nat
BY DEF password_delay_for_failures

LEMMA BaseDelayType == \A f \in Nat : base_delay(f) \in 0..max_delay
BY DelayType, GateAssumption DEF base_delay

\* The schedule does not fall.
LEMMA DelayMonotone ==
    \A f, g \in Nat : f <= g => password_delay_for_failures(f) <= password_delay_for_failures(g)
BY DEF password_delay_for_failures

LEMMA BaseDelayMonotone == \A f, g \in Nat : f <= g => base_delay(f) <= base_delay(g)
BY DelayType, DelayMonotone, GateAssumption DEF base_delay

LEMMA NoFailureNoDelay == base_delay(0) = 0
BY GateAssumption DEF base_delay, password_delay_for_failures

LEMMA StreakType ==
    ASSUME TypeOK
    PROVE  /\ streak_after_failure \in 0..CounterMax
           /\ quiet < quiet_period => streak_after_failure >= failures
<1>1. failures \in Nat /\ failures <= CounterMax /\ CounterMax \in Nat \ {0}
  BY GateAssumption DEF TypeOK
<1>2. quiet \in Nat /\ quiet_period \in Nat
  BY GateAssumption DEF TypeOK
<1>3. decayed \in Nat /\ decayed <= failures /\ (quiet < quiet_period => decayed = failures)
  BY <1>1, <1>2 DEF decayed
<1>. QED BY <1>1, <1>3 DEF streak_after_failure

----------------------------------------------------------------------------
(* The attempts.                                                           *)

LEMMA IdleCallType == IdleCall \in Call
BY GateAssumption DEF IdleCall, Call, UnlockResult, UnlockOutcome

LEMMA ResultTypes ==
    ASSUME NEW v, NEW opens
    PROVE  unlock_vault(v, opens) \in UnlockResult /\ unlock_with_master_key(v, opens) \in UnlockResult
BY DEF unlock_vault, unlock_with_master_key, unlock_duress_envelope, UnlockResult, UnlockOutcome

LEMMA NextLabel ==
    ASSUME NEW result
    PROVE  AfterOperation(result) \in {"record", "reset", "open", "returned"}
BY DEF AfterOperation

LEMMA AttemptType ==
    ASSUME NEW v \in ParsedVaultFile, NEW opens, NEW result \in UnlockResult,
           NEW flow \in {"password", "signed", "biometric"},
           NEW signature, NEW next \in {"record", "reset", "open", "returned"}
    PROVE  Attempt(flow, v, opens, signature, result, next) \in Call
<1>1. (v.duress \/ "primary" \in v.decodes) \in BOOLEAN
  BY DEF ParsedVaultFile
<1>. DEFINE payload == v.duress \/ "primary" \in v.decodes
            branch == IF result \in UnlockOutcome THEN Decrypted(v, opens) ELSE "none"
            input == InputClass(v, opens, signature)
<1>2. branch \in UnlockOutcome \cup {"none"}
  BY DEF Decrypted, UnlockOutcome
<1>3. input \in {"good", "wrong", "malformed", "malformed_branch", "plaintext", "unsigned"}
  BY DEF InputClass
<1>4. Attempt(flow, v, opens, signature, result, next) =
        [IdleCall EXCEPT !.pc = next, !.flow = flow, !.result = result, !.payload = payload,
                         !.branch = branch, !.input = input]
  BY DEF Attempt
<1>5. payload \in BOOLEAN
  BY <1>1
<1>. HIDE DEF payload, branch, input
<1>6. Attempt(flow, v, opens, signature, result, next) =
        [pc |-> next, flow |-> flow, result |-> result, payload |-> payload, left |-> 0,
         label |-> "none", branch |-> branch, input |-> input, counted |-> FALSE]
  BY <1>4 DEF IdleCall
<1>7. 0 \in 0..(max_delay + jitter_max)
  BY GateAssumption
<1>. QED BY <1>2, <1>3, <1>5, <1>6, <1>7 DEF Call

\* What the operation and the classification of its result say of an attempt.
LEMMA PasswordAttempt ==
    ASSUME NEW v, NEW opens
    PROVE  LET result == unlock_vault(v, opens)
               next == AfterOperation(result)
           IN  /\ next \in {"reset", "open"} => result \in UnlockOutcome /\ result = Decrypted(v, opens)
               /\ next = "reset" => result = "Primary"
               /\ \A s : InputClass(v, opens, s) = "malformed" => next # "record"
               /\ \A s : /\ InputClass(v, opens, s) \in {"wrong", "malformed_branch"}
                        /\ result \notin UnlockOutcome
                        => next = "record"
<1>. DEFINE result == unlock_vault(v, opens)
            next == AfterOperation(result)
<1>1. next \in {"reset", "open"} => result \in UnlockOutcome /\ result = Decrypted(v, opens)
  BY DEF unlock_vault, unlock_duress_envelope, AfterOperation, is_auth_failure, should_reset,
         UnlockOutcome, Decrypted
<1>2. next = "reset" => result = "Primary"
  BY DEF AfterOperation, is_auth_failure, should_reset
<1>3. ASSUME NEW s, InputClass(v, opens, s) = "malformed" PROVE result # "AuthFailed"
  <2>1. v.mode = "Encrypted" /\ MalformedContainer(v, opens)
    BY <1>3 DEF InputClass
  <2>2. CASE v.duress
    BY <2>1, <2>2 DEF MalformedContainer, unlock_vault
  <2>3. CASE ~v.duress
    <3>1. "primary" \notin v.kdf \/ "primary" \in opens
      BY <2>1, <2>3 DEF MalformedContainer, MalformedBranch, Own
    <3>. QED BY <2>1, <2>3, <3>1 DEF unlock_vault
  <2>. QED BY <2>2, <2>3
<1>4. ASSUME NEW s, InputClass(v, opens, s) \in {"wrong", "malformed_branch"},
             result \notin UnlockOutcome
      PROVE  result = "AuthFailed"
  <2>1. v.mode = "Encrypted" /\ ~MalformedContainer(v, opens)
    BY <1>4 DEF InputClass
  <2>. QED BY <1>4, <2>1
           DEF MalformedContainer, unlock_vault, unlock_duress_envelope, UnlockOutcome
<1>. QED BY <1>1, <1>2, <1>3, <1>4 DEF AfterOperation, is_auth_failure, should_reset

LEMMA BiometricAttempt ==
    ASSUME NEW v, NEW opens, unlock_with_master_key(v, opens) = "Primary"
    PROVE  Decrypted(v, opens) = "Primary"
BY DEF unlock_with_master_key, Decrypted

----------------------------------------------------------------------------
(* The invariant.                                                          *)

LEMMA InitInv == Init => IInv
<1>. SUFFICES ASSUME Init PROVE IInv
  OBVIOUS
<1>1. TypeOK
  BY IdleCallType, GateAssumption DEF Init, TypeOK
<1>2. DueExact
  BY NoFailureNoDelay DEF Init, DueExact
<1>3. Attempts
  BY DEF Init, Attempts, Known, IdleCall
<1>. QED BY <1>1, <1>2, <1>3 DEF IInv

\* A step that replaces one attempt by another one that is well formed.
LEMMA Replaced ==
    ASSUME IInv, NEW c \in Callers, NEW a \in Call, call' = [call EXCEPT ![c] = a],
           Known(c)'
    PROVE  call' \in [Callers -> Call] /\ Attempts'
BY DEF IInv, TypeOK, Attempts, Known

LEMMA StartStep ==
    ASSUME IInv, NEW c \in Callers, Start(c)
    PROVE  IInv'
<1>1. PICK v \in Vaults, opens \in Credential :
        \/ TryPassword(c, v, opens)
        \/ \E signature \in {"valid", "invalid"} : TrySigned(c, v, opens, signature)
        \/ TryBiometric(c, v, opens)
  BY DEF Start
<1>2. v \in ParsedVaultFile
  BY GateAssumption
<1>3. UNCHANGED <<failures, quiet, due, owed>>
  BY <1>1 DEF TryPassword, TrySigned, TryBiometric
<1>4. ASSUME NEW flow \in {"password", "signed", "biometric"}, flow \in Flows,
             NEW signature,
             NEW result \in UnlockResult, NEW next \in {"record", "reset", "open", "returned"},
             call' = [call EXCEPT ![c] = Attempt(flow, v, opens, signature, result, next)],
             next \in {"reset", "open"} => result \in UnlockOutcome /\ result = Decrypted(v, opens),
             next = "reset" \/ (next = "open" /\ flow = "biometric") => result = "Primary",
             InputClass(v, opens, signature) = "malformed" => next # "record",
             (/\ InputClass(v, opens, signature) \in {"wrong", "malformed_branch"}
              /\ result \notin UnlockOutcome /\ flow # "biometric") => next = "record"
      PROVE  IInv'
  <2>. DEFINE a == Attempt(flow, v, opens, signature, result, next)
  <2>1. a \in Call
    BY <1>2, <1>4, AttemptType
  <2>2. call'[c] = a
    BY <1>4 DEF IInv, TypeOK
  <2>3. /\ a.pc = next /\ a.flow = flow /\ a.result = result /\ a.label = "none"
        /\ a.branch = IF result \in UnlockOutcome THEN Decrypted(v, opens) ELSE "none"
        /\ a.input = InputClass(v, opens, signature)
        /\ a.left = 0 /\ a.counted = FALSE
    BY DEF Attempt, IdleCall
  <2>4. call' = [call EXCEPT ![c] = a]
    BY <1>4
  <2>. HIDE DEF a
  <2>5. Known(c)'
    BY <1>4, <2>2, <2>3 DEF Known
  <2>6. call' \in [Callers -> Call] /\ Attempts'
    BY <2>1, <2>4, <2>5, Replaced
  <2>. QED BY <1>3, <2>6 DEF IInv, TypeOK, DueExact
<1>5. CASE TryPassword(c, v, opens)
  <2>1. "password" \in Flows
        /\ call' = [call EXCEPT ![c] = Attempt("password", v, opens, "none", unlock_vault(v, opens),
                                               AfterOperation(unlock_vault(v, opens)))]
    BY <1>5 DEF TryPassword
  <2>. QED BY <1>4, <2>1, ResultTypes, NextLabel, PasswordAttempt
<1>6. ASSUME NEW signature \in {"valid", "invalid"}, TrySigned(c, v, opens, signature)
      PROVE  IInv'
  <2>1. CASE signature = "valid"
    <3>1. "signed" \in Flows
          /\ call' = [call EXCEPT ![c] = Attempt("signed", v, opens, "valid", unlock_vault(v, opens),
                                                 AfterOperation(unlock_vault(v, opens)))]
      BY <1>6, <2>1 DEF TrySigned
    <3>. QED BY <1>4, <3>1, ResultTypes, NextLabel, PasswordAttempt
  <2>2. CASE signature = "invalid"
    <3>1. "signed" \in Flows
          /\ call' = [call EXCEPT ![c] = Attempt("signed", v, opens, "invalid", "AuthFailed", "returned")]
      BY <1>6, <2>2 DEF TrySigned
    <3>2. InputClass(v, opens, "invalid") = "unsigned"
      BY DEF InputClass
    <3>. QED BY <1>4, <3>1, <3>2 DEF UnlockResult
  <2>. QED BY <2>1, <2>2
<1>7. CASE TryBiometric(c, v, opens)
  <2>. DEFINE result == unlock_with_master_key(v, opens)
              next == IF result = "Primary" THEN "open" ELSE "returned"
  <2>1. "biometric" \in Flows
        /\ call' = [call EXCEPT ![c] = Attempt("biometric", v, opens, "none", result, next)]
    BY <1>7 DEF TryBiometric
  <2>2. result \in UnlockResult
    BY ResultTypes
  <2>3. next = "open" => result = "Primary" /\ result \in UnlockOutcome /\ result = Decrypted(v, opens)
    BY BiometricAttempt DEF UnlockOutcome
  <2>4. next \in {"open", "returned"}
    OBVIOUS
  <2>. HIDE DEF result, next
  <2>. QED BY <1>4, <2>1, <2>2, <2>3, <2>4
<1>. QED BY <1>1, <1>5, <1>6, <1>7

LEMMA RecordStep ==
    ASSUME IInv, NEW c \in Callers, NEW jitter \in 0..jitter_max, RecordFailure(c, jitter)
    PROVE  IInv'
<1>. DEFINE delay == delay_after_failure(jitter)
            next == IF delay = 0 THEN "returned" ELSE "sleep"
            a == [call[c] EXCEPT !.pc = next, !.left = delay, !.counted = TRUE]
<1>t. TypeOK
  BY DEF IInv
<1>1. /\ streak_after_failure \in 0..CounterMax /\ CounterMax \in Nat
      /\ base_delay(streak_after_failure) \in 0..max_delay
  BY <1>t, StreakType, BaseDelayType, GateAssumption
<1>2. delay \in 0..(max_delay + jitter_max)
  BY <1>1, GateAssumption DEF delay_after_failure
<1>3. next \in {"returned", "sleep"}
  OBVIOUS
<1>4. call' = [call EXCEPT ![c] = a] /\ call[c].pc = "record" /\ call[c] \in Call
  BY <1>t DEF RecordFailure, TypeOK
<1>. HIDE DEF delay, next
<1>5. a \in Call
  BY <1>2, <1>3, <1>4 DEF Call
<1>6. call'[c] = a
  BY <1>t, <1>4 DEF TypeOK
<1>7. Known(c)'
  BY <1>3, <1>4, <1>6 DEF IInv, Attempts, Known, Call
<1>. HIDE DEF a
<1>8. call' \in [Callers -> Call] /\ Attempts'
  BY <1>4, <1>5, <1>7, Replaced
<1>9. /\ failures' = streak_after_failure /\ quiet' = 0 /\ due' = base_delay(streak_after_failure)
      /\ owed' = [owed EXCEPT ![c] = base_delay(streak_after_failure)]
  BY DEF RecordFailure
<1>10. DueExact'
  BY <1>9 DEF DueExact
<1>11. TypeOK'
  BY <1>t, <1>1, <1>8, <1>9, GateAssumption DEF TypeOK
<1>. QED BY <1>8, <1>10, <1>11 DEF IInv

\* The other steps of an attempt.
LEMMA ContinueStep ==
    ASSUME IInv, NEW c \in Callers,
           Wake(c) \/ Reset(c) \/ OpenSession(c) \/ Return(c) \/ DropCall(c)
    PROVE  IInv'
<1>t. TypeOK /\ Known(c) /\ call[c] \in Call
  BY DEF IInv, TypeOK, Attempts
<1>1. CASE Wake(c)
  <2>. DEFINE a == [call[c] EXCEPT !.pc = "returned"]
  <2>1. call' = [call EXCEPT ![c] = a] /\ call'[c] = a /\ a \in Call
    BY <1>t, <1>1 DEF Wake, TypeOK, Call
  <2>2. Known(c)'
    BY <1>t, <1>1, <2>1 DEF Known, Wake, Call
  <2>. HIDE DEF a
  <2>3. call' \in [Callers -> Call] /\ Attempts'
    BY <2>1, <2>2, Replaced
  <2>. QED BY <1>1, <2>3 DEF Wake, IInv, TypeOK, DueExact
<1>2. CASE Reset(c)
  <2>. DEFINE a == [call[c] EXCEPT !.pc = "open"]
  <2>1. call' = [call EXCEPT ![c] = a] /\ call'[c] = a /\ a \in Call
    BY <1>t, <1>2 DEF Reset, TypeOK, Call
  <2>2. Known(c)'
    BY <1>t, <1>2, <2>1 DEF Known, Reset, Call
  <2>. HIDE DEF a
  <2>3. call' \in [Callers -> Call] /\ Attempts'
    BY <2>1, <2>2, Replaced
  <2>4. failures' = 0 /\ quiet' = quiet_period /\ due' = 0 /\ owed' = owed
    BY <1>2 DEF Reset, on_success
  <2>. QED BY <2>3, <2>4, NoFailureNoDelay, GateAssumption DEF IInv, TypeOK, DueExact
<1>3. CASE OpenSession(c)
  <2>. DEFINE name == IF call[c].flow = "password" /\ ~call[c].payload
                        THEN "none" ELSE label(call[c].flow, call[c].result)
              a == [call[c] EXCEPT !.pc = "returned", !.label = name]
  <2>1. call' = [call EXCEPT ![c] = a] /\ call[c].pc = "open"
    BY <1>t, <1>3 DEF OpenSession, TypeOK
  <2>2. /\ name \in UnlockOutcome \cup {"none"}
        /\ name # "none" => call[c].flow = "signed" \/ name = call[c].branch
    BY <1>t, <2>1 DEF Known, label, Call, UnlockOutcome
  <2>. HIDE DEF name
  <2>3. call'[c] = a /\ a \in Call
    BY <1>t, <2>1, <2>2 DEF TypeOK, Call
  <2>4. Known(c)'
    BY <1>t, <2>1, <2>2, <2>3 DEF Known, Call
  <2>. HIDE DEF a
  <2>5. call' \in [Callers -> Call] /\ Attempts'
    BY <2>1, <2>3, <2>4, Replaced
  <2>. QED BY <1>3, <2>5 DEF OpenSession, IInv, TypeOK, DueExact
<1>4. CASE Return(c) \/ DropCall(c)
  <2>1. call' = [call EXCEPT ![c] = IdleCall] /\ call'[c] = IdleCall
    BY <1>t, <1>4 DEF Return, DropCall, TypeOK
  <2>2. Known(c)'
    BY <2>1 DEF Known, IdleCall
  <2>3. call' \in [Callers -> Call] /\ Attempts'
    BY <2>1, <2>2, IdleCallType, Replaced
  <2>. QED BY <1>4, <2>3 DEF Return, DropCall, IInv, TypeOK, DueExact
<1>. QED BY <1>1, <1>2, <1>3, <1>4

LEMMA TickStep ==
    ASSUME IInv, Tick
    PROVE  IInv'
<1>1. \A c \in Callers : call'[c] = call[c] \/
        (/\ call[c].pc = "sleep" /\ call[c].left > 0
         /\ call'[c] = [call[c] EXCEPT !.left = call[c].left - 1])
  BY DEF Tick
<1>2. \A c \in Callers : call'[c] \in Call /\ Known(c)'
  <2>. SUFFICES ASSUME NEW c \in Callers PROVE call'[c] \in Call /\ Known(c)'
    OBVIOUS
  <2>1. call[c] \in Call /\ Known(c)
    BY DEF IInv, TypeOK, Attempts
  <2>2. CASE call'[c] = call[c]
    BY <2>1, <2>2 DEF Known
  <2>3. CASE /\ call[c].pc = "sleep" /\ call[c].left > 0
             /\ call'[c] = [call[c] EXCEPT !.left = call[c].left - 1]
    <3>1. call[c].left - 1 \in 0..(max_delay + jitter_max)
      BY <2>1, <2>3, GateAssumption DEF Call
    <3>2. call[c].input # "malformed"
      BY <2>1, <2>3, GateAssumption DEF Known, Call
    <3>. QED BY <2>1, <2>3, <3>1, <3>2 DEF Known, Call
  <2>. QED BY <1>1, <2>2, <2>3
<1>3. call' \in [Callers -> Call]
  <2>1. DOMAIN call' = Callers /\ call' = [c \in Callers |-> call'[c]]
    BY DEF Tick
  <2>. QED BY <1>2, <2>1
<1>4. quiet' \in 0..quiet_period /\ UNCHANGED <<failures, due>>
  BY GateAssumption DEF IInv, TypeOK, Tick
<1>5. owed' \in [Callers -> 0..max_delay]
  BY GateAssumption DEF IInv, TypeOK, Tick
<1>. QED BY <1>2, <1>3, <1>4, <1>5 DEF IInv, TypeOK, DueExact, Attempts

LEMMA Invariance == Spec => []IInv
<1>1. IInv /\ [Next]_vars => IInv'
  <2>1. ASSUME IInv, UNCHANGED vars PROVE IInv'
    BY <2>1 DEF IInv, TypeOK, DueExact, Attempts, Known, vars
  <2>. QED BY <2>1, StartStep, RecordStep, ContinueStep, TickStep DEF Next, Continue
<1>. QED BY <1>1, InitInv, PTL DEF Spec

----------------------------------------------------------------------------
(* The theorems.                                                           *)

\* Every variable of the gate has its type, and no delay of on_failure_delay
\* exceeds the cap and the jitter, for every throttle policy.
THEOREM TypeCorrect == Spec => []TypeOK
<1>1. IInv => TypeOK
  BY DEF IInv
<1>. QED BY <1>1, Invariance, PTL

\* unlock_plaintext_json_gated: every wrong password that reached the gate and
\* returns was counted, in the password flow and behind the signature of the signed
\* import, and so was the right password of a branch of a duress container that
\* opens nothing because the branch's KDF parameters or plaintext are malformed; an
\* envelope that does not parse, and malformed KDF parameters or plaintext of a
\* vault without duress, are never counted as a failure, in any flow.
THEOREM FailuresAreClassified == Spec => []FailuresClassified
<1>1. ASSUME IInv, NEW c \in Callers
      PROVE  /\ /\ call[c].pc = "returned" /\ call[c].flow # "biometric"
                /\ call[c].input \in {"wrong", "malformed_branch"}
                /\ call[c].result \notin UnlockOutcome
                => call[c].counted
             /\ call[c].input = "malformed" => ~call[c].counted /\ call[c].left = 0
  <2>1. call[c].input = "malformed" => ~call[c].counted /\ call[c].left = 0
    BY <1>1 DEF IInv, Attempts, Known
  <2>2. /\ call[c].pc = "returned" /\ call[c].flow # "biometric"
        /\ call[c].input \in {"wrong", "malformed_branch"}
        /\ call[c].result \notin UnlockOutcome
        => call[c].counted
    BY <1>1 DEF IInv, TypeOK, Call, Attempts, Known
  <2>. QED BY <2>1, <2>2
<1>2. IInv => FailuresClassified
  BY <1>1 DEF FailuresClassified
<1>. QED BY <1>2, Invariance, PTL

\* A session of the password or the biometric flow carries the outcome of the
\* branch that was decrypted.
THEOREM LabelsAreTrue == Spec => []SessionLabelsBranch
<1>1. IInv => SessionLabelsBranch
  BY DEF IInv, Attempts, Known, SessionLabelsBranch
<1>. QED BY <1>1, Invariance, PTL

\* The streak falls only by decay after a quiet period or in the reset that a
\* primary unlock earned, however the attempts of the callers overlap.
THEOREM StreakIsKept == Spec => StreakFallsOnlyWhenEarned
<1>1. ASSUME IInv, [Next]_vars, failures' < failures, ~(quiet >= quiet_period)
      PROVE  \E c \in Callers :
               call[c].pc = "reset" /\ call'[c].pc = "open" /\ call[c].branch = "Primary"
  <2>t. TypeOK /\ failures \in Nat /\ quiet < quiet_period
    BY <1>1, GateAssumption DEF IInv, TypeOK
  <2>1. failures' # failures
    BY <1>1, <2>t
  <2>2. ASSUME NEW c \in Callers, NEW jitter \in 0..jitter_max, RecordFailure(c, jitter)
        PROVE  FALSE
    <3>1. streak_after_failure \in Nat /\ streak_after_failure >= failures
      BY <2>t, StreakType, GateAssumption
    <3>. QED BY <1>1, <2>t, <2>2, <3>1 DEF RecordFailure
  <2>3. PICK c \in Callers : Reset(c)
    BY <1>1, <2>1, <2>2
    DEF Next, Start, Continue, vars, TryPassword, TrySigned, TryBiometric, Wake, OpenSession, Return,
        DropCall, Tick
  <2>4. call[c].pc = "reset" /\ call'[c].pc = "open"
    BY <2>3, <2>t DEF Reset, TypeOK, Call
  <2>. QED BY <1>1, <2>4 DEF IInv, Attempts, Known
<1>2. IInv /\ [Next]_vars =>
        (failures' < failures =>
           \/ quiet >= quiet_period
           \/ \E c \in Callers :
                /\ call[c].pc = "reset" /\ call'[c].pc = "open"
                /\ call[c].branch = "Primary")
  BY <1>1
<1>. QED BY <1>2, Invariance, PTL DEF Spec, StreakFallsOnlyWhenEarned

\* A failure is recorded by RecordFailure only.
LEMMA RecordedBy ==
    ASSUME IInv, [Next]_vars, NEW r \in Callers, RecordedFor(r)
    PROVE  \E jitter \in 0..jitter_max : RecordFailure(r, jitter)
<1>t. TypeOK
  BY DEF IInv
<1>1. ASSUME NEW c \in Callers, Start(c) PROVE FALSE
  <2>1. PICK v, opens, signature, result, flow, next :
          call' = [call EXCEPT ![c] = Attempt(flow, v, opens, signature, result, next)]
    BY <1>1 DEF Start, TryPassword, TrySigned, TryBiometric
  <2>2. Attempt(flow, v, opens, signature, result, next).counted = FALSE
    BY DEF Attempt, IdleCall
  <2>. HIDE DEF Attempt
  <2>. QED BY <1>t, <2>1, <2>2 DEF TypeOK, RecordedFor
<1>2. ASSUME NEW c \in Callers, Wake(c) \/ Reset(c) \/ OpenSession(c) PROVE FALSE
  <2>1. \A d \in Callers : call'[d].counted = call[d].counted
    BY <1>t, <1>2 DEF Wake, Reset, OpenSession, TypeOK, Call
  <2>. QED BY <2>1 DEF RecordedFor
<1>3. ASSUME NEW c \in Callers, Return(c) \/ DropCall(c) PROVE FALSE
  BY <1>t, <1>3 DEF Return, DropCall, TypeOK, RecordedFor, IdleCall
<1>4. ASSUME Tick PROVE FALSE
  <2>1. \A d \in Callers : call'[d].counted = call[d].counted
    BY <1>t, <1>4 DEF Tick, TypeOK, Call
  <2>. QED BY <2>1 DEF RecordedFor
<1>5. ~(UNCHANGED vars)
  BY DEF RecordedFor, vars
<1>6. ASSUME NEW c \in Callers, NEW jitter \in 0..jitter_max, RecordFailure(c, jitter)
      PROVE  c = r
  BY <1>t, <1>6 DEF RecordFailure, TypeOK, RecordedFor
<1>. QED BY <1>1, <1>2, <1>3, <1>4, <1>5, <1>6 DEF Next, Continue

\* For every policy, a failure without a quiet period or a reset before it never
\* earns less delay than the previous one.
THEOREM BackoffIsMonotone == Spec => BackoffGrows
<1>1. ASSUME IInv, [Next]_vars, NEW c \in Callers, RecordedFor(c), quiet < quiet_period
      PROVE  due' >= due
  <2>1. PICK jitter \in 0..jitter_max : RecordFailure(c, jitter)
    BY <1>1, RecordedBy
  <2>2. /\ failures \in Nat /\ streak_after_failure \in Nat
        /\ failures <= streak_after_failure
    BY <1>1, StreakType, GateAssumption DEF IInv, TypeOK
  <2>3. /\ base_delay(failures) \in Nat /\ base_delay(streak_after_failure) \in Nat
        /\ base_delay(failures) <= base_delay(streak_after_failure)
    BY <2>2, BaseDelayMonotone, BaseDelayType, GateAssumption
  <2>4. due = base_delay(failures) /\ due' = base_delay(streak_after_failure)
    BY <1>1, <2>1 DEF IInv, DueExact, RecordFailure
  <2>. QED BY <2>3, <2>4
<1>2. IInv /\ [Next]_vars =>
        ((\E c \in Callers : RecordedFor(c)) /\ quiet < quiet_period => due' >= due)
  BY <1>1
<1>. QED BY <1>2, Invariance, PTL DEF Spec, BackoffGrows

----------------------------------------------------------------------------
(* The spacing of the failures of a caller that does not drop its attempts. *)

\* What a caller owes it is still sleeping through.
Spaced ==
    \A c \in Callers \ Cancellable :
        owed[c] = 0 \/ (call[c].pc = "sleep" /\ owed[c] <= call[c].left)

LEMMA SpacedStep ==
    ASSUME IInv, Spaced, [Next]_vars
    PROVE  Spaced'
<1>. SUFFICES ASSUME NEW d \in Callers, d \notin Cancellable
              PROVE  (owed[d] = 0 \/ (call[d].pc = "sleep" /\ owed[d] <= call[d].left))'
  BY DEF Spaced
<1>t. /\ TypeOK /\ call[d] \in Call /\ owed[d] \in Nat
      /\ owed[d] = 0 \/ (call[d].pc = "sleep" /\ owed[d] <= call[d].left)
  BY GateAssumption DEF IInv, TypeOK, Spaced
<1>u. CASE UNCHANGED vars
  BY <1>t, <1>u DEF vars
<1>1. ASSUME NEW c \in Callers, Start(c) \/ Wake(c) \/ Reset(c) \/ OpenSession(c) \/ Return(c) \/ DropCall(c)
      PROVE  (owed[d] = 0 \/ (call[d].pc = "sleep" /\ owed[d] <= call[d].left))'
  <2>1. owed' = owed
    BY <1>1 DEF Start, TryPassword, TrySigned, TryBiometric, Wake, Reset, OpenSession, Return, DropCall
  <2>2. CASE c # d
    <3>1. call'[d] = call[d]
      BY <1>1, <1>t, <2>2
      DEF Start, TryPassword, TrySigned, TryBiometric, Wake, Reset, OpenSession, Return, DropCall, TypeOK
    <3>. QED BY <1>t, <2>1, <3>1
  <2>3. CASE c = d
    <3>1. call[d].pc = "sleep" => call[d].left = 0
      BY <1>1, <2>3
      DEF Start, TryPassword, TrySigned, TryBiometric, Idle, Wake, Reset, OpenSession, Return, DropCall
    <3>. QED BY <1>t, <2>1, <3>1
  <2>. QED BY <2>2, <2>3
<1>2. ASSUME NEW c \in Callers, NEW jitter \in 0..jitter_max, RecordFailure(c, jitter)
      PROVE  (owed[d] = 0 \/ (call[d].pc = "sleep" /\ owed[d] <= call[d].left))'
  <2>. DEFINE delay == delay_after_failure(jitter)
              next == IF delay = 0 THEN "returned" ELSE "sleep"
  <2>1. streak_after_failure \in Nat /\ base_delay(streak_after_failure) \in Nat
    BY <1>t, StreakType, BaseDelayType, GateAssumption
  <2>2. delay \in Nat /\ delay >= base_delay(streak_after_failure)
    BY <2>1, GateAssumption DEF delay_after_failure
  <2>3. /\ owed' = [owed EXCEPT ![c] = base_delay(streak_after_failure)]
        /\ call' = [call EXCEPT ![c].pc = next, ![c].left = delay, ![c].counted = TRUE]
    BY <1>2 DEF RecordFailure
  <2>4. next = "sleep" \/ delay = 0
    OBVIOUS
  <2>. HIDE DEF delay, next
  <2>5. CASE c = d
    <3>1. call'[d].pc = next /\ call'[d].left = delay /\ owed'[d] = base_delay(streak_after_failure)
      BY <1>t, <2>3, <2>5 DEF TypeOK, Call
    <3>. QED BY <2>1, <2>2, <2>4, <3>1
  <2>6. CASE c # d
    <3>1. call'[d] = call[d] /\ owed'[d] = owed[d]
      BY <1>t, <2>3, <2>6 DEF TypeOK
    <3>. QED BY <1>t, <3>1
  <2>. QED BY <2>5, <2>6
<1>3. CASE Tick
  <2>1. owed'[d] = IF owed[d] > 0 THEN owed[d] - 1 ELSE 0
    BY <1>3 DEF Tick
  <2>2. CASE owed[d] = 0
    BY <2>1, <2>2
  <2>3. CASE owed[d] > 0
    <3>1. call[d].left \in Nat /\ call[d].left > 0 /\ call[d].pc = "sleep"
      BY <1>t, <2>3, GateAssumption DEF Call
    <3>2. call'[d].pc = "sleep" /\ call'[d].left = call[d].left - 1
      BY <1>t, <1>3, <3>1 DEF Tick, Call
    <3>. QED BY <1>t, <2>1, <2>3, <3>1, <3>2
  <2>. QED BY <1>t, <2>2, <2>3
<1>. QED BY <1>u, <1>1, <1>2, <1>3 DEF Next, Continue

\* For every policy and any number of callers, a caller that does not drop its
\* attempts pays the delay of every failure before its next failure is recorded
\* (AuthGate::run sleeps before it returns the error).
THEOREM FailuresArePaidFor == Spec => FailuresSpaced
<1>1. Init => Spaced
  BY DEF Init, Spaced
<1>2. IInv /\ Spaced /\ [Next]_vars => Spaced'
  BY SpacedStep
<1>3. IInv /\ Spaced /\ [Next]_vars =>
        \A c \in Callers \ Cancellable : RecordedFor(c) => owed[c] = 0
  <2>. SUFFICES ASSUME IInv, Spaced, [Next]_vars, NEW c \in Callers \ Cancellable, RecordedFor(c)
                PROVE  owed[c] = 0
    OBVIOUS
  <2>1. PICK jitter \in 0..jitter_max : RecordFailure(c, jitter)
    BY RecordedBy
  <2>. QED BY <2>1 DEF RecordFailure, Spaced
<1>4. Spec => []Spaced
  BY <1>1, <1>2, Invariance, PTL DEF Spec
<1>. QED BY <1>3, <1>4, Invariance, PTL DEF Spec, FailuresSpaced
=============================================================================
