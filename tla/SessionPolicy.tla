--------------------------- MODULE SessionPolicy ---------------------------
(***************************************************************************)
(* The vocabulary of a session and the policy matrix evaluated on it:      *)
(* core/session.rs (authentication strength, sensitive operations, runtime *)
(* events), core/antidebug.rs (runtime posture), vault/duress.rs (unlock   *)
(* outcome) and core/policy.rs (PolicyContext).  Everything here is a pure *)
(* function of its arguments.                                              *)
(***************************************************************************)

AuthenticationStrength == {"Strong", "Biometric", "QuickUnlock"}

UnlockOutcome == {"Primary", "Decoy"}

RuntimeInspectionState == {"NotDebugged", "Debugged", "Unknown", "TamperSuspected"}

SensitiveOperation ==
    {"Export", "SignedBackupTransfer", "RevealSecret", "CopySecret", "CopyTotp",
     "ChangeSecuritySettings"}

RuntimeSecurityEvent ==
    {"AppBackgrounded", "DeviceLocked", "BiometricSetChanged",
     "QuickUnlockInvalidated", "RuntimeBecameRestrictive"}

is_strong(strength) == strength = "Strong"

\* Unknown and TamperSuspected count as restrictive too.
is_restrictive(runtime) == runtime # "NotDebugged"

\* SensitiveOperation::requires_strong_reauth: every category does.
requires_strong_reauth(op) == op \in SensitiveOperation

\* RuntimeSecurityEvent::forces_lock; the one other event only asks for
\* strong re-authentication.
forces_lock(event) == event # "AppBackgrounded"

event_requires_strong_reauth(event) == event = "AppBackgrounded"

----------------------------------------------------------------------------
\* PolicyContext: the outcome of the unlock and the runtime posture.
PolicyContext == [outcome : UnlockOutcome, runtime_state : RuntimeInspectionState]

is_decoy(policy) == policy.outcome = "Decoy"

\* Mutant: the posture of the runtime is forgotten.
allow_exposure_in_any_posture(policy) == ~is_decoy(policy)

\* The body shared by allow_secret_export, allow_plaintext_import,
\* allow_biometric_unlock, allow_signed_backup_transfer, allow_otpauth_import,
\* allow_clipboard_copy and allow_secret_reveal.
allow_exposure(policy) == ~is_decoy(policy) /\ policy.runtime_state = "NotDebugged"

\* The operation matrix.
allow_sensitive_operation(policy, op) ==
    IF op = "ChangeSecuritySettings"
      THEN ~is_decoy(policy) /\ ~is_restrictive(policy.runtime_state)
      ELSE op \in SensitiveOperation /\ allow_exposure(policy)
============================================================================
