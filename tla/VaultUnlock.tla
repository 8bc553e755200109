---------------------------- MODULE VaultUnlock ----------------------------
(***************************************************************************)
(* The unlock primitives as functions of a parsed container and what the   *)
(* password (or the released master key) decrypts: core/unlock.rs,         *)
(* vault/duress.rs, core/biometrics.rs and import/signed.rs.               *)
(*                                                                         *)
(* The AEAD and the KDF are external: a credential is the set of the       *)
(* ciphertexts that it decrypts.  A wrong password and a tampered          *)
(* container are alike: the set is empty.                                  *)
(***************************************************************************)
EXTENDS SessionPolicy

\* The encrypted parts of a container; a vault without duress has the first.
Branch == {"primary", "decoy"}

\* ParsedVaultFile.  envelope: the payload of a duress vault is a well-formed
\* envelope; kdf: the parts whose KDF parameters are acceptable; decodes: the
\* parts whose plaintext decodes into a payload.
ParsedVaultFile ==
    [mode : {"Encrypted", "PlaintextJson"}, duress : BOOLEAN, envelope : BOOLEAN,
     kdf : SUBSET Branch, decodes : SUBSET Branch]

Credential == SUBSET Branch

UnlockResult == UnlockOutcome \cup {"AuthFailed", "PayloadDecode", "Kdf"}

\* Mutant: the failure of both branches is not mapped to AuthFailed.
unlock_duress_envelope_unmapped(v, opens) ==
    IF "primary" \in opens THEN "Primary"
    ELSE IF "decoy" \in opens THEN "Decoy" ELSE "PayloadDecode"

\* decrypt_with_crypto_header: unacceptable KDF parameters are an AuthFailed of
\* the branch, as a wrong password is.
decrypted(v, opens) == opens \cap v.kdf

\* unlock_duress_envelope_to_plaintext_json: primary first, then decoy.  A
\* branch that decrypts and does not decode ends the attempt; its InvalidPayload
\* is mapped to AuthFailed by the caller.
unlock_duress_envelope(v, opens) ==
    IF "primary" \in decrypted(v, opens) THEN
      (IF "primary" \in v.decodes THEN "Primary" ELSE "AuthFailed")
    ELSE IF "decoy" \in decrypted(v, opens) THEN
      (IF "decoy" \in v.decodes THEN "Decoy" ELSE "AuthFailed")
    ELSE "AuthFailed"

\* unlock_vault_to_plaintext_json_with_outcome
unlock_vault(v, opens) ==
    IF v.mode # "Encrypted" THEN "AuthFailed"
    ELSE IF v.duress THEN
      (IF v.envelope THEN unlock_duress_envelope(v, opens) ELSE "PayloadDecode")
    ELSE IF "primary" \notin v.kdf THEN "Kdf"
    ELSE IF "primary" \in opens THEN "Primary" ELSE "AuthFailed"

\* unlock_vault_to_plaintext_json_with_master_key
unlock_with_master_key(v, opens) ==
    IF v.mode = "Encrypted" /\ ~v.duress /\ "primary" \in opens
      THEN "Primary" ELSE "AuthFailed"
============================================================================
