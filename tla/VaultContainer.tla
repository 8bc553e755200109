--------------------------- MODULE VaultContainer ---------------------------
(***************************************************************************)
(* Vault containers and signed backups: what vault/create.rs,              *)
(* vault/migrate.rs, vault/codec.rs and backup/codec.rs write, what        *)
(* happens to the files outside the program, and what the decoders and the *)
(* unlock primitives make of them.                                         *)
(*                                                                         *)
(* Cryptography is symbolic.  A key is the triple it was derived from, a   *)
(* ciphertext (a box) is the tuple of what the AEAD was given, and it      *)
(* opens under exactly these values; a signature is its key and what it    *)
(* was computed over.  Random values are numbers that no draw repeats.     *)
(* The bytes of a header are the header and the encoder that wrote it: two *)
(* encoders write different bytes for one header, and both parse back.     *)
(***************************************************************************)
EXTENDS Naturals, FiniteSets, VaultUnlock

CONSTANTS
    Passwords,   \* master passwords
    Plaintexts,  \* [name, len, payload]: payload, the JSON decodes to a VaultPayload
    Decoys,      \* the plaintexts that callers pass for the decoy branch
    Foreign,     \* the plaintexts of vaults that other encoders wrote
    Kdfs,        \* Argon2id parameters that callers or damaged headers bring
    Policies,    \* the session policies of a backup or its import
    Encoders,    \* other serializers of headers (older versions, pretty printers)
    MaxFiles,    \* bound on the containers and backups the program writes
    MaxFaults,   \* bound on the changes made to files and backups from outside
    None         \* Option::None, and bytes that are nothing the program wrote

ASSUME ContainerAssumption ==
    /\ MaxFiles \in Nat /\ MaxFaults \in Nat
    /\ \A t \in Plaintexts \cup Decoys \cup Foreign : t.len \in Nat /\ t.payload \in BOOLEAN
    /\ Policies \subseteq PolicyContext
    /\ "serde" \notin Encoders

VARIABLES
    drawn,     \* the number of random values drawn
    disk,      \* the containers that exist
    backups,   \* the signed backups that exist
    imported,  \* what signed imports accepted, with password and policy
    faults,    \* the number of changes made from outside
    made,      \* history: what was stored for whom, in which container
    signed     \* history: the backups that were made, with password and policy

vars == <<drawn, disk, backups, imported, faults, made, signed>>

Init ==
    /\ drawn = 0
    /\ disk = {} /\ backups = {} /\ imported = {}
    /\ faults = 0
    /\ made = {} /\ signed = {}

\* The bound counts what the program wrote, not the altered copies.
Written == Cardinality(disk) + Cardinality(backups) - faults

----------------------------------------------------------------------------
(* crypto/kdf.rs and crypto/aead.rs                                        *)

MAX_VAULT_CONTAINER_PAYLOAD_LEN == 16 * 1024 * 1024
MAX_BACKUP_PAYLOAD_LEN == 64 * 1024 * 1024
TAG_LEN == 16

validate_argon2id_params(kdf) ==
    /\ kdf.mem_kib \in (64 * 1024)..(512 * 1024)
    /\ kdf.time_cost \in 3..5
    /\ kdf.lanes = 1

\* derive_master_key_from_password, for parameters that are valid.
derive_master_key(password, ch) == [password |-> password, salt |-> ch.salt, kdf |-> ch.kdf]

encrypt(key, nonce, text, aad) == [key |-> key, nonce |-> nonce, text |-> text, aad |-> aad]

\* Mutant: the header is not authenticated.
decrypts_without_aad(key, nonce, box, aad) ==
    box # None /\ box.key = key /\ box.nonce = nonce

decrypts(key, nonce, box, aad) ==
    box # None /\ box.key = key /\ box.nonce = nonce /\ box.aad = aad

\* A CryptoHeader with the random values that follow the first n.
crypto_header(kdf, n) == [kdf |-> kdf, salt |-> n + 1, nonce |-> n + 2]

\* serde_json::to_vec of a header
serialize_header_json(header) == [header |-> header, encoder |-> "serde"]

----------------------------------------------------------------------------
(* Payload bytes: one ciphertext, the JSON envelope of two, plaintext, or  *)
(* anything else.                                                          *)

Ciphertext(box) ==
    [kind |-> "ciphertext", primary |-> box, decoy |-> None, len |-> box.text.len + TAG_LEN]

\* serde_json writes a byte as a number and a comma, two to four characters;
\* three is less than what random bytes need on average.
json_array_len(n) == 3 * n

Envelope(primary, decoy) ==
    [kind |-> "envelope", primary |-> primary, decoy |-> decoy,
     len |-> json_array_len(primary.text.len + TAG_LEN + decoy.text.len + TAG_LEN)]

PlaintextJson(text) == [kind |-> "json", primary |-> None, decoy |-> None, len |-> text.len]

Noise(payload) == [payload EXCEPT !.kind = "noise", !.primary = None, !.decoy = None]

----------------------------------------------------------------------------
(* vault/codec.rs.  mode is the byte of the StorageMode; framing, whether  *)
(* the lengths in the file agree with it.                                  *)

Encrypted == 1
Plaintext == 2

\* encode_vault_storage succeeds: a non-zero version, and plaintext only without
\* duress and in a runtime that allows it.  The length is not checked.
encodes(header, mode, version, runtime) ==
    /\ version # 0
    /\ mode = Plaintext => header.duress = None /\ ~is_restrictive(runtime)

\* What it writes: the header is serialized anew.
encode_vault_storage(header, mode, payload, version) ==
    [magic |-> TRUE, version |-> version, mode |-> mode,
     header_bytes |-> serialize_header_json(header), payload |-> payload, framing |-> TRUE]

\* decode_vault_file(file, None, max, FALSE).  header_bytes = None: too long,
\* truncated or not a header.
decode_error(file, max) ==
    CASE ~file.magic -> "InvalidMagic"
      [] file.version = 0 -> "UnsupportedVersion"
      [] file.mode = Plaintext -> "PlaintextNotAllowed"
      [] file.mode \notin {Encrypted, Plaintext} -> "UnsupportedStorageMode"
      [] file.header_bytes = None -> "Deserialize"
      [] file.payload.len > max -> "PayloadTooLarge"
      [] ~file.framing -> "TrailingBytes"
      [] OTHER -> "Ok"

\* The ParsedVaultFile is the file; its header is what the bytes parse to.
header_of(file) == file.header_bytes.header

----------------------------------------------------------------------------
(* core/unlock.rs and vault/duress.rs on a decoded container: which boxes  *)
(* the password opens, handed to the primitives of VaultUnlock.            *)

\* decrypt_with_crypto_header, with the raw header bytes as associated data
decrypt_with_crypto_header(file, ch, box, password) ==
    /\ validate_argon2id_params(ch.kdf)
    /\ decrypts(derive_master_key(password, ch), ch.nonce, box, file.header_bytes)

PrimaryCrypto(header) == IF header.duress = None THEN header.crypto ELSE header.duress.primary

\* The branches of a container whose KDF parameters are acceptable.
DerivableBranches(header) ==
    {b \in {"primary"} : validate_argon2id_params(PrimaryCrypto(header).kdf)}
      \cup {b \in {"decoy"} : /\ header.duress # None
                              /\ validate_argon2id_params(header.duress.decoy.kdf)}

OpensPrimary(file, password) ==
    LET header == header_of(file) IN
    /\ header.duress = None => file.payload.kind = "ciphertext"
    /\ decrypt_with_crypto_header(file, PrimaryCrypto(header), file.payload.primary, password)

OpensDecoy(file, password) ==
    LET header == header_of(file) IN
    /\ header.duress # None
    /\ decrypt_with_crypto_header(file, header.duress.decoy, file.payload.decoy, password)

Opens(file, password) ==
    {b \in {"primary"} : OpensPrimary(file, password)}
      \cup {b \in {"decoy"} : OpensDecoy(file, password)}

Decodes(box) == box # None /\ box.text.payload

Parsed(file) ==
    [mode |-> "Encrypted", duress |-> header_of(file).duress # None,
     envelope |-> file.payload.kind = "envelope",
     kdf |-> DerivableBranches(header_of(file)),
     decodes |-> {b \in {"primary"} : Decodes(file.payload.primary)}
                   \cup {b \in {"decoy"} : Decodes(file.payload.decoy)}]

\* The result of decoding a file and unlocking it with a password.
open_vault(file, password) ==
    IF decode_error(file, MAX_VAULT_CONTAINER_PAYLOAD_LEN) # "Ok" THEN "AuthFailed"
    ELSE unlock_vault(Parsed(file), Opens(file, password))

\* The plaintext that comes with an outcome.
OpenedText(file, outcome) ==
    IF outcome = "Primary" THEN file.payload.primary.text ELSE file.payload.decoy.text

----------------------------------------------------------------------------
(* vault/create.rs and vault/migrate.rs                                    *)

encrypt_with_crypto_header(header, ch, text, password) ==
    encrypt(derive_master_key(password, ch), ch.nonce, text, serialize_header_json(header))

\* A new container, and for whom it holds what.
Stored(file, password, branch, text) ==
    [file |-> file, password |-> password, branch |-> branch, text |-> text]

\* create_encrypted_vault followed by encode_vault_storage.  The header of an
\* older version lacks the duress field, so its bytes differ.
LegacyFile(password, text, kdf, version, encoder) ==
    LET header == [vault_id |-> drawn, crypto |-> crypto_header(kdf, drawn), duress |-> None]
        bytes == [header |-> header, encoder |-> encoder]
        box == encrypt(derive_master_key(password, header.crypto), header.crypto.nonce, text, bytes)
    IN  [encode_vault_storage(header, Encrypted, Ciphertext(box), version)
           EXCEPT !.header_bytes = bytes]

create_encrypted_vault(password, text, kdf, version) ==
    /\ validate_argon2id_params(kdf)
    /\ version # 0
    /\ Written < MaxFiles
    /\ LET file == LegacyFile(password, text, kdf, version, "serde") IN
       /\ disk' = disk \cup {file}
       /\ made' = made \cup {Stored(file, password, "Primary", text)}
    /\ drawn' = drawn + 2
    /\ UNCHANGED <<backups, imported, faults, signed>>

\* A vault written by another encoder, found on the disk: an older version of
\* the program, or a tool that formats the header differently.  Its plaintext
\* may not be a payload.
FindForeignVault(password, text, kdf, encoder) ==
    /\ Written < MaxFiles
    /\ LET file == LegacyFile(password, text, kdf, 1, encoder) IN
       /\ disk' = disk \cup {file}
       /\ made' = made \cup {Stored(file, password, "Primary", text)}
    /\ drawn' = drawn + 2
    /\ UNCHANGED <<backups, imported, faults, signed>>

\* Mutant: the migration keeps the salt and the nonce of the vault.
fresh_crypto_reused(old, kdf, n) == [old EXCEPT !.kdf = kdf]

\* The primary CryptoHeader of a duress vault; old is the one it replaces.
fresh_crypto(old, kdf, n) == crypto_header(kdf, n)

DuressHeader(vault_id, old, kdf) ==
    LET primary == fresh_crypto(old, kdf, drawn)
        decoy == crypto_header(kdf, drawn + 2)
    IN  [vault_id |-> vault_id, crypto |-> primary,
         duress |-> [primary |-> primary, decoy |-> decoy]]

\* Mutant: the passwords of the two branches are exchanged.
encrypt_duress_envelope_swapped(header, primary_password, decoy_password, primary, decoy) ==
    Envelope(encrypt_with_crypto_header(header, header.duress.primary, primary, decoy_password),
             encrypt_with_crypto_header(header, header.duress.decoy, decoy, primary_password))

encrypt_duress_envelope(header, primary_password, decoy_password, primary, decoy) ==
    Envelope(encrypt_with_crypto_header(header, header.duress.primary, primary, primary_password),
             encrypt_with_crypto_header(header, header.duress.decoy, decoy, decoy_password))

create_duress_vault(password, decoy_password, text, decoy_text, kdf, version) ==
    /\ text.payload /\ decoy_text.payload
    /\ validate_argon2id_params(kdf)
    /\ version # 0
    /\ Written < MaxFiles
    /\ LET header == DuressHeader(drawn, crypto_header(kdf, drawn), kdf)
           envelope == encrypt_duress_envelope(header, password, decoy_password, text, decoy_text)
           file == encode_vault_storage(header, Encrypted, envelope, version)
       IN  /\ disk' = disk \cup {file}
           /\ made' = made \cup {Stored(file, password, "Primary", text),
                                 Stored(file, decoy_password, "Decoy", decoy_text)}
    /\ drawn' = drawn + 4
    /\ UNCHANGED <<backups, imported, faults, signed>>

\* The VaultFile that a caller has from the decoder holds no header bytes: the
\* associated data is the header serialized again.
migrate_result(file, password, kdf) ==
    LET header == header_of(file)
        opened == /\ file.payload.kind = "ciphertext"
                  /\ decrypts(derive_master_key(password, header.crypto), header.crypto.nonce,
                              file.payload.primary, serialize_header_json(header))
    IN  CASE header.duress # None -> "InvalidHeader"
          [] ~validate_argon2id_params(header.crypto.kdf) \/ ~opened -> "AuthFailed"
          [] ~file.payload.primary.text.payload -> "InvalidPayload"
          [] ~validate_argon2id_params(kdf) -> "AuthFailed"
          [] OTHER -> "Ok"

\* History: what was stored under a header.
PrimaryOf(header) ==
    {m \in made : m.branch = "Primary" /\ m.file.header_bytes.header = header}

\* What enable_duress_on_vault makes: the identifier and the primary plaintext
\* are kept.
MigratedFile(file, password, decoy_password, decoy_text, kdf) ==
    LET header == DuressHeader(header_of(file).vault_id, header_of(file).crypto, kdf)
    IN  encode_vault_storage(header, Encrypted,
          encrypt_duress_envelope(header, password, decoy_password,
                                  file.payload.primary.text, decoy_text), 1)

enable_duress_on_vault(file, password, decoy_password, decoy_text, kdf) ==
    /\ decode_error(file, MAX_VAULT_CONTAINER_PAYLOAD_LEN) = "Ok"
    /\ decoy_text.payload
    /\ Written < MaxFiles
    /\ migrate_result(file, password, kdf) = "Ok"
    /\ LET new == MigratedFile(file, password, decoy_password, decoy_text, kdf) IN
       /\ disk' = disk \cup {new}
       /\ made' = made \cup
            {Stored(new, m.password, "Primary", m.text) : m \in PrimaryOf(header_of(file))}
            \cup {Stored(new, decoy_password, "Decoy", decoy_text)}
    /\ drawn' = drawn + 4
    /\ UNCHANGED <<backups, imported, faults, signed>>

\* A plaintext export of an opened vault.
ExportPlaintext(file, password, version, runtime) ==
    /\ open_vault(file, password) \in UnlockOutcome
    /\ encodes(header_of(file), Plaintext, version, runtime)
    /\ Written < MaxFiles
    /\ disk' = disk \cup
         {encode_vault_storage(header_of(file), Plaintext,
            PlaintextJson(OpenedText(file, open_vault(file, password))), version)}
    /\ UNCHANGED <<drawn, backups, imported, faults, made, signed>>

----------------------------------------------------------------------------
(* What storage and transport may do to a container: the alterations that  *)
(* the corruption tests and the structured fuzz targets apply.  The        *)
(* program's own files stay; an altered copy joins them.                   *)

\* One field of the file, or the bytes of its header.
AlteredFrame(file) ==
    {[file EXCEPT !.magic = FALSE], [file EXCEPT !.version = 0],
     [file EXCEPT !.header_bytes = None], [file EXCEPT !.framing = FALSE],
     [file EXCEPT !.payload = Noise(file.payload)]}
      \cup {[file EXCEPT !.mode = m] : m \in {Encrypted, Plaintext, 3}}

\* The header still parses: another encoding, another identifier, other KDF
\* parameters, no duress section.
AlteredHeader(file) ==
    LET bytes == file.header_bytes IN
    {[file EXCEPT !.header_bytes = b] :
       b \in {[bytes EXCEPT !.encoder = e] : e \in Encoders \cup {"serde"}}
         \cup {[bytes EXCEPT !.header.vault_id = n] : n \in 0..drawn}
         \cup {[bytes EXCEPT !.header.crypto.kdf = k] : k \in Kdfs}
         \cup {[bytes EXCEPT !.header.duress = None]}}

\* The ciphertexts of an envelope exchanged, or one of them taken out.
AlteredPayload(file) ==
    IF file.payload.kind # "envelope" THEN {} ELSE
    {[file EXCEPT !.payload = Envelope(file.payload.decoy, file.payload.primary)],
     [file EXCEPT !.payload = Ciphertext(file.payload.primary)],
     [file EXCEPT !.payload = Ciphertext(file.payload.primary), !.header_bytes.header.duress = None],
     [file EXCEPT !.payload = Ciphertext(file.payload.decoy), !.header_bytes.header.duress = None]}

\* The header of one file before the payload of another.
Spliced(file) == {[file EXCEPT !.payload = other.payload] : other \in disk}

Damage(file) ==
    /\ faults < MaxFaults
    /\ file.header_bytes # None
    /\ \E altered \in AlteredFrame(file) \cup AlteredHeader(file) \cup AlteredPayload(file)
                        \cup Spliced(file) :
          altered \notin disk /\ disk' = disk \cup {altered}
    /\ faults' = faults + 1
    /\ UNCHANGED <<drawn, backups, imported, made, signed>>

----------------------------------------------------------------------------
(* backup/codec.rs and import/signed.rs                                    *)

BACKUP_VERSION == 1

\* Mutant: the signature covers the header alone.
SignedBytes_header_only(header, container) == [header |-> header, payload |-> None]

\* The bytes before the signature fields.
SignedBytes(header, container) == [header |-> header, payload |-> container]

derive_backup_signing_key(password, header) == derive_master_key(password, header)

encode_result(policy, container, kdf) ==
    CASE ~allow_exposure(policy) -> "PolicyDenied"
      [] container.payload.len > MAX_BACKUP_PAYLOAD_LEN -> "PayloadTooLarge"
      [] ~validate_argon2id_params(kdf) -> "AuthFailed"
      [] OTHER -> "Ok"

encode_signed_backup(policy, password, container, kdf) ==
    /\ encode_result(policy, container, kdf) = "Ok"
    /\ Written < MaxFiles
    /\ LET header == [version |-> BACKUP_VERSION, kdf |-> kdf, salt |-> drawn + 1]
           backup == [magic |-> TRUE, version |-> BACKUP_VERSION, header |-> header,
                      payload |-> container, framing |-> TRUE,
                      sig |-> [key |-> derive_backup_signing_key(password, header),
                               over |-> SignedBytes(header, container)]]
       IN  /\ backups' = backups \cup {backup}
           /\ signed' = signed \cup {[backup |-> backup, password |-> password, policy |-> policy]}
    /\ drawn' = drawn + 1
    /\ UNCHANGED <<disk, imported, faults, made>>

\* The mutations of the structured fuzz target, and fields of another backup or
\* another container in their place.
DamageBackup(backup) ==
    /\ faults < MaxFaults
    /\ \E altered \in
          {[backup EXCEPT !.magic = FALSE], [backup EXCEPT !.version = 65535],
           [backup EXCEPT !.header = None], [backup EXCEPT !.framing = FALSE],
           [backup EXCEPT !.sig = None]}
          \cup {[backup EXCEPT !.header.kdf = k] : k \in Kdfs}
          \cup {[backup EXCEPT !.header.version = 0]}
          \cup {[backup EXCEPT !.payload = file] : file \in disk}
          \cup {[backup EXCEPT !.sig = other.sig] : other \in backups}
          \cup {[backup EXCEPT !.header = other.header] : other \in backups} :
          altered \notin backups /\ backups' = backups \cup {altered}
    /\ faults' = faults + 1
    /\ UNCHANGED <<drawn, disk, imported, made, signed>>

verifies(password, backup) ==
    /\ backup.sig # None
    /\ backup.sig.key = derive_backup_signing_key(password, backup.header)
    /\ backup.sig.over = SignedBytes(backup.header, backup.payload)

decode_signed_backup(policy, password, backup) ==
    CASE ~allow_exposure(policy) -> "PolicyDenied"
      [] ~backup.magic -> "InvalidFormat"
      [] backup.version # BACKUP_VERSION -> "UnsupportedVersion"
      [] backup.header = None -> "Deserialize"
      [] backup.header.version # BACKUP_VERSION -> "UnsupportedVersion"
      [] backup.payload.payload.len > MAX_BACKUP_PAYLOAD_LEN -> "PayloadTooLarge"
      [] ~backup.framing -> "InvalidFormat"
      [] ~validate_argon2id_params(backup.header.kdf) -> "AuthFailed"
      [] ~verifies(password, backup) -> "AuthFailed"
      [] OTHER -> "Ok"

\* import_vipervault_from_signed_backup.  The decoder refuses plaintext before
\* the second test for it is reached.
import_result(policy, password, backup) ==
    CASE is_decoy(policy) -> "PolicyDenied"
      [] decode_signed_backup(policy, password, backup) # "Ok" -> "AuthFailed"
      [] decode_error(backup.payload, MAX_VAULT_CONTAINER_PAYLOAD_LEN) = "PayloadTooLarge"
           -> "PayloadTooLarge"
      [] decode_error(backup.payload, MAX_VAULT_CONTAINER_PAYLOAD_LEN) # "Ok" -> "InvalidFormat"
      [] OTHER -> "Ok"

import_vipervault_from_signed_backup(policy, password, backup) ==
    /\ import_result(policy, password, backup) = "Ok"
    /\ imported' = imported \cup
         {[password |-> password, container |-> backup.payload, policy |-> policy]}
    /\ UNCHANGED <<drawn, disk, backups, faults, made, signed>>

----------------------------------------------------------------------------
Create ==
    \E p \in Passwords, k \in Kdfs :
       \/ \E t \in Plaintexts : create_encrypted_vault(p, t, k, 1)
       \/ \E t \in Foreign, e \in Encoders : FindForeignVault(p, t, k, e)
       \/ \E q \in Passwords, t \in Plaintexts, d \in Decoys :
            create_duress_vault(p, q, t, d, k, 1)

Use ==
    \E f \in disk, p \in Passwords :
       \/ \E q \in Passwords, d \in Decoys, k \in Kdfs : enable_duress_on_vault(f, p, q, d, k)
       \/ \E r \in RuntimeInspectionState : ExportPlaintext(f, p, 1, r)
       \/ \E c \in Policies, k \in Kdfs : encode_signed_backup(c, p, f, k)

Import ==
    \E b \in backups, p \in Passwords, c \in Policies : import_vipervault_from_signed_backup(c, p, b)

Outside ==
    \/ \E f \in disk : Damage(f)
    \/ \E b \in backups : DamageBackup(b)

Next == Create \/ Use \/ Import \/ Outside

Spec == Init /\ [][Next]_vars

----------------------------------------------------------------------------
(* Properties                                                              *)

\* A container that opens, whatever happened to it on the way, opens to what the
\* owner of the password stored under exactly these header bytes, as the branch
\* it was stored for (the header is the associated data of both ciphertexts).
Authentic ==
    \A f \in disk, p \in Passwords :
       LET outcome == open_vault(f, p) IN
       outcome \in UnlockOutcome =>
         \E m \in made : /\ m.file.header_bytes = f.header_bytes
                         /\ m.password = p
                         /\ m.branch = outcome
                         /\ m.text = OpenedText(f, outcome)

\* The decoy password differs from the primary one; with one password for both
\* the decoy branch is never reached.
Reachable(m) ==
    m.branch = "Decoy" =>
      \A n \in made : n.file = m.file /\ n.branch = "Primary" => n.password # m.password

\* What create_encrypted_vault, create_duress_vault and enable_duress_on_vault
\* stored opens with the password it was stored with, to exactly this branch and
\* plaintext, as long as the container fits the limit of the decoder; and a
\* signed backup of it restores the container byte for byte.
Recoverable ==
    /\ \A m \in made :
         /\ decode_error(m.file, MAX_VAULT_CONTAINER_PAYLOAD_LEN) # "PayloadTooLarge"
         /\ validate_argon2id_params(m.file.header_bytes.header.crypto.kdf)
         /\ Reachable(m)
         => /\ open_vault(m.file, m.password) = m.branch
            /\ OpenedText(m.file, m.branch) = m.text
    /\ \A s \in signed :
         decode_error(s.backup.payload, MAX_VAULT_CONTAINER_PAYLOAD_LEN) = "Ok"
           => import_result(s.policy, s.password, s.backup) = "Ok"

Boxes(file) == {file.payload.primary, file.payload.decoy} \ {None}

\* "salt and nonce are NOT secret, but MUST be unique per vault encryption": no
\* key encrypts two things under one nonce, across creations and migrations.
FreshNonces ==
    \A f, g \in disk : \A a \in Boxes(f), b \in Boxes(g) :
       a.key = b.key /\ a.nonce = b.nonce => a = b

\* A signed import accepts only what an allowed session signed with the same
\* password, unchanged, and never a plaintext container.
BackupExact ==
    \A i \in imported :
       /\ allow_exposure(i.policy)
       /\ i.container.mode = Encrypted
       /\ \E s \in signed : /\ s.password = i.password
                            /\ s.backup.payload = i.container
                            /\ allow_exposure(s.policy)

\* "migrated vaults unlock correctly on both branches" (migrate_test.rs): an
\* encrypted vault without duress mode that opens with a password can be migrated
\* with it.
MigrationKeepsAccess ==
    \A f \in disk, p \in Passwords, k \in Kdfs :
       /\ open_vault(f, p) = "Primary"
       /\ header_of(f).duress = None
       /\ f.payload.primary.text.payload
       /\ validate_argon2id_params(k)
       => migrate_result(f, p, k) = "Ok"
============================================================================
