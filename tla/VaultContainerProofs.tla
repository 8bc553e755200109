------------------------ MODULE VaultContainerProofs ------------------------
(***************************************************************************)
(* Proofs about VaultContainer, for every set of passwords, plaintexts,    *)
(* KDF parameters and encoders and for any number of files and faults.     *)
(***************************************************************************)
EXTENDS VaultContainer, TLAPS

----------------------------------------------------------------------------
(* Signed backups                                                          *)

BackupShape(b) ==
    DOMAIN b = {"magic", "version", "header", "payload", "framing", "sig"}

\* A signature that exists somewhere was made for a backup that was encoded, and
\* it names the password and the container.
SignatureOrigin ==
    /\ \A b \in backups : b.sig # None => \E s \in signed : s.backup.sig = b.sig
    /\ \A s \in signed : /\ s.backup.sig.key.password = s.password
                         /\ s.backup.sig.over.payload = s.backup.payload
                         /\ allow_exposure(s.policy)

BackupInv ==
    /\ \A b \in backups : BackupShape(b)
    /\ SignatureOrigin
    /\ BackupExact

\* What the importer accepts was signed with the password, and is encrypted.
LEMMA AcceptedIsSigned ==
    ASSUME NEW policy, NEW password, NEW b, import_result(policy, password, b) = "Ok"
    PROVE  /\ allow_exposure(policy)
           /\ b.sig # None
           /\ b.sig.key.password = password
           /\ b.sig.over.payload = b.payload
           /\ b.payload.mode = Encrypted
<1>1. decode_signed_backup(policy, password, b) = "Ok"
  BY DEF import_result
<1>2. decode_error(b.payload, MAX_VAULT_CONTAINER_PAYLOAD_LEN) = "Ok"
  BY DEF import_result
<1>3. b.payload.mode = Encrypted
  BY <1>2 DEF decode_error, Encrypted, Plaintext
<1>4. allow_exposure(policy) /\ verifies(password, b)
  BY <1>1 DEF decode_signed_backup
<1>5. /\ b.sig # None
      /\ b.sig.key.password = password
      /\ b.sig.over.payload = b.payload
  BY <1>4 DEF verifies, derive_backup_signing_key, derive_master_key, SignedBytes
<1>. QED BY <1>3, <1>4, <1>5

LEMMA BackupInit == Init => BackupInv
  BY DEF Init, BackupInv, SignatureOrigin, BackupExact

\* Steps that leave backups, signatures and imports alone.
LEMMA BackupFrame ==
    BackupInv /\ UNCHANGED <<backups, imported, signed>> => BackupInv'
  BY DEF BackupInv, SignatureOrigin, BackupExact

\* What happens to a backup outside moves signatures, and makes none.
LEMMA BackupDamaged ==
    ASSUME BackupInv, NEW b \in backups, DamageBackup(b)
    PROVE  BackupInv'
<1>1. UNCHANGED <<imported, signed>>
  BY DEF DamageBackup
<1>2. PICK altered : /\ backups' = backups \cup {altered}
                     /\ BackupShape(altered)
                     /\ altered.sig # None => \E o \in backups : altered.sig = o.sig
  BY DEF DamageBackup, BackupInv, BackupShape
<1>. QED BY <1>1, <1>2 DEF BackupInv, SignatureOrigin, BackupExact

LEMMA BackupEncoded ==
    ASSUME BackupInv, NEW policy, NEW password, NEW file, NEW kdf,
           encode_signed_backup(policy, password, file, kdf)
    PROVE  BackupInv'
<1>1. allow_exposure(policy)
  BY DEF encode_signed_backup, encode_result
<1>. DEFINE header == [version |-> BACKUP_VERSION, kdf |-> kdf, salt |-> drawn + 1]
            sig == [key |-> derive_backup_signing_key(password, header),
                    over |-> SignedBytes(header, file)]
            b == [magic |-> TRUE, version |-> BACKUP_VERSION, header |-> header,
                  payload |-> file, framing |-> TRUE, sig |-> sig]
            s == [backup |-> b, password |-> password, policy |-> policy]
<1>2. backups' = backups \cup {b} /\ signed' = signed \cup {s} /\ imported' = imported
  BY DEF encode_signed_backup
<1>3. sig.key.password = password /\ sig.over.payload = file
  BY DEF derive_backup_signing_key, derive_master_key, SignedBytes
<1>. HIDE DEF sig, header
<1>4. BackupShape(b) /\ b.sig = sig /\ b.payload = file
  BY DEF BackupShape
<1>. HIDE DEF b
<1>5. s.backup = b /\ s.password = password /\ s.policy = policy
  OBVIOUS
<1>. HIDE DEF s
<1>6. SignatureOrigin'
  BY <1>1, <1>2, <1>3, <1>4, <1>5 DEF BackupInv, SignatureOrigin
<1>7. BackupExact'
  BY <1>2 DEF BackupInv, BackupExact
<1>. QED BY <1>2, <1>4, <1>6, <1>7 DEF BackupInv

LEMMA BackupImported ==
    ASSUME BackupInv, NEW policy, NEW password, NEW b \in backups,
           import_vipervault_from_signed_backup(policy, password, b)
    PROVE  BackupInv'
<1>1. import_result(policy, password, b) = "Ok"
  BY DEF import_vipervault_from_signed_backup
<1>2. UNCHANGED <<backups, signed>>
  BY DEF import_vipervault_from_signed_backup
<1>3. imported' = imported \cup
        {[password |-> password, container |-> b.payload, policy |-> policy]}
  BY DEF import_vipervault_from_signed_backup
<1>4. \E s \in signed : /\ s.password = password
                        /\ s.backup.payload = b.payload
                        /\ allow_exposure(s.policy)
  BY <1>1, AcceptedIsSigned DEF BackupInv, SignatureOrigin
<1>. QED BY <1>1, <1>2, <1>3, <1>4, AcceptedIsSigned DEF BackupInv, SignatureOrigin, BackupExact

LEMMA BackupStep == BackupInv /\ [Next]_vars => BackupInv'
<1>. SUFFICES ASSUME BackupInv, [Next]_vars PROVE BackupInv'
  OBVIOUS
<1>1. CASE UNCHANGED vars
  BY <1>1, BackupFrame DEF vars
<1>2. CASE Create
  BY <1>2, BackupFrame
     DEF Create, create_encrypted_vault, FindForeignVault, create_duress_vault
<1>3. CASE Use
  BY <1>3, BackupFrame, BackupEncoded DEF Use, enable_duress_on_vault, ExportPlaintext
<1>4. CASE Import
  BY <1>4, BackupImported DEF Import
<1>5. CASE Outside
  BY <1>5, BackupFrame, BackupDamaged DEF Outside, Damage
<1>. QED BY <1>1, <1>2, <1>3, <1>4, <1>5 DEF Next

\* A signed import accepts only what an allowed session signed with the same
\* password, whatever parts of backups were altered or exchanged on the way.
THEOREM ImportsAreExact == Spec => []BackupExact
<1>1. BackupInv => BackupExact
  BY DEF BackupInv
<1>. QED BY <1>1, BackupInit, BackupStep, PTL DEF Spec

----------------------------------------------------------------------------
(* Ciphertexts                                                             *)

\* Option::None is none of the structures that the codecs build.
NoneIsNothing ==
    /\ \A p, d : [primary |-> p, decoy |-> d] # None
    /\ \A h, e : [header |-> h, encoder |-> e] # None
    /\ \A k, n, t, a : encrypt(k, n, t, a) # None
    /\ \A v, k, s : [version |-> v, kdf |-> k, salt |-> s] # None
    /\ \A k, o : [key |-> k, over |-> o] # None

FileShape(f) ==
    /\ DOMAIN f = {"magic", "version", "mode", "header_bytes", "payload", "framing"}
    /\ DOMAIN f.payload = {"kind", "primary", "decoy", "len"}

\* The header, the CryptoHeader and the ciphertext that go with what was stored.
HeaderFor(m) == m.file.header_bytes.header

CryptoFor(m) ==
    IF m.branch = "Primary" THEN PrimaryCrypto(HeaderFor(m)) ELSE HeaderFor(m).duress.decoy

BoxFor(m) ==
    encrypt(derive_master_key(m.password, CryptoFor(m)), CryptoFor(m).nonce, m.text,
            m.file.header_bytes)

\* The two branches are told apart by their nonces, which were drawn already.
Recorded(m, n) ==
    /\ m.branch \in UnlockOutcome
    /\ m.branch = "Decoy" => HeaderFor(m).duress # None
    /\ HeaderFor(m).duress # None =>
         HeaderFor(m).duress.primary.nonce # HeaderFor(m).duress.decoy.nonce
    /\ CryptoFor(m).nonce \in 1..n

\* Every ciphertext on the disk was made for somebody, wherever it has got to.
BoxOrigin == \A f \in disk : \A x \in Boxes(f) : \E m \in made : x = BoxFor(m)

NoncesOnce ==
    \A m, n \in made : CryptoFor(m).nonce = CryptoFor(n).nonce => BoxFor(m) = BoxFor(n)

BoxInv ==
    /\ drawn \in Nat
    /\ \A f \in disk : FileShape(f)
    /\ \A m \in made : Recorded(m, drawn)
    /\ BoxOrigin
    /\ NoncesOnce

LEMMA BoxInit == Init => BoxInv
  BY DEF Init, BoxInv, BoxOrigin, NoncesOnce

LEMMA BoxFrame == BoxInv /\ UNCHANGED <<drawn, disk, made>> => BoxInv'
  BY DEF BoxInv, BoxOrigin, NoncesOnce

\* A file that brings no ciphertext of its own.
LEMMA BoxMoved ==
    ASSUME BoxInv, UNCHANGED <<drawn, made>>, NEW g, FileShape(g),
           \A x \in Boxes(g) : \E f \in disk : x \in Boxes(f),
           disk' = disk \cup {g}
    PROVE  BoxInv'
<1>1. BoxOrigin'
  BY DEF BoxInv, BoxOrigin
<1>2. NoncesOnce'
  BY DEF BoxInv, NoncesOnce
<1>. QED BY <1>1, <1>2 DEF BoxInv

\* A file with the ciphertexts of what is stored in it, under nonces that are new.
LEMMA BoxAdded ==
    ASSUME BoxInv, NEW g, FileShape(g), NEW New, NEW k \in Nat,
           \A x \in Boxes(g) : \E m \in New : x = BoxFor(m),
           \A m \in New : Recorded(m, drawn + k) /\ CryptoFor(m).nonce > drawn,
           \A m, n \in New : CryptoFor(m).nonce = CryptoFor(n).nonce => BoxFor(m) = BoxFor(n),
           disk' = disk \cup {g}, made' = made \cup New, drawn' = drawn + k
    PROVE  BoxInv'
<1>1. BoxOrigin'
  BY DEF BoxInv, BoxOrigin
<1>2. \A m \in made : CryptoFor(m).nonce \in 1..drawn
  BY DEF BoxInv, Recorded
<1>3. NoncesOnce'
  <2>. SUFFICES ASSUME NEW m \in made', NEW n \in made', CryptoFor(m).nonce = CryptoFor(n).nonce
                PROVE  BoxFor(m) = BoxFor(n)
    BY DEF NoncesOnce
  <2>1. drawn \in Nat
    BY DEF BoxInv
  <2>2. ASSUME NEW a \in New, NEW b \in made PROVE CryptoFor(a).nonce # CryptoFor(b).nonce
    BY <1>2, <2>1, <2>2
  <2>. QED BY <2>2 DEF BoxInv, NoncesOnce
<1>4. \A m \in made : Recorded(m, drawn + k)
  BY DEF BoxInv, Recorded
<1>5. drawn' \in Nat
  BY DEF BoxInv
<1>. QED BY <1>1, <1>3, <1>4, <1>5 DEF BoxInv

\* What create_encrypted_vault writes, and what other encoders wrote.
LEMMA LegacyStored ==
    ASSUME drawn \in Nat, NEW password, NEW text, NEW kdf, NEW version, NEW encoder,
           NEW f, f = LegacyFile(password, text, kdf, version, encoder),
           NEW m, m = Stored(f, password, "Primary", text)
    PROVE  /\ FileShape(f)
           /\ f.payload.primary = BoxFor(m) /\ f.payload.decoy = None
           /\ CryptoFor(m).nonce = drawn + 2
           /\ Recorded(m, drawn + 2)
<1>. DEFINE header == [vault_id |-> drawn, crypto |-> crypto_header(kdf, drawn), duress |-> None]
            bytes == [header |-> header, encoder |-> encoder]
            box == encrypt(derive_master_key(password, header.crypto), header.crypto.nonce, text,
                           bytes)
<1>1. header.crypto.nonce = drawn + 2 /\ header.duress = None
  BY DEF crypto_header
<1>2. f.header_bytes = bytes /\ f.payload = Ciphertext(box) /\ FileShape(f)
  BY DEF LegacyFile, encode_vault_storage, FileShape, Ciphertext
<1>3. /\ m.file = f /\ m.password = password /\ m.branch = "Primary" /\ m.text = text
  BY DEF Stored
<1>4. HeaderFor(m) = header /\ CryptoFor(m) = header.crypto
  BY <1>1, <1>2, <1>3 DEF HeaderFor, CryptoFor, PrimaryCrypto
<1>. HIDE DEF header
<1>5. f.payload.primary = box /\ f.payload.decoy = None
  BY <1>2 DEF Ciphertext
<1>6. BoxFor(m) = box
  BY <1>2, <1>3, <1>4 DEF BoxFor
<1>7. Recorded(m, drawn + 2)
  BY <1>1, <1>3, <1>4 DEF Recorded, UnlockOutcome
<1>. QED BY <1>1, <1>2, <1>4, <1>5, <1>6, <1>7

\* What create_duress_vault and enable_duress_on_vault write.
LEMMA DuressStored ==
    ASSUME NoneIsNothing, drawn \in Nat,
           NEW id, NEW old, NEW kdf, NEW p, NEW q, NEW t, NEW d, NEW version,
           NEW header, header = DuressHeader(id, old, kdf),
           NEW f, f = encode_vault_storage(header, Encrypted,
                        encrypt_duress_envelope(header, p, q, t, d), version),
           NEW m, m = Stored(f, p, "Primary", t),
           NEW n, n = Stored(f, q, "Decoy", d)
    PROVE  /\ FileShape(f)
           /\ f.payload.primary = BoxFor(m) /\ f.payload.decoy = BoxFor(n)
           /\ CryptoFor(m).nonce = drawn + 2 /\ CryptoFor(n).nonce = drawn + 4
           /\ Recorded(m, drawn + 4) /\ Recorded(n, drawn + 4)
<1>1. /\ header.duress # None
      /\ header.duress.primary.nonce = drawn + 2
      /\ header.duress.decoy.nonce = drawn + 4
  BY DEF NoneIsNothing, DuressHeader, fresh_crypto, crypto_header
<1>. DEFINE bytes == serialize_header_json(header)
            a == encrypt(derive_master_key(p, header.duress.primary), header.duress.primary.nonce,
                         t, bytes)
            b == encrypt(derive_master_key(q, header.duress.decoy), header.duress.decoy.nonce,
                         d, bytes)
<1>2. f.header_bytes = bytes /\ f.payload = Envelope(a, b) /\ FileShape(f)
  BY DEF encode_vault_storage, FileShape, Envelope, encrypt_duress_envelope,
         encrypt_with_crypto_header
<1>3. f.payload.primary = a /\ f.payload.decoy = b
  BY <1>2 DEF Envelope
<1>4. bytes.header = header
  BY DEF serialize_header_json
<1>. HIDE DEF bytes
<1>5. /\ m.file = f /\ m.password = p /\ m.branch = "Primary" /\ m.text = t
      /\ n.file = f /\ n.password = q /\ n.branch = "Decoy" /\ n.text = d
  BY DEF Stored
<1>6. /\ HeaderFor(m) = header /\ CryptoFor(m) = header.duress.primary
      /\ HeaderFor(n) = header /\ CryptoFor(n) = header.duress.decoy
  BY <1>1, <1>2, <1>4, <1>5 DEF HeaderFor, CryptoFor, PrimaryCrypto
<1>7. BoxFor(m) = a /\ BoxFor(n) = b
  BY <1>2, <1>5, <1>6 DEF BoxFor
<1>8. Recorded(m, drawn + 4) /\ Recorded(n, drawn + 4)
  BY <1>1, <1>5, <1>6 DEF Recorded, UnlockOutcome
<1>. QED BY <1>1, <1>2, <1>3, <1>6, <1>7, <1>8

LEMMA BoxLegacy ==
    ASSUME BoxInv, NEW password, NEW text, NEW kdf, NEW version, NEW encoder,
           NEW f, f = LegacyFile(password, text, kdf, version, encoder),
           disk' = disk \cup {f}, made' = made \cup {Stored(f, password, "Primary", text)},
           drawn' = drawn + 2
    PROVE  BoxInv'
<1>. DEFINE m == Stored(f, password, "Primary", text)
<1>1. drawn \in Nat
  BY DEF BoxInv
<1>2. /\ FileShape(f)
      /\ f.payload.primary = BoxFor(m) /\ f.payload.decoy = None
      /\ CryptoFor(m).nonce = drawn + 2
      /\ Recorded(m, drawn + 2)
  BY <1>1, LegacyStored
<1>. HIDE DEF m
<1>3. \A x \in Boxes(f) : x = BoxFor(m)
  BY <1>2 DEF Boxes
<1>4. made' = made \cup {m}
  BY DEF m
<1>. DEFINE New == {m}
<1>5. \A x \in Boxes(f) : \E y \in New : x = BoxFor(y)
  BY <1>3
<1>6. \A y \in New : Recorded(y, drawn + 2) /\ CryptoFor(y).nonce > drawn
  BY <1>1, <1>2
<1>7. \A y, z \in New : CryptoFor(y).nonce = CryptoFor(z).nonce => BoxFor(y) = BoxFor(z)
  OBVIOUS
<1>8. made' = made \cup New
  BY <1>4
<1>. HIDE DEF New
<1>. QED BY <1>2, <1>5, <1>6, <1>7, <1>8, BoxAdded

LEMMA BoxDuress ==
    ASSUME NoneIsNothing, BoxInv,
           NEW id, NEW old, NEW kdf, NEW p, NEW q, NEW t, NEW d, NEW version,
           NEW header, header = DuressHeader(id, old, kdf),
           NEW f, f = encode_vault_storage(header, Encrypted,
                        encrypt_duress_envelope(header, p, q, t, d), version),
           disk' = disk \cup {f},
           made' = made \cup {Stored(f, p, "Primary", t), Stored(f, q, "Decoy", d)},
           drawn' = drawn + 4
    PROVE  BoxInv'
<1>. DEFINE m == Stored(f, p, "Primary", t)
            n == Stored(f, q, "Decoy", d)
<1>1. drawn \in Nat
  BY DEF BoxInv
<1>2. /\ FileShape(f)
      /\ f.payload.primary = BoxFor(m) /\ f.payload.decoy = BoxFor(n)
      /\ CryptoFor(m).nonce = drawn + 2 /\ CryptoFor(n).nonce = drawn + 4
      /\ Recorded(m, drawn + 4) /\ Recorded(n, drawn + 4)
  BY <1>1, DuressStored
<1>. HIDE DEF m, n
<1>3. \A x \in Boxes(f) : \E y \in {m, n} : x = BoxFor(y)
  BY <1>2 DEF Boxes
<1>4. made' = made \cup {m, n}
  BY DEF m, n
<1>. DEFINE New == {m, n}
<1>5. \A x \in Boxes(f) : \E y \in New : x = BoxFor(y)
  BY <1>3
<1>6. \A y \in New : Recorded(y, drawn + 4) /\ CryptoFor(y).nonce > drawn
  BY <1>1, <1>2
<1>7. \A y, z \in New : CryptoFor(y).nonce = CryptoFor(z).nonce => BoxFor(y) = BoxFor(z)
  BY <1>1, <1>2
<1>8. made' = made \cup New
  BY <1>4
<1>. HIDE DEF New
<1>. QED BY <1>2, <1>5, <1>6, <1>7, <1>8, BoxAdded

\* A vault that the migration opens holds what was stored under its header, and
\* nothing else was stored under it: its nonce stands for one ciphertext.
LEMMA MigrationSource ==
    ASSUME BoxInv, NEW f \in disk, NEW password, NEW kdf, migrate_result(f, password, kdf) = "Ok"
    PROVE  /\ PrimaryOf(header_of(f)) # {}
           /\ \A m \in PrimaryOf(header_of(f)) :
                m.password = password /\ m.text = f.payload.primary.text
<1>. DEFINE h == header_of(f)
            x == f.payload.primary
            bytes == serialize_header_json(h)
<1>1. /\ h.duress = None /\ x # None
      /\ x.key = derive_master_key(password, h.crypto)
      /\ x.nonce = h.crypto.nonce
      /\ x.aad = bytes
  BY DEF migrate_result, decrypts
<1>2. bytes.header = h
  BY DEF serialize_header_json
<1>. HIDE DEF h, x, bytes
<1>3. x.key.password = password
  BY <1>1 DEF derive_master_key
<1>4. PICK m \in made : x = BoxFor(m)
  BY <1>1 DEF BoxInv, BoxOrigin, Boxes, x
<1>5. /\ x.aad = m.file.header_bytes
      /\ x.text = m.text
      /\ x.key.password = m.password
      /\ x.nonce = CryptoFor(m).nonce
  BY <1>4 DEF BoxFor, encrypt, derive_master_key
<1>6. HeaderFor(m) = h
  BY <1>1, <1>2, <1>5 DEF HeaderFor
<1>7. m.branch = "Primary"
  BY <1>1, <1>6 DEF BoxInv, Recorded, UnlockOutcome
<1>8. m \in PrimaryOf(h)
  BY <1>6, <1>7 DEF PrimaryOf, HeaderFor
<1>9. ASSUME NEW n \in PrimaryOf(h) PROVE n.password = password /\ n.text = x.text
  <2>1. n \in made /\ n.branch = "Primary" /\ HeaderFor(n) = h
    BY <1>9 DEF PrimaryOf, HeaderFor
  <2>2. CryptoFor(n).nonce = CryptoFor(m).nonce
    BY <1>6, <1>7, <2>1 DEF CryptoFor
  <2>3. BoxFor(n) = x
    BY <1>4, <2>1, <2>2 DEF BoxInv, NoncesOnce
  <2>4. BoxFor(n).key.password = n.password /\ BoxFor(n).text = n.text
    BY DEF BoxFor, encrypt, derive_master_key
  <2>. QED BY <1>3, <2>3, <2>4
<1>. QED BY <1>8, <1>9 DEF h, x

\* So the history of a migrated vault is that of the vault it replaces.
LEMMA MigrationHistory ==
    ASSUME BoxInv, NEW f \in disk, NEW password, NEW kdf, NEW new,
           migrate_result(f, password, kdf) = "Ok"
    PROVE  {Stored(new, m.password, "Primary", m.text) : m \in PrimaryOf(header_of(f))}
             = {Stored(new, password, "Primary", f.payload.primary.text)}
<1>. DEFINE S == PrimaryOf(header_of(f))
            e == Stored(new, password, "Primary", f.payload.primary.text)
<1>1. S # {} /\ \A m \in S : m.password = password /\ m.text = f.payload.primary.text
  BY MigrationSource
<1>. HIDE DEF S
<1>2. \A m \in S : Stored(new, m.password, "Primary", m.text) = e
  BY <1>1
<1>. HIDE DEF e
<1>3. {Stored(new, m.password, "Primary", m.text) : m \in S} = {e}
  BY <1>1, <1>2
<1>. QED BY <1>3 DEF S, e

\* The alterations only move ciphertexts.
LEMMA AlteredOrigin ==
    ASSUME BoxInv, NEW f \in disk,
           NEW g \in AlteredFrame(f) \cup AlteredHeader(f) \cup AlteredPayload(f) \cup Spliced(f)
    PROVE  FileShape(g) /\ \A x \in Boxes(g) : \E o \in disk : x \in Boxes(o)
<1>1. FileShape(f) /\ \A o \in disk : FileShape(o)
  BY DEF BoxInv
<1>2. ASSUME g \in AlteredFrame(f) PROVE FileShape(g) /\ Boxes(g) \subseteq Boxes(f)
  <2>1. CASE g = [f EXCEPT !.payload = Noise(f.payload)]
    BY <1>1, <2>1 DEF Noise, FileShape, Boxes
  <2>2. ASSUME g.payload = f.payload, DOMAIN g = DOMAIN f PROVE FileShape(g) /\ Boxes(g) = Boxes(f)
    BY <1>1, <2>2 DEF FileShape, Boxes
  <2>. QED BY <1>1, <1>2, <2>1, <2>2 DEF AlteredFrame, FileShape
<1>3. ASSUME g \in AlteredHeader(f) PROVE FileShape(g) /\ Boxes(g) = Boxes(f)
  <2>1. PICK b : g = [f EXCEPT !.header_bytes = b]
    BY <1>3 DEF AlteredHeader
  <2>. QED BY <1>1, <2>1 DEF FileShape, Boxes
<1>4. ASSUME g \in AlteredPayload(f) PROVE FileShape(g) /\ Boxes(g) \subseteq Boxes(f)
  <2>1. PICK y : /\ y \in {Envelope(f.payload.decoy, f.payload.primary),
                           Ciphertext(f.payload.primary), Ciphertext(f.payload.decoy)}
                 /\ g.payload = y /\ DOMAIN g = DOMAIN f
    BY <1>1, <1>4 DEF AlteredPayload, FileShape
  <2>2. /\ DOMAIN y = {"kind", "primary", "decoy", "len"}
        /\ y.primary \in {f.payload.primary, f.payload.decoy}
        /\ y.decoy \in {f.payload.primary, f.payload.decoy, None}
    BY <2>1 DEF Envelope, Ciphertext
  <2>. QED BY <1>1, <2>1, <2>2 DEF FileShape, Boxes
<1>5. ASSUME g \in Spliced(f) PROVE FileShape(g) /\ \E o \in disk : Boxes(g) = Boxes(o)
  BY <1>1, <1>5 DEF Spliced, FileShape, Boxes
<1>. QED BY <1>2, <1>3, <1>4, <1>5

LEMMA BoxStep == NoneIsNothing /\ BoxInv /\ [Next]_vars => BoxInv'
<1>. SUFFICES ASSUME NoneIsNothing, BoxInv, [Next]_vars PROVE BoxInv'
  OBVIOUS
<1>1. CASE UNCHANGED vars
  BY <1>1, BoxFrame DEF vars
<1>2. CASE Create
  <2>1. ASSUME NEW p, NEW t, NEW k, create_encrypted_vault(p, t, k, 1) PROVE BoxInv'
    BY <2>1, BoxLegacy DEF create_encrypted_vault
  <2>2. ASSUME NEW p, NEW t, NEW k, NEW e, FindForeignVault(p, t, k, e) PROVE BoxInv'
    BY <2>2, BoxLegacy DEF FindForeignVault
  <2>3. ASSUME NEW p, NEW q, NEW t, NEW d, NEW k, create_duress_vault(p, q, t, d, k, 1)
        PROVE  BoxInv'
    BY <2>3, BoxDuress DEF create_duress_vault
  <2>. QED BY <1>2, <2>1, <2>2, <2>3 DEF Create
<1>3. CASE Use
  <2>1. ASSUME NEW f \in disk, NEW p, NEW q, NEW d, NEW k, enable_duress_on_vault(f, p, q, d, k)
        PROVE  BoxInv'
    <3>. DEFINE header == DuressHeader(header_of(f).vault_id, header_of(f).crypto, k)
                t == f.payload.primary.text
                new == MigratedFile(f, p, q, d, k)
    <3>1. /\ migrate_result(f, p, k) = "Ok"
          /\ disk' = disk \cup {new}
          /\ made' = made \cup
               {Stored(new, m.password, "Primary", m.text) : m \in PrimaryOf(header_of(f))}
               \cup {Stored(new, q, "Decoy", d)}
          /\ drawn' = drawn + 4
      BY <2>1 DEF enable_duress_on_vault
    <3>2. new = encode_vault_storage(header, Encrypted,
                  encrypt_duress_envelope(header, p, q, t, d), 1)
      BY DEF MigratedFile
    <3>. HIDE DEF new
    <3>3. {Stored(new, m.password, "Primary", m.text) : m \in PrimaryOf(header_of(f))}
            = {Stored(new, p, "Primary", t)}
      BY <3>1, MigrationHistory
    <3>4. made' = made \cup {Stored(new, p, "Primary", t), Stored(new, q, "Decoy", d)}
      BY <3>1, <3>3
    <3>. QED BY <3>1, <3>2, <3>4, BoxDuress
  <2>2. ASSUME NEW f \in disk, NEW p, NEW r, ExportPlaintext(f, p, 1, r) PROVE BoxInv'
    <3>1. PICK h, y : disk' = disk \cup {encode_vault_storage(h, Plaintext, PlaintextJson(y), 1)}
      BY <2>2 DEF ExportPlaintext
    <3>. DEFINE g == encode_vault_storage(h, Plaintext, PlaintextJson(y), 1)
    <3>2. FileShape(g) /\ Boxes(g) = {}
      BY DEF encode_vault_storage, PlaintextJson, FileShape, Boxes
    <3>3. UNCHANGED <<drawn, made>>
      BY <2>2 DEF ExportPlaintext
    <3>. QED BY <3>1, <3>2, <3>3, BoxMoved
  <2>3. ASSUME NEW f, NEW p, NEW c, NEW k, encode_signed_backup(c, p, f, k) PROVE BoxInv'
    <3>1. disk' = disk /\ made' = made /\ drawn' = drawn + 1
      BY <2>3 DEF encode_signed_backup
    <3>2. drawn' \in Nat /\ \A m \in made : Recorded(m, drawn')
      BY <3>1 DEF BoxInv, Recorded
    <3>. QED BY <3>1, <3>2 DEF BoxInv, BoxOrigin, NoncesOnce
  <2>. QED BY <1>3, <2>1, <2>2, <2>3 DEF Use
<1>4. CASE Import
  BY <1>4, BoxFrame DEF Import, import_vipervault_from_signed_backup
<1>5. CASE Outside
  <2>1. ASSUME NEW f \in disk, Damage(f) PROVE BoxInv'
    BY <2>1, AlteredOrigin, BoxMoved DEF Damage
  <2>. QED BY <1>5, <2>1, BoxFrame DEF Outside, DamageBackup
<1>. QED BY <1>1, <1>2, <1>3, <1>4, <1>5 DEF Next

\* An outcome is the branch of a ciphertext that opened.
LEMMA UnlockNeedsKey ==
    ASSUME NEW v, NEW opens
    PROVE  /\ unlock_vault(v, opens) = "Primary" => "primary" \in opens
           /\ unlock_vault(v, opens) = "Decoy" => "decoy" \in opens
  BY DEF unlock_vault, unlock_duress_envelope, decrypted

LEMMA OpenedBranch ==
    ASSUME NEW f, NEW p
    PROVE  /\ open_vault(f, p) = "Primary" => OpensPrimary(f, p)
           /\ open_vault(f, p) = "Decoy" => OpensDecoy(f, p)
  BY UnlockNeedsKey DEF open_vault, Opens

LEMMA OpenedIsStored ==
    ASSUME BoxInv, NEW f \in disk, NEW p, NEW ch, NEW box,
           box \in {f.payload.primary, f.payload.decoy},
           decrypt_with_crypto_header(f, ch, box, p)
    PROVE  \E m \in made : /\ m.file.header_bytes = f.header_bytes
                           /\ m.password = p
                           /\ m.text = box.text
                           /\ CryptoFor(m).nonce = ch.nonce
<1>1. /\ box # None
      /\ box.key = derive_master_key(p, ch)
      /\ box.nonce = ch.nonce
      /\ box.aad = f.header_bytes
  BY DEF decrypt_with_crypto_header, decrypts
<1>2. box.key.password = p
  BY <1>1 DEF derive_master_key
<1>3. PICK m \in made : box = BoxFor(m)
  BY <1>1 DEF BoxInv, BoxOrigin, Boxes
<1>4. /\ box.aad = m.file.header_bytes /\ box.text = m.text
      /\ box.key.password = m.password /\ box.nonce = CryptoFor(m).nonce
  BY <1>3 DEF BoxFor, encrypt, derive_master_key
<1>. QED BY <1>1, <1>2, <1>4

LEMMA BoxesAuthentic == BoxInv => Authentic
<1>. SUFFICES ASSUME BoxInv, NEW f \in disk, NEW p \in Passwords,
                     open_vault(f, p) \in UnlockOutcome
              PROVE  \E m \in made : /\ m.file.header_bytes = f.header_bytes
                                     /\ m.password = p
                                     /\ m.branch = open_vault(f, p)
                                     /\ m.text = OpenedText(f, open_vault(f, p))
  BY DEF Authentic
<1>. DEFINE h == header_of(f)
<1>1. CASE open_vault(f, p) = "Primary"
  <2>1. OpensPrimary(f, p)
    BY <1>1, OpenedBranch
  <2>2. PICK m \in made : /\ m.file.header_bytes = f.header_bytes
                          /\ m.password = p
                          /\ m.text = f.payload.primary.text
                          /\ CryptoFor(m).nonce = PrimaryCrypto(h).nonce
    BY <2>1, OpenedIsStored DEF OpensPrimary
  <2>3. m.branch = "Primary"
    BY <2>2 DEF BoxInv, Recorded, UnlockOutcome, CryptoFor, HeaderFor, header_of, PrimaryCrypto
  <2>. QED BY <1>1, <2>2, <2>3 DEF OpenedText
<1>2. CASE open_vault(f, p) = "Decoy"
  <2>1. OpensDecoy(f, p)
    BY <1>2, OpenedBranch
  <2>2. PICK m \in made : /\ m.file.header_bytes = f.header_bytes
                          /\ m.password = p
                          /\ m.text = f.payload.decoy.text
                          /\ CryptoFor(m).nonce = h.duress.decoy.nonce
    BY <2>1, OpenedIsStored DEF OpensDecoy
  <2>3. h.duress # None
    BY <2>1 DEF OpensDecoy
  <2>4. m.branch = "Decoy"
    BY <2>2, <2>3
       DEF BoxInv, Recorded, UnlockOutcome, CryptoFor, HeaderFor, header_of, PrimaryCrypto
  <2>. QED BY <1>2, <2>2, <2>4 DEF OpenedText
<1>. QED BY <1>1, <1>2 DEF UnlockOutcome

LEMMA BoxesFresh == BoxInv => FreshNonces
<1>. SUFFICES ASSUME BoxInv, NEW f \in disk, NEW g \in disk, NEW a \in Boxes(f), NEW b \in Boxes(g),
                     a.nonce = b.nonce
              PROVE  a = b
  BY DEF FreshNonces
<1>1. PICK m \in made : a = BoxFor(m)
  BY DEF BoxInv, BoxOrigin
<1>2. PICK n \in made : b = BoxFor(n)
  BY DEF BoxInv, BoxOrigin
<1>3. a.nonce = CryptoFor(m).nonce /\ b.nonce = CryptoFor(n).nonce
  BY <1>1, <1>2 DEF BoxFor, encrypt
<1>. QED BY <1>1, <1>2, <1>3 DEF BoxInv, NoncesOnce

LEMMA BoxInvariance ==
    ASSUME NoneIsNothing
    PROVE  Spec => []BoxInv
  BY BoxInit, BoxStep, PTL DEF Spec

\* A container that opens, whatever was altered, spliced or exchanged, opens to
\* what the owner of the password stored under these header bytes, as the branch
\* it was stored for.
THEOREM OpenedIsAuthentic ==
    ASSUME NoneIsNothing
    PROVE  Spec => []Authentic
  BY BoxInvariance, BoxesAuthentic, PTL

\* No key encrypts two things under one nonce, over creations and migrations.
THEOREM NoncesAreFresh ==
    ASSUME NoneIsNothing
    PROVE  Spec => []FreshNonces
  BY BoxInvariance, BoxesFresh, PTL

----------------------------------------------------------------------------
(* Recovery                                                                *)

Framed(f) ==
    /\ f.magic = TRUE /\ f.framing = TRUE
    /\ f.version # 0
    /\ f.mode = Encrypted
    /\ f.header_bytes # None

\* The container of what was stored is as it was written, with the ciphertext in
\* the place of its branch.
Intact(m) ==
    /\ Framed(m.file)
    /\ HeaderFor(m).crypto.kdf = CryptoFor(m).kdf
    /\ HeaderFor(m).duress = None => m.file.payload.kind = "ciphertext"
    /\ HeaderFor(m).duress # None => m.file.payload.kind = "envelope" /\ m.text.payload
    /\ m.branch = "Primary" => m.file.payload.primary = BoxFor(m)
    /\ m.branch = "Decoy" => m.file.payload.decoy = BoxFor(m)

\* A decoy has a primary beside it.
Paired(m, S) ==
    m.branch = "Decoy" =>
      \E n \in S : n.file = m.file /\ n.branch = "Primary" /\ m.file.payload.primary = BoxFor(n)

\* A backup that the program wrote passes each check of the decoder.
Restorable(s) ==
    /\ allow_exposure(s.policy)
    /\ s.backup.magic = TRUE /\ s.backup.framing = TRUE
    /\ s.backup.version = BACKUP_VERSION
    /\ s.backup.header # None /\ s.backup.header.version = BACKUP_VERSION
    /\ validate_argon2id_params(s.backup.header.kdf)
    /\ ~ (s.backup.payload.payload.len > MAX_BACKUP_PAYLOAD_LEN)
    /\ verifies(s.password, s.backup)

StoreInv ==
    /\ \A m \in made : Intact(m) /\ Paired(m, made)
    /\ \A s \in signed : Restorable(s)

LEMMA StoreInit == Init => StoreInv
  BY DEF Init, StoreInv

LEMMA StoreAdded ==
    ASSUME StoreInv, NEW New, \A m \in New : Intact(m) /\ Paired(m, New),
           made' = made \cup New, signed' = signed
    PROVE  StoreInv'
  BY DEF StoreInv, Paired

LEMMA StoreFrame == StoreInv /\ UNCHANGED <<made, signed>> => StoreInv'
  BY DEF StoreInv

LEMMA LegacyIntact ==
    ASSUME NoneIsNothing, drawn \in Nat,
           NEW password, NEW text, NEW kdf, NEW version, NEW encoder, version # 0,
           NEW f, f = LegacyFile(password, text, kdf, version, encoder),
           NEW m, m = Stored(f, password, "Primary", text)
    PROVE  Intact(m) /\ m.branch = "Primary"
<1>. DEFINE header == [vault_id |-> drawn, crypto |-> crypto_header(kdf, drawn), duress |-> None]
            bytes == [header |-> header, encoder |-> encoder]
<1>1. PICK box : f = [magic |-> TRUE, version |-> version, mode |-> Encrypted,
                      header_bytes |-> bytes, payload |-> Ciphertext(box), framing |-> TRUE]
  BY DEF LegacyFile, encode_vault_storage
<1>2. bytes # None /\ bytes.header = header
  BY DEF NoneIsNothing
<1>3. header.duress = None
  OBVIOUS
<1>4. m.file = f /\ m.branch = "Primary"
  BY DEF Stored
<1>5. f.payload.primary = BoxFor(m)
  BY LegacyStored
<1>. HIDE DEF header
<1>. HIDE DEF bytes
<1>6. /\ f.magic = TRUE /\ f.framing = TRUE /\ f.version = version /\ f.mode = Encrypted
      /\ f.header_bytes = bytes /\ f.payload = Ciphertext(box)
  BY <1>1
<1>7. Framed(f)
  BY <1>2, <1>6 DEF Framed
<1>8. f.payload.kind = "ciphertext"
  BY <1>6 DEF Ciphertext
<1>9. HeaderFor(m) = header /\ CryptoFor(m) = header.crypto
  BY <1>2, <1>3, <1>4, <1>6 DEF HeaderFor, CryptoFor, PrimaryCrypto
<1>. QED BY <1>3, <1>4, <1>5, <1>7, <1>8, <1>9 DEF Intact

LEMMA DuressIntact ==
    ASSUME NoneIsNothing, drawn \in Nat,
           NEW id, NEW old, NEW kdf, NEW p, NEW q, NEW t, NEW d, NEW version, version # 0,
           t.payload, d.payload,
           NEW header, header = DuressHeader(id, old, kdf),
           NEW f, f = encode_vault_storage(header, Encrypted,
                        encrypt_duress_envelope(header, p, q, t, d), version),
           NEW m, m = Stored(f, p, "Primary", t),
           NEW n, n = Stored(f, q, "Decoy", d)
    PROVE  Intact(m) /\ Intact(n) /\ \A x \in {m, n} : Paired(x, {m, n})
<1>1. /\ header.duress # None
      /\ header.crypto.kdf = kdf
      /\ header.duress.primary.kdf = kdf
      /\ header.duress.decoy.kdf = kdf
  BY DEF NoneIsNothing, DuressHeader, fresh_crypto, crypto_header
<1>2. PICK a, b : f = [magic |-> TRUE, version |-> version, mode |-> Encrypted,
                       header_bytes |-> serialize_header_json(header),
                       payload |-> Envelope(a, b), framing |-> TRUE]
  BY DEF encode_vault_storage, encrypt_duress_envelope
<1>3. serialize_header_json(header) # None /\ serialize_header_json(header).header = header
  BY DEF NoneIsNothing, serialize_header_json
<1>4. /\ f.magic = TRUE /\ f.framing = TRUE /\ f.version = version /\ f.mode = Encrypted
      /\ f.header_bytes = serialize_header_json(header) /\ f.payload = Envelope(a, b)
  BY <1>2
<1>5. Framed(f)
  BY <1>3, <1>4 DEF Framed
<1>6. f.payload.kind = "envelope"
  BY <1>4 DEF Envelope
<1>7. /\ m.file = f /\ m.branch = "Primary" /\ m.text = t
      /\ n.file = f /\ n.branch = "Decoy" /\ n.text = d
  BY DEF Stored
<1>8. /\ HeaderFor(m) = header /\ CryptoFor(m) = header.duress.primary
      /\ HeaderFor(n) = header /\ CryptoFor(n) = header.duress.decoy
  BY <1>1, <1>3, <1>4, <1>7 DEF HeaderFor, CryptoFor, PrimaryCrypto
<1>9. f.payload.primary = BoxFor(m) /\ f.payload.decoy = BoxFor(n)
  BY DuressStored
<1>10. Intact(m) /\ Intact(n)
  BY <1>1, <1>5, <1>6, <1>7, <1>8, <1>9 DEF Intact
<1>. QED BY <1>7, <1>9, <1>10 DEF Paired

LEMMA StoreLegacy ==
    ASSUME NoneIsNothing, StoreInv, drawn \in Nat,
           NEW password, NEW text, NEW kdf, NEW encoder,
           NEW f, f = LegacyFile(password, text, kdf, 1, encoder),
           made' = made \cup {Stored(f, password, "Primary", text)}, signed' = signed
    PROVE  StoreInv'
<1>. DEFINE m == Stored(f, password, "Primary", text)
<1>1. Intact(m) /\ m.branch = "Primary"
  BY LegacyIntact
<1>2. made' = made \cup {m}
  OBVIOUS
<1>. HIDE DEF m
<1>. DEFINE New == {m}
<1>3. \A x \in New : Intact(x) /\ Paired(x, New)
  BY <1>1 DEF Paired
<1>4. made' = made \cup New
  BY <1>2
<1>. HIDE DEF New
<1>. QED BY <1>3, <1>4, StoreAdded

LEMMA StoreDuress ==
    ASSUME NoneIsNothing, StoreInv, drawn \in Nat,
           NEW id, NEW old, NEW kdf, NEW p, NEW q, NEW t, NEW d,
           t.payload, d.payload,
           NEW header, header = DuressHeader(id, old, kdf),
           NEW f, f = encode_vault_storage(header, Encrypted,
                        encrypt_duress_envelope(header, p, q, t, d), 1),
           made' = made \cup {Stored(f, p, "Primary", t), Stored(f, q, "Decoy", d)},
           signed' = signed
    PROVE  StoreInv'
<1>. DEFINE New == {Stored(f, p, "Primary", t), Stored(f, q, "Decoy", d)}
<1>1. \A x \in New : Intact(x) /\ Paired(x, New)
  BY DuressIntact
<1>2. made' = made \cup New
  OBVIOUS
<1>. HIDE DEF New
<1>. QED BY <1>1, <1>2, StoreAdded

LEMMA StoreEncoded ==
    ASSUME NoneIsNothing, StoreInv, NEW policy, NEW password, NEW file, NEW kdf,
           encode_signed_backup(policy, password, file, kdf)
    PROVE  StoreInv'
<1>. DEFINE header == [version |-> BACKUP_VERSION, kdf |-> kdf, salt |-> drawn + 1]
            sig == [key |-> derive_backup_signing_key(password, header),
                    over |-> SignedBytes(header, file)]
            b == [magic |-> TRUE, version |-> BACKUP_VERSION, header |-> header,
                  payload |-> file, framing |-> TRUE, sig |-> sig]
            s == [backup |-> b, password |-> password, policy |-> policy]
<1>1. /\ allow_exposure(policy)
      /\ ~ (file.payload.len > MAX_BACKUP_PAYLOAD_LEN)
      /\ validate_argon2id_params(kdf)
  BY DEF encode_signed_backup, encode_result
<1>2. signed' = signed \cup {s} /\ made' = made
  BY DEF encode_signed_backup
<1>3. header # None /\ header.version = BACKUP_VERSION /\ header.kdf = kdf
  BY DEF NoneIsNothing
<1>. HIDE DEF header
<1>4. /\ sig # None
      /\ sig.key = derive_backup_signing_key(password, header)
      /\ sig.over = SignedBytes(header, file)
  BY DEF NoneIsNothing
<1>. HIDE DEF sig
<1>5. /\ b.magic = TRUE /\ b.framing = TRUE /\ b.version = BACKUP_VERSION
      /\ b.header = header /\ b.payload = file /\ b.sig = sig
  OBVIOUS
<1>. HIDE DEF b
<1>6. s.backup = b /\ s.password = password /\ s.policy = policy
  OBVIOUS
<1>. HIDE DEF s
<1>7. verifies(password, b)
  BY <1>4, <1>5 DEF verifies
<1>8. Restorable(s)
  BY <1>1, <1>3, <1>5, <1>6, <1>7 DEF Restorable
<1>. QED BY <1>2, <1>8 DEF StoreInv

LEMMA StoreStep == NoneIsNothing /\ BoxInv /\ StoreInv /\ [Next]_vars => StoreInv'
<1>. SUFFICES ASSUME NoneIsNothing, BoxInv, StoreInv, [Next]_vars PROVE StoreInv'
  OBVIOUS
<1>0. drawn \in Nat
  BY DEF BoxInv
<1>1. CASE UNCHANGED vars
  BY <1>1, StoreFrame DEF vars
<1>2. CASE Create
  <2>1. ASSUME NEW p, NEW t, NEW k, create_encrypted_vault(p, t, k, 1) PROVE StoreInv'
    BY <1>0, <2>1, StoreLegacy DEF create_encrypted_vault
  <2>2. ASSUME NEW p, NEW t, NEW k, NEW e, FindForeignVault(p, t, k, e) PROVE StoreInv'
    BY <1>0, <2>2, StoreLegacy DEF FindForeignVault
  <2>3. ASSUME NEW p, NEW q, NEW t, NEW d, NEW k, create_duress_vault(p, q, t, d, k, 1)
        PROVE  StoreInv'
    BY <1>0, <2>3, StoreDuress DEF create_duress_vault
  <2>. QED BY <1>2, <2>1, <2>2, <2>3 DEF Create
<1>3. CASE Use
  <2>1. ASSUME NEW f \in disk, NEW p, NEW q, NEW d, NEW k, enable_duress_on_vault(f, p, q, d, k)
        PROVE  StoreInv'
    <3>. DEFINE header == DuressHeader(header_of(f).vault_id, header_of(f).crypto, k)
                t == f.payload.primary.text
                new == MigratedFile(f, p, q, d, k)
    <3>1. /\ migrate_result(f, p, k) = "Ok" /\ d.payload
          /\ made' = made \cup
               {Stored(new, m.password, "Primary", m.text) : m \in PrimaryOf(header_of(f))}
               \cup {Stored(new, q, "Decoy", d)}
          /\ signed' = signed
      BY <2>1 DEF enable_duress_on_vault
    <3>2. new = encode_vault_storage(header, Encrypted,
                  encrypt_duress_envelope(header, p, q, t, d), 1)
      BY DEF MigratedFile
    <3>3. t.payload
      BY <3>1 DEF migrate_result
    <3>. HIDE DEF new
    <3>4. {Stored(new, m.password, "Primary", m.text) : m \in PrimaryOf(header_of(f))}
            = {Stored(new, p, "Primary", t)}
      BY <3>1, MigrationHistory
    <3>5. made' = made \cup {Stored(new, p, "Primary", t), Stored(new, q, "Decoy", d)}
      BY <3>1, <3>4
    <3>. QED BY <1>0, <3>1, <3>2, <3>3, <3>5, StoreDuress
  <2>2. ASSUME NEW f, NEW p, NEW r, ExportPlaintext(f, p, 1, r) PROVE StoreInv'
    BY <2>2, StoreFrame DEF ExportPlaintext
  <2>. QED BY <1>3, <2>1, <2>2, StoreEncoded DEF Use
<1>4. CASE Import
  BY <1>4, StoreFrame DEF Import, import_vipervault_from_signed_backup
<1>5. CASE Outside
  BY <1>5, StoreFrame DEF Outside, Damage, DamageBackup
<1>. QED BY <1>1, <1>2, <1>3, <1>4, <1>5 DEF Next

LEMMA BoxContents ==
    ASSUME NEW m
    PROVE  /\ BoxFor(m).key = derive_master_key(m.password, CryptoFor(m))
           /\ BoxFor(m).key.password = m.password
           /\ BoxFor(m).nonce = CryptoFor(m).nonce
           /\ BoxFor(m).text = m.text
           /\ BoxFor(m).aad = m.file.header_bytes
  BY DEF BoxFor, encrypt, derive_master_key

\* A container of the program is decoded, and opens as its branch.
LEMMA StoredOpens ==
    ASSUME NoneIsNothing, BoxInv, StoreInv, NEW m \in made,
           decode_error(m.file, MAX_VAULT_CONTAINER_PAYLOAD_LEN) # "PayloadTooLarge",
           validate_argon2id_params(HeaderFor(m).crypto.kdf),
           Reachable(m)
    PROVE  open_vault(m.file, m.password) = m.branch /\ OpenedText(m.file, m.branch) = m.text
<1>. DEFINE f == m.file
            p == m.password
            v == Parsed(f)
            opens == Opens(f, p)
<1>1. Intact(m) /\ Paired(m, made) /\ Recorded(m, drawn)
  BY DEF StoreInv, BoxInv
<1>2. decode_error(f, MAX_VAULT_CONTAINER_PAYLOAD_LEN) = "Ok"
  BY <1>1 DEF Intact, Framed, decode_error, Encrypted, Plaintext
<1>3. open_vault(f, p) = unlock_vault(v, opens)
  BY <1>2 DEF open_vault
<1>4. header_of(f) = HeaderFor(m)
  BY DEF header_of, HeaderFor
<1>5. BoxFor(m) # None
  BY DEF BoxFor, NoneIsNothing
<1>6. decrypt_with_crypto_header(f, CryptoFor(m), BoxFor(m), p)
  BY <1>1, <1>5, BoxContents DEF Intact, decrypt_with_crypto_header, decrypts
<1>7. /\ v.mode = "Encrypted"
      /\ v.duress <=> HeaderFor(m).duress # None
      /\ v.envelope <=> f.payload.kind = "envelope"
      /\ v.kdf = DerivableBranches(HeaderFor(m))
      /\ "primary" \in v.decodes <=> Decodes(f.payload.primary)
      /\ "decoy" \in v.decodes <=> Decodes(f.payload.decoy)
  BY <1>4 DEF Parsed
<1>8. /\ "primary" \in opens <=> OpensPrimary(f, p)
      /\ "decoy" \in opens <=> OpensDecoy(f, p)
  BY DEF Opens
<1>. HIDE DEF v, opens
<1>9. CASE m.branch = "Primary"
  <2>1. f.payload.primary = BoxFor(m) /\ CryptoFor(m) = PrimaryCrypto(HeaderFor(m))
    BY <1>1, <1>9 DEF Intact, CryptoFor
  <2>2. OpensPrimary(f, p)
    BY <1>1, <1>4, <1>6, <2>1 DEF OpensPrimary, Intact
  <2>3. OpenedText(f, m.branch) = m.text
    BY <1>9, <2>1, BoxContents DEF OpenedText
  <2>4. HeaderFor(m).duress # None => "primary" \in v.decodes /\ v.envelope
    BY <1>1, <1>5, <1>7, <2>1, BoxContents DEF Intact, Decodes
  <2>5. "primary" \in v.kdf
    BY <1>6, <1>7, <2>1 DEF decrypt_with_crypto_header, DerivableBranches
  <2>. QED BY <1>3, <1>7, <1>8, <1>9, <2>2, <2>3, <2>4, <2>5
           DEF unlock_vault, unlock_duress_envelope, decrypted
<1>10. CASE m.branch = "Decoy"
  <2>1. /\ f.payload.decoy = BoxFor(m) /\ CryptoFor(m) = HeaderFor(m).duress.decoy
        /\ HeaderFor(m).duress # None
    BY <1>1, <1>10 DEF Intact, CryptoFor, Recorded
  <2>2. OpensDecoy(f, p)
    BY <1>4, <1>6, <2>1 DEF OpensDecoy
  <2>3. PICK n \in made : n.file = f /\ n.branch = "Primary" /\ f.payload.primary = BoxFor(n)
    BY <1>1, <1>10 DEF Paired
  <2>4. n.password # p
    BY <1>10, <2>3 DEF Reachable
  <2>5. ~OpensPrimary(f, p)
    <3>1. BoxFor(n).key.password # p
      BY <2>4, BoxContents
    <3>2. \A ch : derive_master_key(p, ch).password = p
      BY DEF derive_master_key
    <3>. QED BY <2>3, <3>1, <3>2 DEF OpensPrimary, decrypt_with_crypto_header, decrypts
  <2>6. OpenedText(f, m.branch) = m.text
    BY <1>10, <2>1, BoxContents DEF OpenedText
  <2>7. "decoy" \in v.decodes /\ v.envelope
    <3>1. f.payload.kind = "envelope" /\ BoxFor(m).text.payload
      BY <1>1, <2>1, BoxContents DEF Intact
    <3>. QED BY <1>5, <1>7, <2>1, <3>1 DEF Decodes
  <2>8. "decoy" \in v.kdf
    BY <1>6, <1>7, <2>1 DEF decrypt_with_crypto_header, DerivableBranches
  <2>. QED BY <1>3, <1>7, <1>8, <1>10, <2>1, <2>2, <2>5, <2>6, <2>7, <2>8
           DEF unlock_vault, unlock_duress_envelope, decrypted
<1>. QED BY <1>1, <1>9, <1>10 DEF Recorded, UnlockOutcome

LEMMA BackupRestores ==
    ASSUME NEW s, Restorable(s),
           decode_error(s.backup.payload, MAX_VAULT_CONTAINER_PAYLOAD_LEN) = "Ok"
    PROVE  import_result(s.policy, s.password, s.backup) = "Ok"
<1>1. ~is_decoy(s.policy)
  BY DEF Restorable, allow_exposure
<1>2. decode_signed_backup(s.policy, s.password, s.backup) = "Ok"
  BY DEF Restorable, decode_signed_backup
<1>. QED BY <1>1, <1>2 DEF import_result

LEMMA StoreInvariance ==
    ASSUME NoneIsNothing
    PROVE  Spec => [](BoxInv /\ StoreInv)
<1>1. BoxInv /\ StoreInv /\ [Next]_vars => (BoxInv /\ StoreInv)'
  BY BoxStep, StoreStep
<1>. QED BY <1>1, BoxInit, StoreInit, PTL DEF Spec

\* What was stored can be recovered: it opens with the password it was stored
\* with, as its branch and to its plaintext, and its backups are accepted.
THEOREM StoredIsRecoverable ==
    ASSUME NoneIsNothing
    PROVE  Spec => []Recoverable
<1>1. BoxInv /\ StoreInv => Recoverable
  BY StoredOpens, BackupRestores DEF StoreInv, Recoverable, HeaderFor
<1>. QED BY <1>1, StoreInvariance, PTL
=============================================================================
