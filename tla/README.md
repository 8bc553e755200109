# ViperVault core: specifications, model checking and proofs

This directory holds TLA+ specifications of `core/crates/vipervault-core`, the
Rust library behind the ViperVault password manager, the TLC configurations
that check them on small instances, and TLAPS proofs of the results that hold
for every instance. Source paths below are relative to
`core/crates/vipervault-core/src/`. `PROJECT.json` maps every definition that
models code to the lines it models and lists the runs, the hazards and the
theorems.

## The system

The library keeps one decrypted vault in memory and one encrypted vault per
file. It has no process of its own: a host application (Android, iOS, tests)
calls it from an async runtime, from any number of threads or tasks.

| Component | State it keeps | Operations | What makes it correct |
|---|---|---|---|
| Lock manager, `core/lock_state.rs` | lock state with the plaintext JSON and the session's strength, outcome, posture and sticky flag (async mutex); generation (atomic); current `Notify` (mutex); handle of the timer task (async mutex) | unlock (three forms), lock, notify activity, set or refresh posture, mark or clear re-authentication, runtime events, authorize | an unlocked vault locks after inactivity; an old timer harms no newer session; the flag is sticky; grants follow the session |
| Session and policy, `core/session.rs`, `core/policy.rs`, `core/antidebug.rs` | none (probes read the platform) | policy matrix | refusals in decoy and restrictive sessions |
| Entries, `entries/`, `core/entries.rs` | the entries in the JSON buffer | constructors, add, update, update fields, delete, list, get, reveal, copy | the buffer can always be decoded again; identifiers are unique; TOTP secret and block agree |
| Interop import, `import/interop.rs`, `import/e2e_interop.rs`, `core/import.rs` | a quarantine held by the caller | parse, commit, report | nothing is imported under a policy that forbids it; what was imported decodes again |
| Storage, `vault/storage.rs` | vault file, sidecar lock file, temporary files | locked read, transactional write | atomic and durable replacement whatever fails |
| Unlock and duress, `core/unlock.rs`, `vault/duress.rs` | none | try primary, then decoy | the right branch, one error for every authentication failure |
| Gate and limiter, `core/auth_gate.rs`, `core/rate_limit.rs` | failure streak and time of the last failure (async mutex) | run, reset | every wrong password costs, and so does a malformed branch of a duress vault; decoy unlocks do not reset the streak, other malformed files do not raise it |
| Signed import, `import/signed.rs`, `import/e2e_signed.rs` | none | verify, unlock, open a session | as the gate; the session keeps its outcome |
| Biometric unlock, `core/biometrics.rs` | none | unlock with a released key | legacy containers only, weaker session |
| Clipboard, `clipboard/`, `totp/clipboard.rs` | handle of the clearing task | copy with timeout, cancel, drop | the secret leaves the clipboard; nobody else's text is wiped |
| Container and backup codecs, `vault/codec.rs`, `vault/create.rs`, `vault/migrate.rs`, `backup/`, `import/signed.rs` | none: containers and backups are bytes outside the program | encode, decode, create, enable duress, export, sign, import | what was stored opens again with its password, as its branch; an altered container opens to nothing else; nonces are fresh; an import is what was signed |
| otpauth and TOTP, `otpauth/`, `totp/` | none | parse, export, generate, verify | a code is accepted in its window and nowhere else; an exported entry is the same entry elsewhere |
| Crypto and memory, `crypto/`, `memory/` | none | KDF, AEAD, zeroizing buffers | parameter limits; the primitives themselves are external |

Interactions. The manager is the hub: entries, import and the reveal path work
on its buffer under its state mutex; the gated flows end by handing it a
plaintext; copying a secret authorizes with the manager and then hands the text
to the clipboard guard. The timer task shares the state mutex and the
generation with the manager. Processes share a vault file through the sidecar
lock. Callers share a gate.

Hard behaviours: calls that acquire two or three mutexes in turn and can be
overtaken in between; `abort()` that takes effect only at an await; timers
against activity; failures and crashes between the steps of a write; errors
that return after a partial change; sleeps outside a mutex; futures dropped at an
await; files that change between two uses of them.

## Modules

| Module | Models |
|---|---|
| `SessionPolicy` | enums and policy matrix, pure operators |
| `LockManager` | the lock manager with concurrent callers and timer tasks |
| `SessionRegister` | abstract: a register that holds at most one session, each opened at most once |
| `LockManagerProofs` | theorems about `LockManager` |
| `VaultStorage` | lock, write, read, kill, power loss |
| `AtomicVaultFile` | abstract: an atomic, durable register of whole writes |
| `VaultStorageProofs` | theorems about `VaultStorage` |
| `VaultEntries` | entries, CRUD, import, and the decode/encode around them |
| `VaultEntriesProofs` | theorems about `VaultEntries` |
| `VaultUnlock` | unlock primitives, pure operators |
| `AuthGate` | limiter, gate and the three unlock flows (password, signed import, biometric), composed with `VaultUnlock` |
| `AuthGateProofs` | theorems about `AuthGate` |
| `VaultContainer` | creation, duress migration, export, container codec, signed backups, and what happens to the files outside, composed with `VaultUnlock` |
| `VaultContainerProofs` | theorems about `VaultContainer` |
| `TotpExchange` | a TOTP entry, its otpauth URI, the copy made from it, generation and verification of codes |
| `TotpProofs` | theorems about `TotpExchange` |
| `ClipboardGuard` | the guard, its tasks, the clipboard and the C entry points |
| `ClipboardGuardProofs` | theorems about `ClipboardGuard` |
| `MC*` | constants and symmetry for TLC |

### How state and actions correspond to the code

*LockManager.* The five fields of `VaultLockManager` are the variables
`generation`, `state`, `notify`, `auto_lock_task` (and `task`, the spawned
tasks, one for each generation). `call` holds the locals of each caller's call.
A call is cut where it acquires a mutex anew: an unlock is `BeginUnlock`
(generation), `PublishSession` (state), `CancelOldTimer` (task handle),
`SpawnTimer` (notify) and `StoreHandle`; a lock is `BeginLock`, `WipeState`,
`CancelTimer`; a reveal is `CheckPolicy`, `CheckReauth`, `GetEntry`. The timer
task is `TimerStart`, `TimerExpire` or `TimerActivity`, `TimerFire`; `TaskDrop`
is the runtime's part of an abort. `DropCall` is a caller that drops its future
at an await: what the call has done so far stays, the rest never happens. The
plaintext is the generation of the unlock that brought it.

*VaultStorage.* One action per system call, each with a failing alternative.
A file's bytes are the number of the file; `content`, `synced`, `target` and
`durable` are the disk, where `durable` is what the path may name after a power
loss. `faulted`, `before`, `leaked` and `acked` are history variables.

*VaultEntries.* An operation under the state mutex is one action. The buffer is
the sequence of the entries encoded in it; decoding checks the invariants, as
`Deserialize` does, and encoding does not. `apply_update` yields the entry as it
is left, also when it fails, because the caller stores it. Texts and secrets
are told apart by what the validators tell apart. `retain` and the loop of the
parser collect the kept positions of a sequence in their order (`Collected`).
An import is two actions, `ImportToQuarantine` and `CommitQuarantineImport`. The
policy is an argument of the call (`Supplied`): any policy, or with
`FromSession` that of the session open at the call, as a careful caller passes it.

*AuthGate.* An attempt is the operation (outside the mutex), then
`RecordFailure` and the sleep, or `Reset` and `OpenSession`; `DropCall` drops it
at an await, a failure that was counted stays counted. The credential is the set
of ciphertexts it opens; a container says of each of them whether its KDF
parameters are acceptable and whether its plaintext decodes. `InputClass` sorts
the attempts into good, wrong, malformed (the envelope, or a vault without duress)
and malformed in a branch of a duress vault. In the signed flow the signature is checked first, and a
password that fails there does not reach the gate. `due` is the delay last
earned, `owed` what each caller has yet to wait for; both are history variables.

*VaultContainer.* Cryptography is symbolic: a key is the password, salt and
parameters it was derived from, a ciphertext (a box) is the tuple the AEAD was
given and opens under exactly these values, a signature is its key and what it
covers. Random values are numbers counted by `drawn`. The bytes of a header are
the header and the encoder that wrote it, so that a header that is serialized
again may have other bytes. A payload has a length, because the limits of the
decoders are part of the behaviour. `disk` and `backups` only grow: `Damage` and
`DamageBackup` add copies altered as the corruption tests and the structured fuzz
targets alter them, or spliced from two files. `made` and `signed` are history
variables: what was stored for whom, and what was signed. The decoders are
written as the result they return, with their checks in the code's order, and a
decoded container is handed to the primitives of `VaultUnlock`.

*TotpExchange.* A text is the sequence of its words between colons, so that the
parser's split of a label is `Head` and `Tail`. A Base32 secret is its length,
its padding and the bytes it stands for; a URI is its label and, for each key,
the values in their order. A code is the tuple of what its HMAC is computed from.

*ClipboardGuard.* `SetClipboard`, `AbortPrevious`, `SpawnClear` or `SpawnPanics`,
`Cancel`; the task is `Wake`, `Get`, `Clear`. `runtime` is chosen once: on
`current_thread` a call and a poll exclude each other, on `multi_thread` they
interleave, and on a thread that has entered no runtime (`none`) `tokio::spawn`
panics, which the C entry point turns into an error.

Definitions whose comment begins with "Mutant" are plausible mistakes in a
definition that follows. They are used by no action; each documents a change of
the code that one of the properties detects.

## Runs

| Run | States | Shows |
|---|---|---|
| `LockTimers` | 1 224 659 | two callers, overlapping unlocks, locks and activity, any of their calls dropped half-way: no stale timer closes a newer session, none closes early, the sessions are those of `SessionRegister` |
| `LockSerial` | 362 744 | one caller, all postures, strengths, outcomes and events: the timer is armed whenever the vault is unlocked, the vault is locked in the end unless activity goes on, the flag is sticky and falls only by an explicit clear, secrets are read only from sessions that allow it |
| `LockRaceAutoLock` | | **violation**: a lock that overlaps an unlock leaves a session without a timer |
| `Storage` | 185 692 | two processes, a failure of any system call, kills, power losses: atomic, durable, isolated, no lock kept |
| `StorageBareName` | | **violation**: a write to a bare file name replaces the file and reports an error although no call failed by chance |
| `Entries` | 95 785 | every sequence of CRUD calls and imports with valid and invalid input, at the entry limit, under any supplied policy, in primary and decoy sessions that may end at any moment |
| `EntriesCorrupted` | | **violation**: a refused TOTP update makes the payload unreadable |
| `Gate` | 175 452 | two callers, all kinds of containers, all three flows, one caller's attempts dropped at any await |
| `GateSignedDecoy` | | **violation**: a decoy opened by the signed import is labelled primary |
| `Container` | 339 075 | three files of two passwords and one alteration: what opens is what was stored, what was stored opens, backups are exact, nonces fresh |
| `Totp` | 23 041 | valid and invalid entries and URIs, all texts and secrets that the code treats differently: window and round trip |
| `Clipboard` | 234 206 | three copies of two secrets, cancel, drop, failing callbacks, both runtimes and none: an exposed secret has its clear task, and leaves the clipboard |

Three more configurations are kept beside the runs because they reproduce
findings; TLC refutes each within seconds.

| Configuration | Module | Refutes |
|---|---|---|
| `GateMalformedDuress.cfg` | `MCAuthGate` | `MalformedNotDelayed`: a malformed branch of a duress vault is counted and delayed like a wrong password |
| `EntriesImportPolicy.cfg` | `MCVaultEntries` | `ImportAllowedBySession`: with two callers who pass the policy of the open session, an import is committed into a session that forbids it |
| `ContainerMigrate.cfg` | `MCVaultContainer` | `MigrationKeepsAccess`: a vault whose header was written by another encoder opens and cannot be migrated |

### Bounds

* `MaxGen = 4` in the lock runs allows three unlocks or locks after the initial
  generation: an old cycle, a new one and a lock between them. Timeouts of 0, 1
  and 2 ticks let a deadline pass before, with and after activity. The theorems
  do not depend on these numbers.
* `MaxWrites = 2` and two processes: an old file, a new one, a reader or writer
  beside them, and a power loss that may choose between both.
* `Entries` has `MaxId = 3`, the card of the file and two more entries, so that
  one can be broken beside the others, and updates of two fields, enough for a
  failure after an assignment. With `MAX_INTEROP_ENTRIES = 2` and exports of two
  lines an import reaches the limit.
* `Gate` has `CounterMax = 6`: the schedule has no delay up to two failures, then
  grows, so the streak passes the free attempts, the cap of 2 ticks and the
  saturation of the counter. The theorems take the code's schedule as it is and
  any policy.
* `Container` has `MaxFiles = 3`: a vault, its migration or an unrelated vault,
  and a backup; `MaxFaults = 1` alters any of them. Plaintexts are 100 bytes or
  8 MiB: the large one fits the decoder's limit of 16 MiB as a ciphertext and
  exceeds it as a duress envelope. KDF parameters are the default and a memory
  cost below the minimum. Two passwords, so that the branches can have one or two.
* `Totp` uses times around the first counters of periods of 10 to 120 s, where
  the window saturates at zero, and windows from 0 to one above the limit of 10.
  Secrets are at, below and above each limit.
* `MaxCopies = 3`: a copy, its replacement and a repetition of the first text.

### Fairness

Only steps of calls that have begun, of tasks that the runtime owns, and of the
clock are fair: an async runtime polls what is ready, a system call returns, a
`flock` that stays free is granted. Nobody is obliged to call anything, so
locking in `AutoLockEventually` is the timer's work alone. A waiting lock
request is weakly fair only: no property promises it to be granted. `Clipboard`,
`Totp`, `Container` and `ContainerMigrate` turn the deadlock check off:
the first stops after the guard is dropped and its last task has ended, the
others when the bound on files or the one exchange is used up. Everywhere else a
state without successor would be an error.

### Assumptions made in the passing runs

* `LockSerial` has one caller, whose calls run to their end (`Cancellable = {}`);
  the timer still interleaves. With a second caller the code does not keep
  `AutoLockArmed` (run `LockRaceAutoLock`) nor `RevealAllowedBySession` (three
  acquisitions of the mutex). A caller that drops the future of an unlock after
  the session was published leaves it without a timer: `AutoLockArmed` fails with
  `Cancellable = Callers` too. `LockTimers` shows what holds all the same.
* `Entries` has one caller, who passes any policy with an import. What it claims
  does not depend on the policy; that the session allows what is committed fails
  even for callers who pass the session's own (finding 7).
* `KeepIds`: callers of `update_entry` pass an entry with the identifier they
  replace, as `tests/crud_test.rs` does. The code does not check it, and
  `UniqueIds` fails without it.
* `Storage` has a path with a directory, so that writes can succeed. With a bare
  file name (`Dir = ""`) they never do (finding 2, run `StorageBareName`); the
  safety theorems hold for both.
* `Gate`: `FailuresClassified` says what the code counts: wrong passwords, and
  passwords whose branch of a duress vault is malformed, against the doc comment
  (finding 5). It is about passwords that reach the gate. The
  wrong passwords of the signed flow fail in the signature check before it
  (`import/e2e_signed.rs:50`) and cost nothing. `SessionLabelsBranch` excludes
  the signed flow (finding 4), and `FailuresSpaced` the callers that drop their
  attempts: whoever drops the sleep does not wait.
* `Container`: `Recoverable` is about containers that fit the decoder's limit.
  The encoder does not check it, so `create_duress_vault` and
  `enable_duress_on_vault` write a large vault that no decoder accepts. A decoy
  with the password of the primary branch is never reached.
* `Totp`: `CopiesAgree` is about texts without a colon in one script. A colon in
  an issuer moves a part of it into the account, and a title that mixes scripts is
  accepted by `new_totp` and refused by the parser.
* `Clipboard`: `ClearsOwnCopy` is claimed for a runtime of one thread. On several
  threads a copy can come between the comparison and the clear. `ExposureEnds`
  and `ExposureGuarded` excuse copies whose task was cancelled or could not be
  spawned (finding 8), and runs in which a callback failed (`GivenUp`).

## Findings

1. `core/lock_state.rs:473`: auto-lock lost when `lock` and `unlock` overlap
   (run `LockRaceAutoLock`).
2. `vault/storage.rs:306`: a relative file name without a directory always
   yields an error although the vault was replaced (run `StorageBareName`).
3. `entries/types.rs:484`, stored by `core/lock_state.rs:571`: a rejected TOTP
   secret is stored, and the payload no longer decodes (run `EntriesCorrupted`).
   The theorem `OnlySecretUpdatesCorrupt` bounds it: without updates of secrets
   and TOTP blocks in place it cannot happen.
4. `import/e2e_signed.rs:52`: the outcome is dropped and a decoy becomes a
   primary session (run `GateSignedDecoy`).
5. `core/unlock.rs:145`: KDF parameters out of range and plaintexts that do not
   decode are counted and delayed as wrong passwords when they are in a branch of a
   duress vault; the doc comment at `core/unlock.rs:55` excludes both
   (`GateMalformedDuress.cfg`). `FailuresClassified` holds: it says that exactly these
   malformed files are counted.
6. `vault/migrate.rs:83`: the migration uses the header serialized again as
   associated data and refuses vaults whose header has other bytes
   (`ContainerMigrate.cfg`).
7. `core/import.rs:28`: the commit of an import checks the policy its caller
   passed, not the session's; another caller who reopens the vault between parse
   and commit gets the entries into a decoy or restrictive session, which
   `core/policy.rs:15` rules out (`EntriesImportPolicy.cfg`).
8. `clipboard/guard.rs:82`: outside of a runtime the secret is copied, the
   previous task is aborted and then the spawn panics: nothing clears the
   clipboard (`Clipboard`, without the excuse for copies of `SpawnPanics`).

## Proofs

All proofs are checked by TLAPS (SMT, Zenon, LS4) with no facts taken on trust.
The assumptions on the constants are the named `ASSUME`s of the modules that
declare them; TLC evaluates them in every run.

`LockManagerProofs` works for any set of callers, any timeouts and any bound on
the generation. The inductive invariant `IInv` is the conjunction of

* `TypeOK`;
* `Issued`: neither the open session nor one that an unlock in progress carries
  has a generation that was not issued yet. Without it a fresh generation could
  collide with an existing session;
* `Distinct`: no two unlocks that are about to publish hold the same generation,
  which is what makes the register's `Open` remove exactly one pending unlock;
* `TimerExact`: a waiting timer's elapsed idle time and remaining time add up to
  its timeout, and an expired one waited all of it;
* `Posture`: the open session, the sessions that pending unlocks will publish
  and those that authorizations were granted on satisfy the flag's rules.

From it follow `TypeCorrect`, `ReauthSticky`, `GrantsAreStrong`, `OnlyClearLifts`
(with `Unpublished`: no pending unlock carries the open session's generation, so a
publication that drops the flag opens another session),
`StaleTimersAreHarmless` (an `expired` task locks only when the generation is
its own, and no session is newer than the generation), `AutoLockIsPatient` and
`Refinement` (every action is an action of `SessionRegister` or a stutter).
`SerialAutoLock` needs one more invariant, `SerialInv`, which says at every point
of the single caller's call what the handle and the timer of the current
generation are; it holds under `OneCaller`: a single caller that drops no call.
`RevealsAreAllowed` needs `RevealInv`: between the checks of a reveal and its read
the session is the one that was checked, or the vault is locked. Without a
second caller only a timer acts in between, and a timer never opens a session;
the single caller may drop its calls anywhere.

`VaultStorageProofs` works for any set of processes and any number of writes.
Its `IInv` is `TypeOK`, `Locks` (the exclusive lock excludes everybody else),
`Calls` (what each step of a writer and of a reader may rely on: the file of a
write is newer than everything the path may name, it is complete before the
sync and on disk before the rename, and a call that will return Ok has left
nothing older in `durable`), `Disk` (`TargetIntact` and `AckedSurvives`, with the
path naming only files that exist) and `NoStrayTemps`. `TargetIntact` alone is
not inductive: a write into a temporary file could destroy the vault if that
file were one the path may name, and two writers could interleave. Two frame
lemmas carry the argument: the other calls do not notice a step that leaves the
files alone (`QuietStep`), and while a writer changes them there is no other
call past the lock (`OwnerStep`). From `IInv` follow `TypeCorrect`, `NeverTorn`,
`Durability`, `Isolation`, `CurrentReads`, `TempsAccountedFor` and, with every
rename mapped to `Replace`, every directory sync to `Flush` and every return of
Ok to `Acknowledge`, `Refinement`.

`AuthGateProofs` works for any callers, containers, counter width and throttle
policy, and uses the schedule of the code (`DelayMonotone`). Its `IInv` is
`TypeOK`, `DueExact` (the delay last earned is the capped schedule at the current
streak) and `Attempts` (what is known of an attempt at each step: only a primary
decryption reaches the reset, the result names the branch; a malformed envelope or
legacy container never reaches the recording; a wrong password, or one whose branch
is malformed and that opened nothing, reaches it or was recorded). From
it follow `TypeCorrect`, `FailuresAreClassified`, `LabelsAreTrue`,
`StreakIsKept` and `BackoffIsMonotone`, in all three flows and with dropped
attempts. `FailuresArePaidFor` adds `Spaced`: a caller that does not drop its
attempts owes nothing except while it sleeps, and then no more than the sleep
has left. It holds for any number of callers.

`VaultContainerProofs` works for any passwords, plaintexts, parameters, encoders
and any number of files and alterations. It has three invariants.

* `BackupInv`: every signature that exists comes from a backup that was made with
  the password of its key, however fields of backups were exchanged. From it
  follows `ImportsAreExact`.
* `BoxInv`: every ciphertext on the disk, in whatever file an alteration put it,
  was made for somebody and its associated data is the header it was made under
  (`BoxOrigin`); what was made used random values that had been drawn
  (`Recorded`); no two ciphertexts share a nonce (`NoncesOnce`). `Authentic` is
  not inductive: a splice moves a ciphertext under another header, and one has to
  know where every ciphertext comes from to see that it does not open there.
  From it follow `OpenedIsAuthentic` and `NoncesAreFresh`.
* `StoreInv`: each thing stored has its intact container and its counterpart in
  the other branch, each backup made can be restored. With `BoxInv` it yields
  `StoredIsRecoverable`.

The last three theorems assume `NoneIsNothing`, that the value for "nothing" is
no record; in TLC it is a model value.

`TotpProofs` works for any times, texts and secrets. `WindowCounters` says that
the saturated counters of the loop are the natural numbers at most the window
away from the base; `TotpInv` says that the URI is the export of the entry and
the copy what parses from it. `WindowIsExact` follows for both devices.
`CopiesAreFaithful` adds `TextInv`, the types of the entry's texts, and the lemmas
that the parser's split undoes the label that the export puts together
(`LabelSplits`), that every export of an entry with plain texts is accepted
(`ExportParses`) and that issuer, account and code survive. `TextAssumption` says
that texts are sequences of words and that the values for "nothing" are no texts.

`ClipboardGuardProofs` works for any secrets, timeouts and number of copies.
`IInv` says that only the task of the handle can wake (`OneSleeper`), that the
handle is that of the last copy (`HandleIsLast`), and that what a polled task
finds on a runtime of one thread is no later copy (`PollSeesOwn`). From it follow
`TypeCorrect` and `TasksClearTheirOwn`. `SecretsAreGuarded` adds `GuardInv`: as
long as no callback failed, a secret in the clipboard is that of the last copy and
its text is the one that the call, or the task after it, holds. Without the text
the invariant is not inductive: a task whose comparison failed would end and
leave its secret behind. It is the safety half of `ExposureEnds`: somebody is there
to clear, and fairness does the rest.

`VaultEntriesProofs` works for any callers, texts, secrets, fields, numbers of
entries and lengths of exports, and for imports under any policy. `UnreadableStays`
needs no invariant. The others rest on

* the lemmas about `Collected`: the positions kept are numbered without gaps
  (`RankTaken`), so that the result is a sequence of kept elements in their order
  (`CollectedProperties`). The induction they need is the existence of a least
  element (`LeastNatural`), from the well-foundedness of the order on the naturals.
  `ImportDeduplicates` follows for the parser;
* `Sane`, which holds between the assignments of `apply_update`: the entry is
  typed, keeps its identifier, and its primary secret is out of step with its block
  only if the entry will not decode. `SecretMirrorsTotp` alone is not inductive: a
  failed update stores a block whose secret is not mirrored;
* `EntriesInv`: the entries of the session and of every quarantine are `Sound`
  (typed, with drawn identifiers, in step unless they do not decode), those of a
  quarantine also `Valid`. From it follow `TypeCorrect`, `SecretsAgree` and
  `OkIsReadable`, and with `SameKind` (an update of other fields leaves alone what
  the decoder checks, also when it fails half-way) `OnlySecretUpdatesCorrupt`;
* `IdsInv`: the identifiers of the session are distinct, and so are those of an
  import on its way, among themselves and from the session's. It yields
  `IdsAreUnique`, under `OneCaller` (the field is public: another caller could add an
  entry with an identifier that a quarantine drew) and `KeepIds`.

`InputAssumption` separates the values for "nothing", "locked" and rejected texts
from proper ones. `PayloadAssumption` says that vault files hold what the program
wrote: typed entries with distinct identifiers, mirrored secrets, and none of the
identifiers yet to be drawn. The decoder does not check the identifiers, so a file
made otherwise may hold duplicates. Payloads need not decode.

Only model-checked: liveness (`AutoLockEventually`, `LockReleased`,
`ExposureEnds`), because fairness and ENABLED are outside the prover's reach. Every
safety property of a passing run is also a theorem.

## Not modelled

* The primitives: Argon2id, HKDF, XChaCha20-Poly1305, Ed25519 and HMAC are
  symbolic, without collisions; a failing random number generator.
* URI syntax: percent-encoding, outer blanks and the limit of 4096 characters.
  The digits of a code (`totp/format.rs`).
* The biometric C ABI and the pointer handling of the clipboard's: checks without
  state. Zeroization and protected memory: contents of memory.
* Platform probes: their answer is arbitrary in the models.
* Directories that `create_dir_all` has just made and that are not synced into
  their own parents (`vault/storage.rs:115`): the model begins with the directory.
* Targets other than Unix, where the directory sync is a no-op. Formatting, error
  wording, timestamps of entries, other limits on the lengths of texts.

## Plan

1. Composition of the manager, the entries and the clipboard: copying a secret
   while the session ends.
2. Proofs: what holds of reveals and imports when several callers overlap.
