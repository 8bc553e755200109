---------------------------- MODULE VaultEntries ----------------------------
(***************************************************************************)
(* The decrypted payload of an open session and the operations on it:      *)
(* entry CRUD (core/entries.rs, entries/types.rs), the plaintext import    *)
(* through quarantine (import/interop.rs, import/e2e_interop.rs,           *)
(* core/import.rs) and the two helpers that decode and re-encode the JSON  *)
(* buffer around every operation (core/lock_state.rs).                     *)
(*                                                                         *)
(* An operation runs under the state mutex and is one action; the reported *)
(* import acquires it three times and is three.  A text is a value that    *)
(* passes its validator or BadText; a secret is told apart only by whether *)
(* it is base32 and whether it is empty.  The JSON buffer is represented   *)
(* by the entries encoded in it, so that the checks of the decoder are     *)
(* made when an operation decodes, not when it encodes.                    *)
(***************************************************************************)
EXTENDS Naturals, Sequences, FiniteSets, SessionPolicy

CONSTANTS
    Callers,     \* threads or tasks that use the manager
    MaxId,       \* bound on the identifiers (UUIDs) drawn
    Texts,       \* titles, notes and user names that pass validation
    Base32,      \* secrets over the base32 alphabet
    Plain,       \* other non-empty secrets
    Totps,       \* TOTP blocks that callers pass
    Fields,      \* fields that callers update
    MaxFields,   \* bound on the number of fields of one update
    Payloads,    \* payloads a vault may hold when it is unlocked
    Policies,    \* the session policies an unlock may establish
    Keys,        \* (issuer, account, secret) triples of an export
    MaxLines,    \* bound on the number of lines of an export
    MAX_INTEROP_ENTRIES,
    KeepIds,     \* callers of update_entry pass an entry with the same id
    FromSession, \* callers of an import pass the policy of the open session
    None,        \* Option::None
    Locked       \* VaultState::Locked

ASSUME EntriesAssumption ==
    /\ MaxId \in Nat /\ MaxLines \in Nat /\ MAX_INTEROP_ENTRIES \in Nat
    /\ Policies \subseteq PolicyContext
    /\ KeepIds \in BOOLEAN /\ FromSession \in BOOLEAN

BadText == "bad"
Empty == ""

Id == 1..MaxId
Secret == Base32 \cup Plain \cup {Empty}
TotpSecret == [secret_b32 : Secret, in_range : BOOLEAN]
EntryType == {"Password", "SecureNote", "Card", "Totp"}

VaultEntry ==
    [id : Id, entry_type : EntryType, title : Texts, note : Texts \cup {None},
     username : Texts \cup {None}, secret : Secret \cup Texts,
     extra : Texts \cup {None}, totp : TotpSecret \cup {None}]

\* VaultState::Unlocked
Session == [policy : Policies, entries : Seq(VaultEntry)]

ASSUME InputAssumption ==
    /\ BadText \notin Texts /\ Texts # {}
    /\ Base32 # {}
    /\ Totps \subseteq TotpSecret
    /\ None \notin TotpSecret
    /\ Locked \notin Session

\* The identifiers in the vault files.
Preloaded == UNION {{entries[i].id : i \in DOMAIN entries} : entries \in Payloads}

DistinctIds(entries) ==
    \A i, j \in DOMAIN entries : entries[i].id = entries[j].id => i = j

\* The primary secret of a TOTP entry is its block's secret.
InSync(e) == e.entry_type = "Totp" /\ e.totp # None => e.secret = e.totp.secret_b32

\* A vault file holds what the program wrote into it, and it draws identifiers
\* that no vault has yet.
ASSUME PayloadAssumption ==
    /\ \A entries \in Payloads :
         /\ entries \in Seq(VaultEntry)
         /\ DistinctIds(entries)
         /\ \A i \in DOMAIN entries : InSync(entries[i])
    /\ Cardinality(Preloaded) \in 0..MaxId
    /\ Preloaded = 1..Cardinality(Preloaded)

VARIABLES
    state,    \* Locked, or the policy of the session and its entries
    next_id,  \* the UUIDs drawn so far
    result,   \* the result of the last operation
    call      \* the imports in progress

vars == <<state, next_id, result, call>>

\* An import holds the policy its caller passed and the entries of the quarantine.
ImportCall == [pc : {"idle", "commit", "count"}, policy : Policies \cup {None},
               incoming : Seq(VaultEntry)]

IdleCall == [pc |-> "idle", policy |-> None, incoming |-> <<>>]

Init ==
    /\ state = Locked
    /\ next_id = Cardinality(Preloaded)
    /\ result = "none"
    /\ call = [c \in Callers |-> IdleCall]

----------------------------------------------------------------------------
(* entries/validate.rs and TotpSecret::validate                            *)

\* Mutant: control characters are let through.
valid_text_any(t) == TRUE

valid_text(t) == t # BadText
validate_password(s) == s # Empty

\* Digits and period in range, and a secret over the base32 alphabet.
validate(totp) == totp.in_range /\ totp.secret_b32 \in Base32

\* VaultEntry::validate_invariants
validate_invariants(e) ==
    IF e.entry_type = "Totp" THEN e.totp # None /\ validate(e.totp) ELSE e.totp = None

----------------------------------------------------------------------------
(* Constructors.  The caller has validated its input.                      *)

new_password(id, title, username, password, note) ==
    [id |-> id, entry_type |-> "Password", title |-> title, note |-> note,
     username |-> username, secret |-> password, extra |-> None, totp |-> None]

\* The content is mirrored into note and secret.
new_secure_note(id, title, note) ==
    [id |-> id, entry_type |-> "SecureNote", title |-> title, note |-> note,
     username |-> None, secret |-> note, extra |-> None, totp |-> None]

new_totp(id, title, totp, note) ==
    [id |-> id, entry_type |-> "Totp", title |-> title, note |-> note,
     username |-> None, secret |-> totp.secret_b32, extra |-> None, totp |-> totp]

\* The entries that the constructors accept.
Constructed(id) ==
    {new_password(id, t, None, s, None) : t \in Texts, s \in Base32 \cup Plain}
    \cup {new_secure_note(id, t, n) : t \in Texts, n \in Texts}
    \cup {new_totp(id, t, s, None) : t \in Texts, s \in {u \in Totps : validate(u)}}

----------------------------------------------------------------------------
(* VaultEntry::apply_update.  An update holds an optional value for every   *)
(* field: one of them for the granular updates, any number for Replace.    *)
(* A step yields the entry as it leaves it and whether it succeeded; a     *)
(* failed step does not undo the assignments made before it.               *)

Input(f) ==
    CASE f = "title" -> Texts \cup {BadText}
      [] f \in {"note", "username"} -> Texts \cup {BadText, None}
      [] f = "secret" -> Secret
      [] f = "extra" -> Texts \cup {None}
      [] f = "totp" -> Totps \cup {None}

\* An optional value is the set of the values it holds, none or one.
Some(v) == {v}
Value(option) == CHOOSE v \in option : TRUE

Option(f) == {{}} \cup (IF f \in Fields THEN {Some(v) : v \in Input(f)} ELSE {})

Updates ==
    {u \in [title : Option("title"), note : Option("note"), username : Option("username"),
            secret : Option("secret"), extra : Option("extra"), totp : Option("totp")] :
       Cardinality({f \in DOMAIN u : u[f] # {}}) <= MaxFields}

Done(e, ok) == [entry |-> e, ok |-> ok]

\* Mutant: the invariants are not checked after an update.
CheckedNot(e) == Done(e, TRUE)

\* A nested apply_update ends with the check of the invariants.
Checked(e) == Done(e, validate_invariants(e))

\* SetTitle, SetNote, SetUsername
set_text(e, f, t) ==
    IF valid_text(t) THEN Done([e EXCEPT ![f] = t], TRUE) ELSE Done(e, FALSE)

set_secret(e, s) ==
    CASE e.entry_type = "Password" ->
           IF validate_password(s) THEN Checked([e EXCEPT !.secret = s]) ELSE Done(e, FALSE)
      [] e.entry_type = "Totp" ->
           IF e.totp = None THEN Done(e, FALSE)
           ELSE LET t == [e.totp EXCEPT !.secret_b32 = s] IN
                IF validate(t) THEN Checked([e EXCEPT !.totp = t, !.secret = s])
                               ELSE Done([e EXCEPT !.totp = t], FALSE)
      [] OTHER -> Checked([e EXCEPT !.secret = s])

\* Mutant: the primary secret is not updated with the block.
set_totp_block_only(e, t) ==
    IF e.entry_type # "Totp" \/ (t # None /\ ~validate(t)) THEN Done(e, FALSE)
    ELSE Checked([e EXCEPT !.totp = t])

set_totp(e, t) ==
    IF e.entry_type # "Totp" THEN Done(e, FALSE)
    ELSE IF t = None THEN Checked([e EXCEPT !.totp = None])
    ELSE IF ~validate(t) THEN Done(e, FALSE)
    ELSE Checked([e EXCEPT !.secret = t.secret_b32, !.totp = t])

\* One "if let Some" of Replace.
Step(r, u, f) ==
    IF ~r.ok \/ u[f] = {} THEN r
    ELSE LET v == Value(u[f]) IN
         CASE f = "secret" -> set_secret(r.entry, v)
           [] f = "totp" -> set_totp(r.entry, v)
           [] f = "extra" -> Done([r.entry EXCEPT !.extra = v], TRUE)
           [] OTHER -> set_text(r.entry, f, v)

Replaced(e, u) ==
    Step(Step(Step(Step(Step(Step(Done(e, TRUE),
        u, "title"), u, "note"), u, "username"), u, "secret"), u, "extra"), u, "totp")

apply_update(e, u) ==
    LET r == Replaced(e, u) IN IF r.ok THEN Checked(r.entry) ELSE r

----------------------------------------------------------------------------
(* with_unlocked_payload(_mut)                                             *)

\* Deserialization checks the invariants of every entry.
decodes(entries) == \A i \in DOMAIN entries : validate_invariants(entries[i])

Readable == state # Locked /\ decodes(state.entries)

\* The operation sees the decoded entries; whatever it returns, what it leaves
\* is encoded and replaces the buffer.
Store(entries, res) ==
    /\ state' = [state EXCEPT !.entries = entries]
    /\ result' = res

\* Mutant: a payload that does not decode is replaced by an empty one.
RefusedWithDefault(res) ==
    \/ state = Locked /\ result' = res /\ UNCHANGED state
    \/ state # Locked /\ ~Readable /\ Store(<<>>, "Ok")

\* The vault is locked or its buffer does not decode: nothing changes.
Refused(res) == ~Readable /\ result' = res /\ UNCHANGED state

HasId(entries, id) == \E i \in DOMAIN entries : entries[i].id = id

\* The index that iter().find(..) or iter_mut().find(..) stops at.
Position(entries, id) ==
    CHOOSE i \in DOMAIN entries :
        entries[i].id = id /\ \A j \in 1..(i - 1) : entries[j].id # id

\* The number of the positions up to i that are kept.
Rank(kept, i) == Cardinality({j \in kept : j <= i})

\* What a loop over s collects at the positions in kept, in their order.
Collected(s, kept) ==
    [k \in 1..Cardinality(kept) |-> s[CHOOSE i \in kept : Rank(kept, i) = k]]

----------------------------------------------------------------------------
(* Sessions.  A caller's unlock publishes the payload of a vault file; the *)
(* timer or anybody's lock wipes it, without waiting for an import.        *)

Idle(c) == call[c].pc = "idle"

Unlock(c, policy, entries) ==
    /\ Idle(c)
    /\ state' = [policy |-> policy, entries |-> entries]
    /\ result' = "none"
    /\ UNCHANGED <<next_id, call>>

Lock ==
    /\ state # Locked
    /\ state' = Locked
    /\ result' = "none"
    /\ UNCHANGED <<next_id, call>>

----------------------------------------------------------------------------
(* CRUD.  The identifier of an entry is drawn by its constructor; the      *)
(* field is public, so a caller may also set one that is in use.           *)

\* Draw a new identifier or reuse one.
Identifiers == 1..(IF next_id < MaxId THEN next_id + 1 ELSE next_id)

Drawn(id) == next_id' = IF id > next_id THEN id ELSE next_id

\* Mutant: the test for a duplicate is left out.
is_duplicate_never(entries, id) == FALSE

is_duplicate(entries, id) == HasId(entries, id)

add_entry(c, entry) ==
    /\ Idle(c)
    /\ \/ Refused("VaultLocked")
       \/ /\ Readable
          /\ is_duplicate(state.entries, entry.id)
          /\ Store(state.entries, "DuplicateEntry")
       \/ /\ Readable
          /\ ~is_duplicate(state.entries, entry.id)
          /\ Store(Append(state.entries, entry), "Ok")
    /\ Drawn(entry.id)
    /\ UNCHANGED call

update_entry(c, id, new_entry) ==
    /\ Idle(c)
    /\ \/ Refused("VaultLocked")
       \/ Readable /\ ~HasId(state.entries, id) /\ Store(state.entries, "EntryNotFound")
       \/ /\ Readable
          /\ HasId(state.entries, id)
          /\ Store([state.entries EXCEPT ![Position(state.entries, id)] = new_entry], "Ok")
    /\ Drawn(new_entry.id)
    /\ UNCHANGED call

\* Validation errors are one result, Invalid.
update_entry_fields(c, id, update) ==
    /\ Idle(c)
    /\ \/ Refused("VaultLocked")
       \/ Readable /\ ~HasId(state.entries, id) /\ Store(state.entries, "EntryNotFound")
       \/ /\ Readable
          /\ HasId(state.entries, id)
          /\ LET i == Position(state.entries, id)
                 r == apply_update(state.entries[i], update)
             IN  Store([state.entries EXCEPT ![i] = r.entry], IF r.ok THEN "Ok" ELSE "Invalid")
    /\ UNCHANGED <<next_id, call>>

\* Vec::retain
retained(entries, id) == Collected(entries, {i \in DOMAIN entries : entries[i].id # id})

delete_entry(c, id) ==
    /\ Idle(c)
    /\ \/ Refused("VaultLocked")
       \/ /\ Readable
          /\ Store(retained(state.entries, id),
                   IF Len(retained(state.entries, id)) = Len(state.entries)
                     THEN "EntryNotFound" ELSE "Ok")
    /\ UNCHANGED <<next_id, call>>

----------------------------------------------------------------------------
(* Import.  A line of the export is blank, malformed or the URI of a key.  *)

Line == {"blank", "malformed"} \cup Keys

Exports == UNION {[1..n -> Line] : n \in 0..MaxLines}

\* The URI of a line is kept unless an earlier line has the same key.
fresh_uri(lines, i) == lines[i] # "blank" /\ \A j \in 1..(i - 1) : lines[j] # lines[i]

\* parse_otpauth_totp_list: the keys kept, in their order.
parsed_keys(lines) == Collected(lines, {i \in DOMAIN lines : fresh_uri(lines, i)})

\* Empty input, too many lines or a malformed line reject the export.
parses(lines) ==
    /\ Len(lines) \in 1..MAX_INTEROP_ENTRIES
    /\ \A i \in DOMAIN lines : lines[i] # "malformed"

\* The entries of the quarantine, each with a new identifier.
quarantined(keys) ==
    LET title == CHOOSE t \in Texts : TRUE
        secret == CHOOSE s \in Base32 : TRUE
    IN  [k \in DOMAIN keys |->
           new_totp(next_id + k, title, [secret_b32 |-> secret, in_range |-> TRUE], None)]

\* The PolicyContext is an argument: nothing ties it to the session.  The callers
\* that take care pass the one of the session that is open when they call.
Supplied ==
    IF ~FromSession THEN Policies
    ELSE IF state = Locked THEN {} ELSE {state.policy}

\* import_interop_quarantine, a pure step that needs no session.  An export that
\* the parser refuses changes nothing and is left out.
ImportToQuarantine(c, policy, lines) ==
    /\ Idle(c)
    /\ \/ /\ ~allow_exposure(policy)
          /\ result' = "PolicyDenied"
          /\ UNCHANGED <<next_id, call>>
       \/ /\ allow_exposure(policy)
          /\ parses(lines)
          /\ LET keys == parsed_keys(lines) IN
             /\ next_id + Len(keys) <= MaxId
             /\ next_id' = next_id + Len(keys)
             /\ call' = [call EXCEPT ![c] =
                           [pc |-> "commit", policy |-> policy,
                            incoming |-> quarantined(keys)]]
          /\ result' = "none"
    /\ UNCHANGED state

within_limit(n, m) == n + m <= MAX_INTEROP_ENTRIES

Return(c) == call' = [call EXCEPT ![c] = IdleCall]

\* commit_quarantine_import into the session that is open now, with the policy
\* that the caller passed for the parse: it is not compared with the session's, and
\* it let the parse through, so its second check does not refuse.
CommitQuarantineImport(c) ==
    /\ call[c].pc = "commit"
    /\ \/ Refused("PolicyDenied") /\ Return(c)
       \/ /\ Readable
          /\ ~within_limit(Len(state.entries), Len(call[c].incoming))
          /\ Store(state.entries, "PayloadTooLarge")
          /\ Return(c)
       \/ /\ Readable
          /\ allow_exposure(call[c].policy)
          /\ within_limit(Len(state.entries), Len(call[c].incoming))
          /\ Store(state.entries \o call[c].incoming, "Ok")
          /\ call' = [call EXCEPT ![c].pc = "count"]
    /\ UNCHANGED next_id

\* The total of the report is read in a lock of its own, which finds the vault
\* locked when the timer was faster; the entries stay committed.
ReportTotal(c) ==
    /\ call[c].pc = "count"
    /\ \/ Refused("PolicyDenied")
       \/ Readable /\ result' = "Ok" /\ UNCHANGED state
    /\ Return(c)
    /\ UNCHANGED next_id

----------------------------------------------------------------------------
Crud(c) ==
    \/ \E id \in Identifiers : \E e \in Constructed(id) : add_entry(c, e)
    \/ \E id \in 1..next_id : \E new \in IF KeepIds THEN {id} ELSE Identifiers :
         \E e \in Constructed(new) : update_entry(c, id, e)
    \/ \E id \in 1..next_id, u \in Updates : update_entry_fields(c, id, u)
    \/ \E id \in 1..next_id : delete_entry(c, id)

Import(c) ==
    \/ \E policy \in Supplied, lines \in Exports : ImportToQuarantine(c, policy, lines)
    \/ CommitQuarantineImport(c)
    \/ ReportTotal(c)

Next ==
    \/ Lock
    \/ \E c \in Callers :
         \/ \E policy \in Policies, entries \in Payloads : Unlock(c, policy, entries)
         \/ Crud(c)
         \/ Import(c)

Spec == Init /\ [][Next]_vars

----------------------------------------------------------------------------
(* Properties.                                                             *)

Results ==
    {"none", "Ok", "VaultLocked", "DuplicateEntry", "EntryNotFound", "Invalid",
     "PolicyDenied", "PayloadTooLarge"}

\* Every variable has its type: in particular no text that a validator rejects
\* gets into the payload, and every identifier in it was drawn.
TypeOK ==
    /\ state # Locked =>
         /\ state \in Session
         /\ \A i \in DOMAIN state.entries : state.entries[i].id <= next_id
    /\ next_id \in 0..MaxId
    /\ result \in Results
    /\ call \in [Callers -> ImportCall]

\* Whatever sequence of CRUD operations and imports ran before, an operation
\* that returns Ok leaves a payload that decodes again (with_unlocked_payload_mut
\* encodes without checking, Deserialize of VaultEntry checks).
OkLeavesReadable == [][result' = "Ok" => Readable']_vars

\* "Keep both fields in sync" (apply_update) and the mirror of new_totp: in a
\* payload that decodes, a TOTP entry's primary secret is its block's secret.
SecretMirrorsTotp ==
    Readable => \A i \in DOMAIN state.entries : InSync(state.entries[i])

\* "Stable unique identifier" (EntryMetadata.id): no two entries share one.
UniqueIds == state # Locked => DistinctIds(state.entries)

\* A payload that does not decode is never overwritten by an operation that
\* could not read it: it stays until the session ends or is replaced.
UnreadableIsKept ==
    [][state # Locked /\ ~Readable =>
          UNCHANGED state \/ state' = Locked \/ result' = "none"]_vars

\* "Invalid field updates must be rejected and must not corrupt the stored
\* entry" (crud_test.rs): an open session's payload always decodes.
PayloadStaysReadable == state # Locked => Readable

\* "In-session flows should derive policy from the manager-owned session state
\* instead of trusting callers" (core/policy.rs), "Denied in decoy mode (policy)",
\* "Denied under restrictive runtime policy" (core/import.rs): what is committed
\* goes into a session that allows it.
ImportAllowedBySession ==
    [][\A c \in Callers :
         call[c].pc = "commit" /\ call'[c].pc = "count" =>
            state.policy.outcome = "Primary" /\ state.policy.runtime_state = "NotDebugged"]_vars
=============================================================================
