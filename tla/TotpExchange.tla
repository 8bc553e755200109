---------------------------- MODULE TotpExchange ----------------------------
(***************************************************************************)
(* A TOTP entry, its otpauth URI and the copy another device makes of it:  *)
(* otpauth/export.rs, otpauth/totp.rs, totp/decode.rs and totp/engine.rs.  *)
(*                                                                         *)
(* A text is the sequence of its words between colons, so that the split   *)
(* of a label is Head and Tail; the empty text is <<"">>.  Percent-        *)
(* encoding is undone by the parser and left out, as are outer blanks.  A  *)
(* Base32 string is its length, its padding and the bytes it stands for.   *)
(* The HMAC is external: a code is the tuple of what it is computed from,  *)
(* and two codes are equal only when these are.                            *)
(***************************************************************************)
EXTENDS Integers, Sequences, SessionPolicy

CONSTANTS
    Titles,     \* titles of entries
    Secrets,    \* Base32 strings, as the section on secrets describes them
    Totps,      \* TOTP parameters that entries may have
    Uris,       \* URIs from elsewhere
    Times,      \* unix times
    Policies,   \* the session policies of an import
    Ascii,      \* words with an ASCII letter or digit
    OtherScript,\* words with a Cyrillic or Greek letter
    Forbidden,  \* words with control, bidi or zero-width characters
    None        \* Option::None

ASSUME TimesAreNatural == Times \subseteq Nat

ASSUME SecretAssumption ==
    /\ \A s \in Secrets : /\ DOMAIN s = {"key", "chars", "pads", "inner", "alphabet"}
                          /\ s.chars \in Nat /\ s.pads \in Nat
    /\ \A t \in Totps : t.secret \in Secrets
    /\ \A u \in Uris : u.query.secret \in Seq(Secrets)

Text == Seq(STRING)
Algorithm == {"SHA1", "SHA256", "SHA512"}

ASSUME TextAssumption ==
    /\ None \notin Text
    /\ Titles \subseteq Text
    /\ \A t \in Totps : /\ t.issuer \in Text \cup {None}
                        /\ t.account \in Text \cup {None}
                        /\ t.algorithm \in Algorithm
    /\ \A u \in Uris : /\ u.label \in Text
                       /\ u.query.issuer \in Seq(Text)
                       /\ u.query.algorithm \in Text

VARIABLES
    entry,   \* the entry: its title and TotpSecret
    uri,     \* the exported URI
    copy,    \* the entry that another device parsed from it
    issued   \* the last code the entry generated, and when

vars == <<entry, uri, copy, issued>>

Init == entry = None /\ uri = None /\ copy = None /\ issued = None

----------------------------------------------------------------------------
(* Texts                                                                   *)

Words(text) == {text[i] : i \in 1..Len(text)}

\* validate_title and validate_username; the limits on lengths are left out.
validate_title(text) == text # <<"">> /\ Words(text) \cap Forbidden = {}

reject_script_mixing(text) ==
    ~ (Words(text) \cap Ascii # {} /\ Words(text) \cap OtherScript # {})

\* What the parser asks of a displayed text.
displayable(text) == validate_title(text) /\ reject_script_mixing(text)

Option(text) == IF text = <<"">> THEN None ELSE text

\* split_label: at the first colon.
split_label(label) ==
    IF Len(label) > 1
      THEN [issuer |-> Option(<<Head(label)>>), account |-> Option(Tail(label)),
            title |-> IF Head(label) # "" THEN <<Head(label)>> ELSE label]
      ELSE [issuer |-> None, account |-> None, title |-> label]

----------------------------------------------------------------------------
(* Secrets.  chars: the length without trailing padding; pads: the trailing *)
(* '='; inner: there is a '=' before; alphabet: only A-Z, 2-7 and '='.      *)

MAX_SECRET_B32_LEN == 1024
MIN_SECRET_RAW_LEN == 16

\* TotpSecret::validate
validate(totp) ==
    /\ totp.digits \in 6..8
    /\ totp.period \in 10..120
    /\ totp.secret.chars + totp.secret.pads \in 1..MAX_SECRET_B32_LEN
    /\ totp.secret.alphabet

\* decode_base32_secret_strict succeeds.
decodes(secret) ==
    /\ secret.chars + secret.pads \in 1..MAX_SECRET_B32_LEN
    /\ secret.alphabet /\ ~secret.inner
    /\ secret.chars > 0
    /\ secret.chars % 8 \in {0, 2, 4, 5, 7}
    /\ secret.pads > 0 => (secret.chars + secret.pads) % 8 = 0 /\ secret.pads < 8
    /\ (secret.chars * 5) \div 8 >= MIN_SECRET_RAW_LEN

\* canonicalize_base32_for_export, of a valid secret; None is its error.
canonicalize(secret) == IF secret.chars = 0 THEN None ELSE [secret EXCEPT !.pads = 0]

----------------------------------------------------------------------------
(* totp/engine.rs                                                          *)

MAX_WINDOW == 10

generates(totp) == validate(totp) /\ decodes(totp.secret)

\* The truncated HMAC of a counter.
hotp(totp, counter) ==
    [key |-> totp.secret.key, algorithm |-> totp.algorithm, counter |-> counter,
     digits |-> totp.digits]

totp_generate(totp, time) ==
    IF generates(totp) THEN hotp(totp, time \div totp.period) ELSE None

saturating_sub(a, b) == IF a >= b THEN a - b ELSE 0

\* Mutant: the loop ends one step early.
window_counters_half_open(base, window) ==
    {IF i < window THEN saturating_sub(base, window - i) ELSE base + (i - window) :
       i \in 0..(2 * window - 1)}

\* The counters of the loop of totp_verify.
window_counters(base, window) ==
    {IF i < window THEN saturating_sub(base, window - i) ELSE base + (i - window) :
       i \in 0..(2 * window)}

totp_verify(totp, time, code, window) ==
    IF ~generates(totp) \/ window > MAX_WINDOW THEN "Error"
    ELSE IF \E c \in window_counters(time \div totp.period, window) : hotp(totp, c) = code
      THEN "Match" ELSE "Mismatch"

----------------------------------------------------------------------------
(* URIs: the label, and per key of the query the values in their order.    *)
(* The order between keys makes no difference to the parser.               *)

MAX_QUERY_PAIRS == 64

Pairs(q) ==
    Len(q.secret) + Len(q.issuer) + Len(q.algorithm) + Len(q.digits) + Len(q.period) + q.other

Single(value) == IF value = None THEN <<>> ELSE <<value>>

\* Mutant: the period is left out, readers assume 30 s.
export_query_without_period(totp) ==
    [secret |-> <<canonicalize(totp.secret)>>, algorithm |-> <<totp.algorithm>>,
     digits |-> <<totp.digits>>, period |-> <<>>, issuer |-> Single(totp.issuer), other |-> 0]

export_query(totp) ==
    [secret |-> <<canonicalize(totp.secret)>>, algorithm |-> <<totp.algorithm>>,
     digits |-> <<totp.digits>>, period |-> <<totp.period>>, issuer |-> Single(totp.issuer),
     other |-> 0]

export_label(title, totp) ==
    IF totp.issuer # None /\ totp.account # None THEN totp.issuer \o totp.account ELSE title

exports(totp) == validate(totp) /\ canonicalize(totp.secret) # None

export_totp_otpauth_uri(title, totp) ==
    [totp |-> TRUE, label |-> export_label(title, totp), query |-> export_query(totp)]

\* The last value of a key, or the default.
Param(values, default) == IF values = <<>> THEN default ELSE values[Len(values)]

parsed_totp(u) ==
    LET q == u.query label == split_label(u.label) IN
    [issuer |-> IF q.issuer = <<>> THEN label.issuer ELSE Param(q.issuer, None),
     account |-> label.account, secret |-> Param(q.secret, None),
     digits |-> Param(q.digits, 6), period |-> Param(q.period, 30),
     algorithm |-> Param(q.algorithm, "SHA1")]

\* parse_totp_otpauth_uri succeeds.  totp: scheme and host are the expected
\* ones; a value outside its type (a u8, a u32, an algorithm) ends the parse
\* wherever it stands.
parses(policy, u) ==
    /\ allow_exposure(policy)
    /\ u.totp /\ u.label # <<"">>
    /\ Pairs(u.query) <= MAX_QUERY_PAIRS
    /\ Words(u.query.algorithm) \subseteq Algorithm
    /\ Words(u.query.digits) \subseteq 0..255
    /\ Words(u.query.period) \subseteq Nat
    /\ u.query.secret # <<>>
    /\ displayable(split_label(u.label).title)
    /\ LET totp == parsed_totp(u) IN
       /\ totp.account # None => displayable(totp.account)
       /\ totp.issuer # None => displayable(totp.issuer)
       /\ validate(totp)

parse_totp_otpauth_uri(u) == [title |-> split_label(u.label).title, totp |-> parsed_totp(u)]

----------------------------------------------------------------------------
\* VaultEntry::new_totp
AddTotp(title, totp) ==
    /\ entry = None
    /\ validate_title(title) /\ validate(totp)
    /\ entry' = [title |-> title, totp |-> totp]
    /\ UNCHANGED <<uri, copy, issued>>

\* An entry made from a URI that another program wrote.
ReceiveUri(policy, u) ==
    /\ entry = None
    /\ parses(policy, u)
    /\ entry' = parse_totp_otpauth_uri(u)
    /\ UNCHANGED <<uri, copy, issued>>

Export ==
    /\ entry # None /\ uri = None
    /\ exports(entry.totp)
    /\ uri' = export_totp_otpauth_uri(entry.title, entry.totp)
    /\ UNCHANGED <<entry, copy, issued>>

ImportCopy(policy) ==
    /\ uri # None /\ copy = None
    /\ parses(policy, uri)
    /\ copy' = parse_totp_otpauth_uri(uri)
    /\ UNCHANGED <<entry, uri, issued>>

\* totp_generate_formatted, as totp_generate_and_copy_to_clipboard calls it.
Issue(time) ==
    /\ entry # None
    /\ totp_generate(entry.totp, time) # None
    /\ issued' = [code |-> totp_generate(entry.totp, time), time |-> time]
    /\ UNCHANGED <<entry, uri, copy>>

Next ==
    \/ \E title \in Titles, totp \in Totps : AddTotp(title, totp)
    \/ \E p \in Policies, u \in Uris : ReceiveUri(p, u)
    \/ Export
    \/ \E p \in Policies : ImportCopy(p)
    \/ \E t \in Times : Issue(t)

Spec == Init /\ [][Next]_vars

----------------------------------------------------------------------------
(* Properties                                                              *)

Distance(a, b) == IF a >= b THEN a - b ELSE b - a

Holders == {h \in {entry, copy} : h # None}

\* Displayed texts that the exchange can carry: no colon, nothing the parser
\* refuses.
Plain(e) ==
    \A text \in {e.title, e.totp.issuer, e.totp.account} \ {None} : Len(text) = 1 /\ displayable(text)

\* A code is accepted, by the device that issued it and by one that has a copy of
\* the entry, exactly when the periods of issue and verification are at most the
\* window apart: the saturated counters near time zero add and lose nothing.
VerifyIsWindow ==
    issued # None =>
      \A h \in Holders, t \in Times, w \in 0..(MAX_WINDOW + 1) :
         totp_verify(h.totp, t, issued.code, w) =
           IF w > MAX_WINDOW THEN "Error"
           ELSE IF Distance(t \div entry.totp.period, issued.time \div entry.totp.period) <= w
             THEN "Match" ELSE "Mismatch"

\* "Exported URIs must roundtrip back into semantically equivalent TOTP data"
\* (otpauth_test.rs:323): the URI of an entry with plain texts parses, and the copy
\* has its issuer, its account where there is an issuer, and generates its code
\* whenever the entry does.
CopiesAgree ==
    uri # None /\ Plain(entry) =>
      LET c == parse_totp_otpauth_uri(uri) IN
      /\ \A p \in Policies : allow_exposure(p) => parses(p, uri)
      /\ c.totp.issuer = entry.totp.issuer
      /\ entry.totp.issuer # None => c.totp.account = entry.totp.account
      /\ \A t \in Times : generates(entry.totp) =>
           totp_generate(c.totp, t) = totp_generate(entry.totp, t)
============================================================================
