----------------------------- MODULE TotpProofs -----------------------------
(***************************************************************************)
(* Proofs about TotpExchange, for every set of titles, parameters, URIs    *)
(* and times.                                                              *)
(***************************************************************************)
EXTENDS TotpExchange, SequenceTheorems, TLAPS

----------------------------------------------------------------------------
(* The verification window                                                 *)

\* The counters of the loop are those at most the window away: what saturates at
\* zero is inside already, and nothing is skipped.
LEMMA WindowCounters ==
    ASSUME NEW base \in Nat, NEW window \in Nat, NEW c \in Nat
    PROVE  c \in window_counters(base, window) <=> Distance(base, c) <= window
<1>. DEFINE counter(i) ==
              IF i < window THEN saturating_sub(base, window - i) ELSE base + (i - window)
<1>1. ASSUME NEW i \in 0..(2 * window), c = counter(i) PROVE Distance(base, c) <= window
  BY <1>1 DEF Distance, saturating_sub
<1>2. ASSUME Distance(base, c) <= window PROVE \E i \in 0..(2 * window) : c = counter(i)
  <2>1. CASE c < base
    <3>. DEFINE i == window - (base - c)
    <3>1. i \in 0..(2 * window) /\ i < window /\ window - i = base - c
      BY <1>2, <2>1 DEF Distance
    <3>2. saturating_sub(base, base - c) = c
      BY <2>1 DEF saturating_sub
    <3>. QED BY <3>1, <3>2
  <2>2. CASE c >= base
    <3>. DEFINE i == window + (c - base)
    <3>1. i \in 0..(2 * window) /\ ~ (i < window) /\ base + (i - window) = c
      BY <1>2, <2>2 DEF Distance
    <3>. QED BY <3>1
  <2>. QED BY <2>1, <2>2
<1>. QED BY <1>1, <1>2 DEF window_counters

\* A code stands for its counter, for the parameters that generated it.
LEMMA CodeIsCounter ==
    ASSUME NEW totp, NEW other, NEW c, NEW d,
           other.secret.key = totp.secret.key, other.algorithm = totp.algorithm,
           other.digits = totp.digits
    PROVE  hotp(other, c) = hotp(totp, d) <=> c = d
<1>1. hotp(totp, d).counter = d /\ hotp(other, c).counter = c
  BY DEF hotp
<1>2. c = d => hotp(other, c) = hotp(totp, d)
  BY DEF hotp
<1>. QED BY <1>1, <1>2

\* The same, for a device with the same parameters.
SameTotp(other, totp) ==
    /\ generates(other)
    /\ other.secret.key = totp.secret.key
    /\ other.algorithm = totp.algorithm
    /\ other.digits = totp.digits
    /\ other.period = totp.period

LEMMA VerifyWindow ==
    ASSUME NEW totp, NEW other, SameTotp(other, totp), NEW t \in Nat, NEW s \in Nat,
           NEW w \in 0..(MAX_WINDOW + 1)
    PROVE  totp_verify(other, t, hotp(totp, s \div totp.period), w) =
             IF w > MAX_WINDOW THEN "Error"
             ELSE IF Distance(t \div totp.period, s \div totp.period) <= w
               THEN "Match" ELSE "Mismatch"
<1>1. totp.period \in 10..120
  BY DEF SameTotp, generates, validate
<1>. DEFINE a == t \div totp.period
            b == s \div totp.period
<1>2. a \in Nat /\ b \in Nat
  BY <1>1
<1>3. t \div other.period = a
  BY DEF SameTotp
<1>4. \A c : hotp(other, c) = hotp(totp, b) <=> c = b
  BY CodeIsCounter DEF SameTotp
<1>5. w \in Nat
  BY DEF MAX_WINDOW
<1>. HIDE DEF a, b
<1>6. (\E c \in window_counters(a, w) : hotp(other, c) = hotp(totp, b)) <=> Distance(a, b) <= w
  BY <1>2, <1>4, <1>5, WindowCounters
<1>7. generates(other)
  BY DEF SameTotp
<1>8. totp_verify(other, t, hotp(totp, b), w) =
        IF w > MAX_WINDOW THEN "Error" ELSE IF Distance(a, b) <= w THEN "Match" ELSE "Mismatch"
  BY <1>3, <1>6, <1>7 DEF totp_verify
<1>. QED BY <1>8 DEF a, b

----------------------------------------------------------------------------
(* Where the three values come from                                        *)

IsSecret(s) ==
    /\ DOMAIN s = {"key", "chars", "pads", "inner", "alphabet"}
    /\ s.chars \in Nat /\ s.pads \in Nat

TotpInv ==
    /\ entry = None => uri = None /\ copy = None /\ issued = None
    /\ issued # None =>
         /\ issued.time \in Times
         /\ generates(entry.totp)
         /\ issued.code = hotp(entry.totp, issued.time \div entry.totp.period)
    /\ entry # None => IsSecret(entry.totp.secret)
    /\ uri # None => uri = export_totp_otpauth_uri(entry.title, entry.totp)
    /\ copy # None => uri # None /\ copy = parse_totp_otpauth_uri(uri)

\* The entry has texts and an algorithm, whether a caller or a URI gave them.
TypedEntry ==
    /\ entry.title \in Text
    /\ entry.totp.issuer \in Text \cup {None}
    /\ entry.totp.account \in Text \cup {None}
    /\ entry.totp.algorithm \in Algorithm

TextInv ==
    /\ entry # None => TypedEntry
    /\ uri # None => entry # None /\ exports(entry.totp)

LEMMA TotpInit == Init => TotpInv
  BY DEF Init, TotpInv

LEMMA TotpStep == TotpInv /\ [Next]_vars => TotpInv'
<1>. SUFFICES ASSUME TotpInv, [Next]_vars PROVE TotpInv'
  OBVIOUS
<1>1. CASE UNCHANGED vars
  BY <1>1 DEF vars, TotpInv
<1>2. ASSUME NEW title, NEW totp \in Totps, AddTotp(title, totp) PROVE TotpInv'
  <2>1. entry' = [title |-> title, totp |-> totp] /\ IsSecret(totp.secret)
    BY <1>2, SecretAssumption DEF AddTotp, IsSecret
  <2>2. IsSecret(entry'.totp.secret)
    BY <2>1
  <2>. QED BY <1>2, <2>2 DEF AddTotp, TotpInv
<1>3. ASSUME NEW p, NEW u \in Uris, ReceiveUri(p, u) PROVE TotpInv'
  <2>1. u.query.secret # <<>> /\ u.query.secret \in Seq(Secrets)
    BY <1>3, SecretAssumption DEF ReceiveUri, parses
  <2>2. Param(u.query.secret, None) \in Secrets
    BY <2>1 DEF Param
  <2>3. parsed_totp(u).secret = Param(u.query.secret, None)
    BY DEF parsed_totp
  <2>4. entry'.totp = parsed_totp(u)
    BY <1>3 DEF ReceiveUri, parse_totp_otpauth_uri
  <2>5. IsSecret(entry'.totp.secret)
    BY <2>2, <2>3, <2>4, SecretAssumption DEF IsSecret
  <2>. QED BY <1>3, <2>5 DEF ReceiveUri, TotpInv
<1>4. CASE Export
  BY <1>4 DEF Export, TotpInv
<1>5. ASSUME NEW p, ImportCopy(p) PROVE TotpInv'
  BY <1>5 DEF ImportCopy, TotpInv
<1>6. ASSUME NEW t \in Times, Issue(t) PROVE TotpInv'
  <2>1. /\ generates(entry.totp)
        /\ issued' = [code |-> hotp(entry.totp, t \div entry.totp.period), time |-> t]
    BY <1>6 DEF Issue, totp_generate
  <2>2. UNCHANGED <<entry, uri, copy>> /\ entry # None
    BY <1>6 DEF Issue
  <2>3. issued'.time = t /\ issued'.code = hotp(entry.totp, t \div entry.totp.period)
    BY <2>1
  <2>. QED BY <2>1, <2>2, <2>3 DEF TotpInv
<1>. QED BY <1>1, <1>2, <1>3, <1>4, <1>5, <1>6 DEF Next

\* What the exporter writes and the parser reads back keeps all that a code
\* depends on; the secret only loses its padding.
LEMMA CopyIsSame ==
    ASSUME NEW title, NEW totp, generates(totp), IsSecret(totp.secret)
    PROVE  SameTotp(parse_totp_otpauth_uri(export_totp_otpauth_uri(title, totp)).totp, totp)
<1>. DEFINE u == export_totp_otpauth_uri(title, totp)
            c == parsed_totp(u)
            secret == [totp.secret EXCEPT !.pads = 0]
<1>1. /\ totp.digits \in 6..8 /\ totp.period \in 10..120
      /\ totp.secret.chars > 0
  BY DEF generates, validate, decodes
<1>2. canonicalize(totp.secret) = secret
  BY DEF generates, decodes, canonicalize
<1>3. /\ u.query.secret = <<secret>> /\ u.query.digits = <<totp.digits>>
      /\ u.query.period = <<totp.period>> /\ u.query.algorithm = <<totp.algorithm>>
  BY <1>2 DEF export_totp_otpauth_uri, export_query
<1>. HIDE DEF u, secret
<1>4. \A x, d : Param(<<x>>, d) = x
  BY DEF Param
<1>5. /\ c.secret = secret /\ c.digits = totp.digits /\ c.period = totp.period
      /\ c.algorithm = totp.algorithm
  BY <1>3, <1>4 DEF parsed_totp
<1>6. parse_totp_otpauth_uri(u).totp = c
  BY DEF parse_totp_otpauth_uri
<1>. HIDE DEF c
<1>7. /\ secret.chars = totp.secret.chars /\ secret.pads = 0
      /\ secret.key = totp.secret.key
      /\ secret.inner = totp.secret.inner /\ secret.alphabet = totp.secret.alphabet
  BY DEF secret, IsSecret
<1>8. /\ totp.secret.alphabet /\ ~totp.secret.inner
      /\ totp.secret.chars % 8 \in {0, 2, 4, 5, 7}
      /\ (totp.secret.chars * 5) \div 8 >= MIN_SECRET_RAW_LEN
      /\ totp.secret.chars + totp.secret.pads \in 1..MAX_SECRET_B32_LEN
  BY DEF generates, decodes
<1>9. totp.secret.chars + 0 \in 1..MAX_SECRET_B32_LEN
  <2>1. totp.secret.chars \in Nat /\ totp.secret.pads \in Nat
    BY DEF IsSecret
  <2>2. \A a, b \in Nat : a > 0 /\ a + b \in 1..1024 => a + 0 \in 1..1024
    OBVIOUS
  <2>3. totp.secret.chars + totp.secret.pads \in 1..1024
    BY <1>8 DEF MAX_SECRET_B32_LEN
  <2>4. totp.secret.chars + 0 \in 1..1024
    BY <1>1, <2>1, <2>2, <2>3, ZenonT(40)
  <2>. QED BY <2>4 DEF MAX_SECRET_B32_LEN
<1>10. decodes(c.secret)
  BY <1>1, <1>5, <1>7, <1>8, <1>9 DEF decodes
<1>11. validate(c)
  BY <1>1, <1>5, <1>7, <1>8, <1>9 DEF validate
<1>12. SameTotp(c, totp)
  BY <1>5, <1>7, <1>10, <1>11 DEF SameTotp, generates
<1>. QED BY <1>6, <1>12 DEF u

\* A code is accepted, by the device that issued it and by one that has a copy of
\* the entry, exactly inside the window around the period of its issue, from time
\* zero on.
THEOREM WindowIsExact == Spec => []VerifyIsWindow
<1>1. TotpInv => VerifyIsWindow
  <2>. SUFFICES ASSUME TotpInv, issued # None, NEW h \in Holders, NEW t \in Times,
                       NEW w \in 0..(MAX_WINDOW + 1)
                PROVE  totp_verify(h.totp, t, issued.code, w) =
                         IF w > MAX_WINDOW THEN "Error"
                         ELSE IF Distance(t \div entry.totp.period,
                                          issued.time \div entry.totp.period) <= w
                           THEN "Match" ELSE "Mismatch"
    BY DEF VerifyIsWindow
  <2>1. /\ issued.time \in Nat /\ t \in Nat
        /\ entry # None /\ generates(entry.totp) /\ IsSecret(entry.totp.secret)
        /\ issued.code = hotp(entry.totp, issued.time \div entry.totp.period)
    BY TimesAreNatural DEF TotpInv
  <2>2. SameTotp(h.totp, entry.totp)
    <3>1. CASE h = entry
      BY <2>1, <3>1 DEF SameTotp
    <3>2. CASE h = copy /\ copy # None
      BY <2>1, <3>2, CopyIsSame DEF TotpInv
    <3>. QED BY <3>1, <3>2 DEF Holders
  <2>. QED BY <2>1, <2>2, VerifyWindow
<1>. QED BY <1>1, TotpInit, TotpStep, PTL DEF Spec

----------------------------------------------------------------------------
(* The round trip of a URI                                                 *)

LEMMA OptionText ==
    ASSUME NEW text \in Text
    PROVE  Option(text) \in Text \cup {None}
  BY DEF Option

LEMMA SplitTexts ==
    ASSUME NEW label \in Text
    PROVE  /\ split_label(label).title \in Text
           /\ split_label(label).issuer \in Text \cup {None}
           /\ split_label(label).account \in Text \cup {None}
<1>1. CASE Len(label) > 1
  <2>1. label # <<>> /\ Head(label) \in STRING /\ Tail(label) \in Text /\ <<Head(label)>> \in Text
    BY <1>1 DEF Text
  <2>2. Option(<<Head(label)>>) \in Text \cup {None} /\ Option(Tail(label)) \in Text \cup {None}
    BY <2>1, OptionText
  <2>. QED BY <1>1, <2>1, <2>2 DEF split_label
<1>2. CASE ~ (Len(label) > 1)
  BY <1>2 DEF split_label
<1>. QED BY <1>1, <1>2

LEMMA TextInit == Init => TextInv
  BY DEF Init, TextInv

LEMMA TextStep == TotpInv /\ TextInv /\ [Next]_vars => TextInv'
<1>. SUFFICES ASSUME TotpInv, TextInv, [Next]_vars PROVE TextInv'
  OBVIOUS
<1>1. CASE UNCHANGED vars
  BY <1>1 DEF vars, TextInv, TypedEntry
<1>2. ASSUME NEW title \in Titles, NEW totp \in Totps, AddTotp(title, totp) PROVE TextInv'
  <2>1. entry'.title = title /\ entry'.totp = totp /\ uri' = uri /\ entry = None
    BY <1>2 DEF AddTotp
  <2>2. TypedEntry'
    BY <2>1, TextAssumption DEF TypedEntry
  <2>. QED BY <2>1, <2>2 DEF TextInv, TotpInv
<1>3. ASSUME NEW p, NEW u \in Uris, ReceiveUri(p, u) PROVE TextInv'
  <2>. DEFINE q == u.query
              label == split_label(u.label)
  <2>1. /\ entry' = parse_totp_otpauth_uri(u) /\ uri' = uri /\ entry = None
        /\ Words(q.algorithm) \subseteq Algorithm
    BY <1>3 DEF ReceiveUri, parses
  <2>2. /\ label.title \in Text
        /\ label.issuer \in Text \cup {None} /\ label.account \in Text \cup {None}
    BY SplitTexts, TextAssumption
  <2>3. q.issuer # <<>> => Param(q.issuer, None) \in Text
    BY TextAssumption DEF Param
  <2>4. Param(q.algorithm, "SHA1") \in Algorithm
    <3>1. q.algorithm \in Seq(STRING)
      BY TextAssumption DEF Text
    <3>2. q.algorithm # <<>> => q.algorithm[Len(q.algorithm)] \in Words(q.algorithm)
      BY <3>1 DEF Words
    <3>. QED BY <2>1, <3>2 DEF Param, Algorithm
  <2>. HIDE DEF q, label
  <2>5. /\ entry'.title = label.title
        /\ entry'.totp.issuer = IF q.issuer = <<>> THEN label.issuer ELSE Param(q.issuer, None)
        /\ entry'.totp.account = label.account
        /\ entry'.totp.algorithm = Param(q.algorithm, "SHA1")
    BY <2>1 DEF parse_totp_otpauth_uri, parsed_totp, q, label
  <2>6. TypedEntry'
    BY <2>2, <2>3, <2>4, <2>5 DEF TypedEntry
  <2>. QED BY <2>1, <2>6 DEF TextInv, TotpInv
<1>4. CASE Export
  BY <1>4 DEF Export, TextInv, TypedEntry
<1>5. ASSUME NEW p, ImportCopy(p) PROVE TextInv'
  BY <1>5 DEF ImportCopy, TextInv, TypedEntry
<1>6. ASSUME NEW t, Issue(t) PROVE TextInv'
  BY <1>6 DEF Issue, TextInv, TypedEntry
<1>. QED BY <1>1, <1>2, <1>3, <1>4, <1>5, <1>6 DEF Next

\* A text without a colon is one word, and the parser shows it as it is.
LEMMA OneWord ==
    ASSUME NEW text \in Text, Len(text) = 1, displayable(text)
    PROVE  /\ text # <<"">>
           /\ \E w \in STRING : w # "" /\ text = <<w>>
<1>1. text # <<"">>
  BY DEF displayable, validate_title
<1>2. text[1] \in STRING /\ text = <<text[1]>>
  BY DEF Text
<1>. QED BY <1>1, <1>2

LEMMA TwoWords ==
    ASSUME NEW S, NEW i \in S, NEW a \in S
    PROVE  /\ Len(<<i>> \o <<a>>) = 2
           /\ Head(<<i>> \o <<a>>) = i /\ Tail(<<i>> \o <<a>>) = <<a>>
<1>1. (<<i>> \o <<a>>) \in Seq(S) /\ Len(<<i>> \o <<a>>) = 2
  OBVIOUS
<1>2. (<<i>> \o <<a>>)[1] = i /\ (<<i>> \o <<a>>)[2] = a
  OBVIOUS
<1>3. <<i, a>> \in Seq(S) /\ Len(<<i, a>>) = 2 /\ <<i, a>>[1] = i /\ <<i, a>>[2] = a
  OBVIOUS
<1>4. \A k \in 1..2 : (<<i>> \o <<a>>)[k] = <<i, a>>[k]
  BY <1>2, <1>3
<1>5. <<i>> \o <<a>> = <<i, a>>
  BY <1>1, <1>3, <1>4, SeqEqual
<1>6. Len(<<i, a>>) = 2 /\ Head(<<i, a>>) = i /\ Tail(<<i, a>>) = <<a>>
  OBVIOUS
<1>. QED BY <1>5, <1>6

\* The label that the exporter writes, as the parser splits it.
LEMMA LabelSplits ==
    ASSUME entry # None, TypedEntry, Plain(entry)
    PROVE  LET label == export_label(entry.title, entry.totp)
               s == split_label(label)
           IN  /\ label # <<"">> /\ displayable(s.title)
               /\ s.account # None => displayable(s.account)
               /\ entry.totp.issuer = None => s.issuer = None
               /\ entry.totp.issuer # None => s.account = entry.totp.account
<1>. DEFINE issuer == entry.totp.issuer
            account == entry.totp.account
            label == export_label(entry.title, entry.totp)
            s == split_label(label)
<1>1. CASE issuer # None /\ account # None
  <2>1. /\ issuer \in Text /\ Len(issuer) = 1 /\ displayable(issuer)
        /\ account \in Text /\ Len(account) = 1 /\ displayable(account)
    BY <1>1 DEF TypedEntry, Plain
  <2>2. PICK i \in STRING : i # "" /\ issuer = <<i>>
    BY <2>1, OneWord
  <2>3. PICK a \in STRING : a # "" /\ account = <<a>>
    BY <2>1, OneWord
  <2>4. label = issuer \o account
    BY <1>1 DEF export_label
  <2>. HIDE DEF label, issuer, account
  <2>6. Len(label) > 1 /\ Head(label) = i /\ Tail(label) = account /\ label # <<"">>
    <3>1. Len(label) = 2 /\ Head(label) = i /\ Tail(label) = account
      BY <2>2, <2>3, <2>4, TwoWords
    <3>2. \A n : n = 2 => n > 1 /\ n # 1
      OBVIOUS
    <3>3. ASSUME label = <<"">> PROVE FALSE
      <4>1. Len(label) = 1
        BY <3>3
      <4>. QED BY <3>1, <3>2, <4>1
    <3>. QED BY <3>1, <3>2, <3>3
  <2>7. Option(account) = account
    BY <2>1, OneWord DEF Option
  <2>8. s.title = issuer /\ s.account = account
    BY <2>2, <2>6, <2>7 DEF split_label
  <2>. QED BY <1>1, <2>1, <2>6, <2>8 DEF issuer, account, label
<1>2. CASE ~ (issuer # None /\ account # None)
  <2>1. label = entry.title
    BY <1>2 DEF export_label
  <2>2. entry.title \in Text /\ Len(entry.title) = 1 /\ displayable(entry.title)
    BY TextAssumption DEF TypedEntry, Plain
  <2>3. label # <<"">>
    BY <2>1, <2>2, OneWord
  <2>4. s.issuer = None /\ s.account = None /\ s.title = label
    BY <2>1, <2>2 DEF split_label
  <2>. QED BY <1>2, <2>1, <2>2, <2>3, <2>4
<1>. QED BY <1>1, <1>2

\* What the parser makes of the other parameters of an exported URI.
LEMMA ExportParses ==
    ASSUME NEW title, NEW totp, exports(totp), IsSecret(totp.secret), totp.algorithm \in Algorithm
    PROVE  LET u == export_totp_otpauth_uri(title, totp) IN
           /\ Pairs(u.query) <= MAX_QUERY_PAIRS
           /\ Words(u.query.algorithm) \subseteq Algorithm
           /\ Words(u.query.digits) \subseteq 0..255
           /\ Words(u.query.period) \subseteq Nat
           /\ u.query.secret # <<>>
           /\ validate(parsed_totp(u))
<1>. DEFINE u == export_totp_otpauth_uri(title, totp)
            q == u.query
            c == parsed_totp(u)
            secret == canonicalize(totp.secret)
<1>1. /\ totp.digits \in 6..8 /\ totp.period \in 10..120 /\ totp.secret.alphabet
      /\ totp.secret.chars + totp.secret.pads \in 1..MAX_SECRET_B32_LEN
      /\ totp.secret.chars # 0 /\ totp.secret.chars \in Nat /\ totp.secret.pads \in Nat
  BY DEF exports, validate, canonicalize, IsSecret
<1>2. /\ secret.chars = totp.secret.chars /\ secret.pads = 0
      /\ secret.alphabet = totp.secret.alphabet
  BY <1>1 DEF canonicalize, IsSecret
<1>3. /\ q.secret = <<secret>> /\ q.digits = <<totp.digits>> /\ q.other = 0
      /\ q.period = <<totp.period>> /\ q.algorithm = <<totp.algorithm>>
      /\ q.issuer = Single(totp.issuer)
  BY DEF export_totp_otpauth_uri, export_query
<1>4. \A x, d : Param(<<x>>, d) = x
  BY DEF Param
<1>5. \A x : Words(<<x>>) = {x} /\ Len(<<x>>) = 1 /\ <<x>> # <<>>
  BY DEF Words
<1>6. Len(Single(totp.issuer)) \in {0, 1}
  BY DEF Single
<1>. HIDE DEF u, q, secret
<1>7. Pairs(q) <= MAX_QUERY_PAIRS
  <2>1. /\ Len(q.secret) = 1 /\ Len(q.algorithm) = 1 /\ Len(q.digits) = 1
        /\ Len(q.period) = 1 /\ Len(q.issuer) \in {0, 1} /\ q.other = 0
    BY <1>3, <1>5, <1>6
  <2>2. CASE Len(q.issuer) = 0
    BY <2>1, <2>2 DEF Pairs, MAX_QUERY_PAIRS
  <2>3. CASE Len(q.issuer) = 1
    BY <2>1, <2>3 DEF Pairs, MAX_QUERY_PAIRS
  <2>. QED BY <2>1, <2>2, <2>3
<1>8. /\ Words(q.algorithm) \subseteq Algorithm /\ Words(q.digits) \subseteq 0..255
      /\ Words(q.period) \subseteq Nat /\ q.secret # <<>>
  BY <1>1, <1>3, <1>5
<1>9. c.secret = secret /\ c.digits = totp.digits /\ c.period = totp.period
  BY <1>3, <1>4 DEF parsed_totp, q
<1>. HIDE DEF c
<1>10. secret.chars + secret.pads \in 1..MAX_SECRET_B32_LEN
  <2>1. \A a, b \in Nat : a # 0 /\ a + b \in 1..1024 => a + 0 \in 1..1024
    OBVIOUS
  <2>2. totp.secret.chars + 0 \in 1..1024
    BY <1>1, <2>1, ZenonT(40) DEF MAX_SECRET_B32_LEN
  <2>. QED BY <1>2, <2>2, SMTT(30) DEF MAX_SECRET_B32_LEN
<1>11. validate(c)
  BY <1>1, <1>2, <1>9, <1>10 DEF validate
<1>. QED BY <1>7, <1>8, <1>11 DEF u, q, c

\* The issuer that the parser takes from an exported URI.
LEMMA IssuerKept ==
    ASSUME NEW title, NEW totp,
           totp.issuer = None => split_label(export_label(title, totp)).issuer = None
    PROVE  parsed_totp(export_totp_otpauth_uri(title, totp)).issuer = totp.issuer
<1>. DEFINE u == export_totp_otpauth_uri(title, totp)
<1>1. u.query.issuer = Single(totp.issuer) /\ u.label = export_label(title, totp)
  BY DEF export_totp_otpauth_uri, export_query
<1>. HIDE DEF u
<1>2. parsed_totp(u).issuer =
        IF u.query.issuer = <<>> THEN split_label(u.label).issuer ELSE Param(u.query.issuer, None)
  BY DEF parsed_totp
<1>3. CASE totp.issuer = None
  BY <1>1, <1>2, <1>3 DEF Single, u
<1>4. CASE totp.issuer # None
  <2>1. u.query.issuer = <<totp.issuer>> /\ <<totp.issuer>> # <<>>
    BY <1>1, <1>4 DEF Single
  <2>2. Param(<<totp.issuer>>, None) = totp.issuer
    BY DEF Param
  <2>. QED BY <1>2, <2>1, <2>2 DEF u
<1>. QED BY <1>3, <1>4

\* The URI of an entry with plain texts parses, and the copy has its issuer, its account
\* where there is an issuer, and its codes.
THEOREM CopiesAreFaithful == Spec => []CopiesAgree
<1>1. TotpInv /\ TextInv => CopiesAgree
  <2>. SUFFICES ASSUME TotpInv, TextInv, uri # None, Plain(entry)
                PROVE  LET c == parse_totp_otpauth_uri(uri) IN
                       /\ \A p \in Policies : allow_exposure(p) => parses(p, uri)
                       /\ c.totp.issuer = entry.totp.issuer
                       /\ entry.totp.issuer # None => c.totp.account = entry.totp.account
                       /\ \A t \in Times : generates(entry.totp) =>
                            totp_generate(c.totp, t) = totp_generate(entry.totp, t)
    BY DEF CopiesAgree
  <2>. DEFINE totp == entry.totp
              c == parsed_totp(uri)
              s == split_label(uri.label)
  <2>1. /\ entry # None /\ TypedEntry /\ exports(totp) /\ IsSecret(totp.secret)
        /\ uri = export_totp_otpauth_uri(entry.title, totp)
        /\ totp.algorithm \in Algorithm
    BY DEF TotpInv, TextInv, TypedEntry
  <2>2. uri.totp = TRUE /\ uri.label = export_label(entry.title, totp)
    BY <2>1 DEF export_totp_otpauth_uri
  <2>3. /\ uri.label # <<"">> /\ displayable(s.title)
        /\ s.account # None => displayable(s.account)
        /\ totp.issuer = None => s.issuer = None
        /\ totp.issuer # None => s.account = totp.account
    BY <2>1, <2>2, LabelSplits
  <2>4. c.issuer = totp.issuer
    <3>1. totp.issuer = None => split_label(export_label(entry.title, totp)).issuer = None
      BY <2>2, <2>3
    <3>2. parsed_totp(export_totp_otpauth_uri(entry.title, totp)).issuer = totp.issuer
      BY <3>1, IssuerKept
    <3>. QED BY <2>1, <3>2
  <2>5. c.account = s.account
    BY DEF parsed_totp
  <2>6. totp.issuer # None => displayable(totp.issuer)
    BY DEF Plain
  <2>7. /\ Pairs(uri.query) <= MAX_QUERY_PAIRS
        /\ Words(uri.query.algorithm) \subseteq Algorithm
        /\ Words(uri.query.digits) \subseteq 0..255
        /\ Words(uri.query.period) \subseteq Nat
        /\ uri.query.secret # <<>>
        /\ validate(c)
    BY <2>1, ExportParses
  <2>8. ASSUME generates(totp), NEW t \in Times
        PROVE  totp_generate(c, t) = totp_generate(totp, t)
    <3>1. SameTotp(c, totp)
      BY <2>1, <2>8, CopyIsSame DEF parse_totp_otpauth_uri
    <3>. QED BY <2>8, <3>1 DEF SameTotp, totp_generate, hotp
  <2>9. parse_totp_otpauth_uri(uri).totp = c
    BY DEF parse_totp_otpauth_uri
  <2>. HIDE DEF c, s
  <2>10. \A p \in Policies : allow_exposure(p) => parses(p, uri)
    BY <2>2, <2>3, <2>4, <2>5, <2>6, <2>7 DEF parses, c, s
  <2>. QED BY <2>3, <2>4, <2>5, <2>8, <2>9, <2>10
<1>. QED BY <1>1, TotpInit, TotpStep, TextInit, TextStep, PTL DEF Spec
=============================================================================
