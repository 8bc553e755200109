------------------------- MODULE VaultEntriesProofs -------------------------
(***************************************************************************)
(* Proofs about VaultEntries, for every payload, policy, export and bound. *)
(***************************************************************************)
EXTENDS VaultEntries, FiniteSetTheorems, SequenceTheorems, WellFoundedInduction, TLAPS

----------------------------------------------------------------------------
(* Induction over data: the least element of a set of natural numbers.     *)

LEMMA LeastNatural ==
    ASSUME NEW S \in SUBSET Nat, S # {}
    PROVE  \E m \in S : \A n \in S : m <= n
<1>. DEFINE R == OpToRel(<, Nat)
<1>1. IsWellFoundedOn(R, Nat)
  BY NatLessThanWellFounded
<1>2. \A x, y \in Nat : y < x => <<y, x>> \in R
  BY DEF OpToRel
<1>. HIDE DEF R
<1>3. PICK x \in S : \A y \in S : ~ (<<y, x>> \in R)
  BY <1>1, WFMin
<1>4. \A y \in S : ~ (y < x)
  BY <1>2, <1>3
<1>5. \A y \in S : x <= y
  BY <1>4
<1>. QED BY <1>5

----------------------------------------------------------------------------
(* Collected: the elements at some positions of a sequence, in order.      *)

LEMMA UptoFinite ==
    ASSUME NEW m \in Nat, NEW kept \in SUBSET (1..m)
    PROVE  /\ IsFiniteSet(kept) /\ Cardinality(kept) \in Nat
           /\ \A j \in kept : j \in Nat /\ 1 <= j /\ j <= m
           /\ \A i : IsFiniteSet({j \in kept : j <= i}) /\ Rank(kept, i) \in Nat
<1>1. m \in Int /\ IsFiniteSet(1..m)
  BY FS_Interval
<1>2. IsFiniteSet(kept) /\ Cardinality(kept) \in Nat
  BY <1>1, FS_Subset, FS_CardinalityType
<1>3. \A i : IsFiniteSet({j \in kept : j <= i}) /\ Rank(kept, i) \in Nat
  BY <1>2, FS_Subset, FS_CardinalityType DEF Rank
<1>4. \A j \in kept : j \in Nat /\ 1 <= j /\ j <= m
  BY SMT
<1>. QED BY <1>2, <1>3, <1>4

\* A later position has a greater rank.
LEMMA RankGrows ==
    ASSUME NEW m \in Nat, NEW kept \in SUBSET (1..m), NEW i \in kept, NEW l \in kept, i < l
    PROVE  Rank(kept, i) < Rank(kept, l)
<1>. DEFINE low == {j \in kept : j <= i}
            high == {j \in kept : j <= l}
<1>1. /\ i \in Nat /\ l \in Nat
      /\ \A j \in kept : j \in Nat
      /\ IsFiniteSet(low) /\ IsFiniteSet(high)
      /\ Cardinality(low) \in Nat /\ Cardinality(high) \in Nat
  BY UptoFinite DEF Rank
<1>2. \A j \in kept : j <= i => j <= l
  BY <1>1
<1>3. l <= l /\ ~ (l <= i)
  BY <1>1
<1>4. low \in SUBSET high /\ l \in high /\ l \notin low
  BY <1>2, <1>3, Zenon
<1>. HIDE DEF low, high
<1>5. Cardinality(low) <= Cardinality(high) /\ Cardinality(low) # Cardinality(high)
  BY <1>1, <1>4, FS_Subset
<1>6. Cardinality(low) < Cardinality(high)
  BY <1>1, <1>5
<1>. QED BY <1>6 DEF low, high, Rank

LEMMA RankInjective ==
    ASSUME NEW m \in Nat, NEW kept \in SUBSET (1..m), NEW i \in kept, NEW l \in kept,
           Rank(kept, i) = Rank(kept, l)
    PROVE  i = l
<1>1. i \in Nat /\ l \in Nat /\ Rank(kept, i) \in Nat /\ Rank(kept, l) \in Nat
  BY UptoFinite
<1>2. ~ (i < l) /\ ~ (l < i)
  BY <1>1, RankGrows
<1>. QED BY <1>1, <1>2

LEMMA RankBounded ==
    ASSUME NEW m \in Nat, NEW kept \in SUBSET (1..m), NEW i \in kept
    PROVE  Rank(kept, i) \in 1..Cardinality(kept)
<1>. DEFINE low == {j \in kept : j <= i}
<1>1. /\ IsFiniteSet(kept) /\ Cardinality(kept) \in Nat
      /\ IsFiniteSet(low) /\ Cardinality(low) \in Nat /\ i \in Nat
  BY UptoFinite DEF Rank
<1>2. i <= i
  BY <1>1
<1>3. low \in SUBSET kept /\ low # {}
  BY <1>2
<1>. HIDE DEF low
<1>4. Cardinality(low) <= Cardinality(kept) /\ Cardinality(low) # 0
  BY <1>1, <1>3, FS_Subset, FS_EmptySet
<1>5. Cardinality(low) \in 1..Cardinality(kept)
  BY <1>1, <1>4
<1>. QED BY <1>5 DEF low, Rank

\* Every rank up to the number of positions is taken: the least position up to
\* which k of them lie is the one of rank k.
LEMMA RankTaken ==
    ASSUME NEW m \in Nat, NEW kept \in SUBSET (1..m), NEW k \in 1..Cardinality(kept)
    PROVE  \E i \in kept : Rank(kept, i) = k
<1>. DEFINE upto(i) == {j \in kept : j <= i}
            high == {i \in 0..m : k <= Cardinality(upto(i))}
<1>0. m \in Int /\ IsFiniteSet(1..m)
  BY FS_Interval
<1>1. IsFiniteSet(kept) /\ Cardinality(kept) \in Nat
  BY <1>0, FS_Subset, FS_CardinalityType
<1>2. \A i : IsFiniteSet(upto(i)) /\ Cardinality(upto(i)) \in Nat
  BY <1>1, FS_Subset, FS_CardinalityType
<1>j. \A j \in kept : j \in Nat /\ 1 <= j /\ j <= m
  BY SMT
<1>3. upto(m) = kept /\ upto(0) = {}
  <2>1. \A j \in kept : j <= m /\ ~ (j <= 0)
    BY <1>j
  <2>. QED BY <2>1, Zenon
<1>k. k \in Nat /\ 1 <= k /\ k <= Cardinality(kept)
  BY <1>1
<1>4. m \in high /\ high \in SUBSET Nat
  BY <1>1, <1>3, <1>k
<1>5. PICK l \in high : \A n \in high : l <= n
  BY <1>4, LeastNatural
<1>l. l \in Nat /\ l <= m /\ k <= Cardinality(upto(l))
  BY <1>5
<1>6. l # 0
  BY <1>3, <1>l, <1>k, FS_EmptySet
<1>7. l - 1 \in 0..m /\ ~ (l <= l - 1)
  BY <1>6, <1>l
<1>8. Cardinality(upto(l - 1)) < k
  <2>1. ~ (k <= Cardinality(upto(l - 1)))
    BY <1>5, <1>7, Zenon
  <2>2. Cardinality(upto(l - 1)) \in Nat
    BY <1>2
  <2>. HIDE DEF upto
  <2>. QED BY <2>1, <2>2, <1>k
<1>9. CASE l \notin kept
  <2>1. \A j \in kept : j <= l <=> j <= l - 1
    BY <1>9, <1>l, <1>j
  <2>2. upto(l) = upto(l - 1)
    BY <2>1
  <2>. QED BY <2>2, <1>l, <1>8, <1>2, <1>k
<1>10. CASE l \in kept
  <2>1. \A j \in kept : j <= l <=> j <= l - 1 \/ j = l
    BY <1>l, <1>j
  <2>2. upto(l) = upto(l - 1) \cup {l} /\ l \notin upto(l - 1)
    BY <1>10, <1>7, <2>1, Zenon
  <2>. HIDE DEF upto
  <2>3. Cardinality(upto(l)) = Cardinality(upto(l - 1)) + 1
    BY <2>2, <1>2, FS_AddElement
  <2>4. Cardinality(upto(l)) = k
    BY <2>3, <1>l, <1>8, <1>2, <1>k
  <2>. QED BY <2>4, <1>10 DEF Rank, upto
<1>. QED BY <1>9, <1>10

\* The position an element was collected from.
Source(kept, k) == CHOOSE i \in kept : Rank(kept, i) = k

\* What is collected is as long as the positions are many, element k comes from the
\* position of rank k, and positions keep their order.
LEMMA CollectedProperties ==
    ASSUME NEW S, NEW s \in Seq(S), NEW kept \in SUBSET (DOMAIN s)
    PROVE  /\ Collected(s, kept) \in Seq(S)
           /\ DOMAIN Collected(s, kept) = 1..Cardinality(kept)
           /\ Cardinality(kept) \in Nat
           /\ \A k \in 1..Cardinality(kept) :
                /\ Source(kept, k) \in kept
                /\ Rank(kept, Source(kept, k)) = k
                /\ Collected(s, kept)[k] = s[Source(kept, k)]
           /\ \A k, l \in 1..Cardinality(kept) : Source(kept, k) = Source(kept, l) => k = l
           /\ \A k, l \in 1..Cardinality(kept) : k < l => Source(kept, k) < Source(kept, l)
<1>1. PICK m \in Nat : m = Len(s) /\ DOMAIN s = 1..m
  OBVIOUS
<1>2. kept \in SUBSET (1..m) /\ Cardinality(kept) \in Nat
  BY <1>1, UptoFinite
<1>3. \A k \in 1..Cardinality(kept) :
        Source(kept, k) \in kept /\ Rank(kept, Source(kept, k)) = k
  BY <1>2, RankTaken DEF Source
<1>4. \A k \in 1..Cardinality(kept) : Collected(s, kept)[k] = s[Source(kept, k)]
  BY DEF Collected, Source
<1>5. \A k \in 1..Cardinality(kept) : s[Source(kept, k)] \in S
  BY <1>1, <1>3
<1>6. Collected(s, kept) = [k \in 1..Cardinality(kept) |-> s[Source(kept, k)]]
  BY DEF Collected, Source
<1>7. Collected(s, kept) \in Seq(S) /\ DOMAIN Collected(s, kept) = 1..Cardinality(kept)
  BY <1>2, <1>5, <1>6, IsASeq
<1>8. \A k, l \in 1..Cardinality(kept) : k < l => Source(kept, k) < Source(kept, l)
  <2>. SUFFICES ASSUME NEW k \in 1..Cardinality(kept), NEW l \in 1..Cardinality(kept), k < l
                PROVE  Source(kept, k) < Source(kept, l)
    OBVIOUS
  <2>. DEFINE i == Source(kept, k)
              j == Source(kept, l)
  <2>1. i \in kept /\ j \in kept /\ Rank(kept, i) = k /\ Rank(kept, j) = l
    BY <1>3
  <2>. HIDE DEF i, j
  <2>2. i \in Nat /\ j \in Nat
    BY <1>2, <2>1, UptoFinite
  <2>3. k \in Nat /\ l \in Nat
    BY <1>2
  <2>4. ~ (j < i) /\ i # j
    <3>1. j < i => Rank(kept, j) < Rank(kept, i)
      BY <1>2, <2>1, RankGrows
    <3>. QED BY <2>1, <2>3, <3>1
  <2>5. i < j
    BY <2>2, <2>4
  <2>. QED BY <2>5 DEF i, j
<1>9. \A k, l \in 1..Cardinality(kept) : Source(kept, k) = Source(kept, l) => k = l
  BY <1>3
<1>. QED BY <1>2, <1>3, <1>4, <1>7, <1>8, <1>9

----------------------------------------------------------------------------
(* The parser of exports.                                                  *)

\* An import drops blank lines and repetitions and nothing else: the keys are
\* pairwise different, they are the keys of the export, and each one comes from its
\* first line, in the order of these lines (parse_otpauth_totp_list with its set of
\* keys seen).
THEOREM ImportDeduplicates ==
    ASSUME NEW lines \in Exports
    PROVE  LET keys == parsed_keys(lines) IN
           /\ \A k, l \in DOMAIN keys : keys[k] = keys[l] => k = l
           /\ {keys[k] : k \in DOMAIN keys} = {lines[i] : i \in DOMAIN lines} \ {"blank"}
           /\ \E f \in [DOMAIN keys -> DOMAIN lines] :
                /\ \A k \in DOMAIN keys : keys[k] = lines[f[k]] /\ fresh_uri(lines, f[k])
                /\ \A k, l \in DOMAIN keys : k < l => f[k] < f[l]
<1>. DEFINE kept == {i \in DOMAIN lines : fresh_uri(lines, i)}
            keys == parsed_keys(lines)
            n == Cardinality(kept)
<1>1. PICK m \in Nat : lines \in [1..m -> Line]
  BY EntriesAssumption DEF Exports
<1>2. lines \in Seq(Line) /\ DOMAIN lines = 1..m
  BY <1>1
<1>3. /\ DOMAIN keys = 1..n /\ n \in Nat
      /\ \A k \in 1..n : /\ Source(kept, k) \in kept
                         /\ Rank(kept, Source(kept, k)) = k
                         /\ keys[k] = lines[Source(kept, k)]
      /\ \A k, l \in 1..n : Source(kept, k) = Source(kept, l) => k = l
      /\ \A k, l \in 1..n : k < l => Source(kept, k) < Source(kept, l)
  <2>1. kept \in SUBSET (DOMAIN lines) /\ keys = Collected(lines, kept)
    BY DEF parsed_keys
  <2>. HIDE DEF kept, keys, n
  <2>2. /\ DOMAIN Collected(lines, kept) = 1..Cardinality(kept)
        /\ Cardinality(kept) \in Nat
        /\ \A k \in 1..Cardinality(kept) :
             /\ Source(kept, k) \in kept
             /\ Rank(kept, Source(kept, k)) = k
             /\ Collected(lines, kept)[k] = lines[Source(kept, k)]
        /\ \A k, l \in 1..Cardinality(kept) : Source(kept, k) = Source(kept, l) => k = l
        /\ \A k, l \in 1..Cardinality(kept) : k < l => Source(kept, k) < Source(kept, l)
    BY <1>2, <2>1, CollectedProperties
  <2>3. n = Cardinality(kept)
    BY DEF n
  <2>. QED BY <2>1, <2>2, <2>3
<1>4. \A i, j \in kept : lines[i] = lines[j] => i = j
  <2>. SUFFICES ASSUME NEW i \in kept, NEW j \in kept, lines[i] = lines[j], i # j
                PROVE  FALSE
    OBVIOUS
  <2>1. i \in Nat /\ j \in Nat /\ 1 <= i /\ 1 <= j
    BY <1>2
  <2>2. CASE i < j
    <3>1. i \in 1..(j - 1)
      BY <2>1, <2>2
    <3>. QED BY <3>1 DEF fresh_uri
  <2>3. CASE j < i
    <3>1. j \in 1..(i - 1)
      BY <2>1, <2>3
    <3>. QED BY <3>1 DEF fresh_uri
  <2>. QED BY <2>1, <2>2, <2>3
<1>5. \A i \in DOMAIN lines : lines[i] # "blank" => \E j \in kept : lines[j] = lines[i]
  <2>. SUFFICES ASSUME NEW i \in DOMAIN lines, lines[i] # "blank"
                PROVE  \E j \in kept : lines[j] = lines[i]
    OBVIOUS
  <2>. DEFINE same == {j \in DOMAIN lines : lines[j] = lines[i]}
  <2>1. same \in SUBSET Nat /\ same # {}
    BY <1>2
  <2>2. PICK j \in same : \A l \in same : j <= l
    BY <2>1, LeastNatural
  <2>3. j \in DOMAIN lines /\ lines[j] = lines[i]
    BY <2>2
  <2>4. ASSUME NEW l \in 1..(j - 1) PROVE lines[l] # lines[j]
    <3>1. l \in DOMAIN lines /\ ~ (j <= l)
      BY <1>2, <2>3
    <3>. QED BY <2>2, <2>3, <3>1
  <2>5. fresh_uri(lines, j)
    BY <2>3, <2>4 DEF fresh_uri
  <2>. QED BY <2>3, <2>5
<1>6. \A i \in kept : \E k \in 1..n : Source(kept, k) = i
  <2>. SUFFICES ASSUME NEW i \in kept PROVE \E k \in 1..n : Source(kept, k) = i
    OBVIOUS
  <2>1. kept \in SUBSET (1..m)
    BY <1>2
  <2>2. Rank(kept, i) \in 1..n
    BY <2>1, RankBounded
  <2>3. Source(kept, Rank(kept, i)) = i
    <3>. DEFINE j == Source(kept, Rank(kept, i))
    <3>1. j \in kept /\ Rank(kept, j) = Rank(kept, i)
      BY <1>3, <2>2
    <3>. HIDE DEF j, kept
    <3>2. j = i
      BY <3>1, <2>1, RankInjective
    <3>. QED BY <3>2 DEF j
  <2>. QED BY <2>2, <2>3
<1>7. \A i \in kept : i \in DOMAIN lines /\ lines[i] # "blank" /\ fresh_uri(lines, i)
  BY DEF fresh_uri
<1>. HIDE DEF kept, keys, n
<1>8. \A k, l \in DOMAIN keys : keys[k] = keys[l] => k = l
  BY <1>3, <1>4
<1>9. {keys[k] : k \in DOMAIN keys} = {lines[i] : i \in DOMAIN lines} \ {"blank"}
  <2>1. ASSUME NEW k \in DOMAIN keys
        PROVE  keys[k] \in {lines[i] : i \in DOMAIN lines} \ {"blank"}
    BY <1>3, <1>7
  <2>2. ASSUME NEW i \in DOMAIN lines, lines[i] # "blank"
        PROVE  lines[i] \in {keys[k] : k \in DOMAIN keys}
    BY <1>3, <1>5, <1>6, <2>2
  <2>. QED BY <2>1, <2>2
<1>10. \E f \in [DOMAIN keys -> DOMAIN lines] :
         /\ \A k \in DOMAIN keys : keys[k] = lines[f[k]] /\ fresh_uri(lines, f[k])
         /\ \A k, l \in DOMAIN keys : k < l => f[k] < f[l]
  <2>. DEFINE f == [k \in DOMAIN keys |-> Source(kept, k)]
  <2>1. f \in [DOMAIN keys -> DOMAIN lines]
    BY <1>3, <1>7
  <2>2. \A k \in DOMAIN keys : keys[k] = lines[f[k]] /\ fresh_uri(lines, f[k])
    BY <1>3, <1>7
  <2>3. \A k, l \in DOMAIN keys : k < l => f[k] < f[l]
    BY <1>3
  <2>. QED BY <2>1, <2>2, <2>3
<1>. QED BY <1>8, <1>9, <1>10 DEF keys

----------------------------------------------------------------------------
(* apply_update.                                                           *)

\* What holds of an entry and its status between the assignments of an update: the
\* primary secret is out of step only in an entry that will not decode.
Sane(r, id) ==
    /\ r \in [entry : VaultEntry, ok : BOOLEAN]
    /\ r.entry.id = id
    /\ r.ok \/ validate_invariants(r.entry) => InSync(r.entry)

LEMMA DoneSane ==
    ASSUME NEW e \in VaultEntry, NEW ok \in BOOLEAN,
           ok \/ validate_invariants(e) => InSync(e)
    PROVE  Sane(Done(e, ok), e.id)
  BY DEF Sane, Done

LEMMA CheckedSane ==
    ASSUME NEW e \in VaultEntry, InSync(e)
    PROVE  Sane(Checked(e), e.id)
<1>1. validate_invariants(e) \in BOOLEAN
  BY DEF validate_invariants, validate, VaultEntry, TotpSecret
<1>. QED BY <1>1, DoneSane DEF Checked

LEMMA TextSane ==
    ASSUME NEW e \in VaultEntry, InSync(e), NEW f \in {"title", "note", "username"},
           NEW t \in Input(f)
    PROVE  Sane(set_text(e, f, t), e.id)
<1>1. CASE valid_text(t)
  <2>. DEFINE new == [e EXCEPT ![f] = t]
  <2>1. f = "title" => t \in Texts
    BY <1>1 DEF Input, valid_text
  <2>2. f # "title" => t \in Texts \cup {None}
    BY <1>1 DEF Input, valid_text
  <2>3. new \in VaultEntry /\ new.id = e.id /\ InSync(new)
    <3>1. CASE f = "title"
      BY <2>1, <3>1 DEF VaultEntry, InSync
    <3>2. CASE f = "note"
      BY <2>2, <3>2 DEF VaultEntry, InSync
    <3>3. CASE f = "username"
      BY <2>2, <3>3 DEF VaultEntry, InSync
    <3>. QED BY <3>1, <3>2, <3>3
  <2>. HIDE DEF new
  <2>4. Sane(Done(new, TRUE), new.id)
    BY <2>3, DoneSane
  <2>. QED BY <1>1, <2>3, <2>4 DEF set_text, new
<1>2. CASE ~valid_text(t)
  BY <1>2, DoneSane DEF set_text
<1>. QED BY <1>1, <1>2

LEMMA SecretSane ==
    ASSUME NEW e \in VaultEntry, InSync(e), NEW s \in Secret
    PROVE  Sane(set_secret(e, s), e.id)
<1>1. CASE e.entry_type # "Totp"
  <2>. DEFINE new == [e EXCEPT !.secret = s]
  <2>1. new \in VaultEntry /\ new.id = e.id /\ InSync(new)
    BY <1>1 DEF VaultEntry, InSync
  <2>. HIDE DEF new
  <2>2. Sane(Checked(new), e.id) /\ Sane(Done(e, FALSE), e.id)
    BY <2>1, CheckedSane, DoneSane
  <2>3. set_secret(e, s) \in {Checked(new), Done(e, FALSE)}
    BY <1>1 DEF set_secret, new, VaultEntry, EntryType
  <2>. QED BY <2>2, <2>3
<1>2. CASE e.entry_type = "Totp" /\ e.totp = None
  <2>1. set_secret(e, s) = Done(e, FALSE)
    BY <1>2 DEF set_secret
  <2>. QED BY <2>1, DoneSane
<1>3. CASE e.entry_type = "Totp" /\ e.totp # None
  <2>. DEFINE t == [e.totp EXCEPT !.secret_b32 = s]
              whole == [e EXCEPT !.totp = t, !.secret = s]
              half == [e EXCEPT !.totp = t]
  <2>1. e.totp \in TotpSecret
    BY <1>3 DEF VaultEntry
  <2>2. t \in TotpSecret /\ t.secret_b32 = s
    BY <2>1 DEF TotpSecret
  <2>3. set_secret(e, s) = IF validate(t) THEN Checked(whole) ELSE Done(half, FALSE)
    BY <1>3 DEF set_secret
  <2>. HIDE DEF t
  <2>4. whole \in VaultEntry /\ whole.id = e.id /\ InSync(whole)
    BY <2>2 DEF VaultEntry, InSync
  <2>5. half \in VaultEntry /\ half.id = e.id /\ half.totp = t /\ half.entry_type = "Totp"
    BY <1>3, <2>2 DEF VaultEntry
  <2>. HIDE DEF whole, half
  <2>6. CASE validate(t)
    BY <2>3, <2>4, <2>6, CheckedSane
  <2>7. CASE ~validate(t)
    <3>1. ~validate_invariants(half)
      BY <2>5, <2>7 DEF validate_invariants
    <3>. QED BY <2>3, <2>5, <2>7, <3>1, DoneSane
  <2>. QED BY <2>6, <2>7
<1>. QED BY <1>1, <1>2, <1>3

LEMMA TotpSane ==
    ASSUME NEW e \in VaultEntry, InSync(e), NEW t \in Totps \cup {None}
    PROVE  Sane(set_totp(e, t), e.id)
<1>. DEFINE none == [e EXCEPT !.totp = None]
            some == [e EXCEPT !.secret = t.secret_b32, !.totp = t]
<1>1. none \in VaultEntry /\ none.id = e.id /\ InSync(none)
  BY DEF VaultEntry, InSync
<1>2. ASSUME t # None PROVE some \in VaultEntry /\ some.id = e.id /\ InSync(some)
  <2>1. t \in TotpSecret /\ t.secret_b32 \in Secret
    BY <1>2, InputAssumption DEF TotpSecret
  <2>. QED BY <2>1 DEF VaultEntry, InSync
<1>3. set_totp(e, t) \in {Done(e, FALSE), Checked(none), Checked(some)}
  BY DEF set_totp
<1>4. t = None => set_totp(e, t) \in {Done(e, FALSE), Checked(none)}
  BY DEF set_totp
<1>. HIDE DEF none, some
<1>5. Sane(Done(e, FALSE), e.id) /\ Sane(Checked(none), e.id)
  BY <1>1, DoneSane, CheckedSane
<1>6. t # None => Sane(Checked(some), e.id)
  BY <1>2, CheckedSane
<1>. QED BY <1>3, <1>4, <1>5, <1>6

LEMMA ExtraSane ==
    ASSUME NEW e \in VaultEntry, InSync(e), NEW t \in Texts \cup {None}
    PROVE  Sane(Done([e EXCEPT !.extra = t], TRUE), e.id)
<1>. DEFINE new == [e EXCEPT !.extra = t]
<1>1. new \in VaultEntry /\ new.id = e.id /\ InSync(new)
  BY DEF VaultEntry, InSync
<1>. HIDE DEF new
<1>2. Sane(Done(new, TRUE), e.id)
  BY <1>1, DoneSane
<1>. QED BY <1>2 DEF new

AllFields == {"title", "note", "username", "secret", "extra", "totp"}

LEMMA StepSane ==
    ASSUME NEW u \in Updates, NEW f \in AllFields, NEW r, NEW id, Sane(r, id)
    PROVE  Sane(Step(r, u, f), id)
<1>1. CASE ~r.ok \/ u[f] = {}
  <2>1. Step(r, u, f) = r
    BY <1>1 DEF Step
  <2>. QED BY <2>1
<1>2. CASE r.ok /\ u[f] # {}
  <2>1. r.entry \in VaultEntry /\ InSync(r.entry) /\ r.entry.id = id
    BY <1>2 DEF Sane
  <2>2. u[f] \in Option(f)
    BY DEF Updates, AllFields
  <2>3. PICK v \in Input(f) : u[f] = {v}
    BY <1>2, <2>2 DEF Option, Some
  <2>4. Value(u[f]) = v
    BY <2>3 DEF Value
  <2>5. CASE f = "secret"
    <3>1. Step(r, u, f) = set_secret(r.entry, v) /\ v \in Secret
      BY <1>2, <2>3, <2>4, <2>5 DEF Step, Input
    <3>. QED BY <2>1, <3>1, SecretSane
  <2>6. CASE f = "totp"
    <3>1. Step(r, u, f) = set_totp(r.entry, v) /\ v \in Totps \cup {None}
      BY <1>2, <2>3, <2>4, <2>6 DEF Step, Input
    <3>. QED BY <2>1, <3>1, TotpSane
  <2>7. CASE f = "extra"
    <3>1. Step(r, u, f) = Done([r.entry EXCEPT !.extra = v], TRUE) /\ v \in Texts \cup {None}
      BY <1>2, <2>3, <2>4, <2>7 DEF Step, Input
    <3>. QED BY <2>1, <3>1, ExtraSane
  <2>8. CASE f \in {"title", "note", "username"}
    <3>1. Step(r, u, f) = set_text(r.entry, f, v)
      BY <1>2, <2>3, <2>4, <2>8 DEF Step
    <3>. QED BY <2>1, <2>3, <2>8, <3>1, TextSane
  <2>. QED BY <2>5, <2>6, <2>7, <2>8 DEF AllFields
<1>3. r.ok \in BOOLEAN
  BY DEF Sane
<1>. QED BY <1>1, <1>2, <1>3

\* An update that fails half-way leaves an entry that keeps its type and identifier,
\* and whose secrets agree unless it will not decode; one that succeeds leaves a
\* valid entry.
LEMMA UpdateSane ==
    ASSUME NEW e \in VaultEntry, InSync(e), NEW u \in Updates
    PROVE  /\ Sane(apply_update(e, u), e.id)
           /\ apply_update(e, u).ok => validate_invariants(apply_update(e, u).entry)
<1>. DEFINE r == Replaced(e, u)
<1>1. Sane(Done(e, TRUE), e.id)
  BY DoneSane
<1>2. Sane(r, e.id)
  <2>. DEFINE r1 == Step(Done(e, TRUE), u, "title")
              r2 == Step(r1, u, "note")
              r3 == Step(r2, u, "username")
              r4 == Step(r3, u, "secret")
              r5 == Step(r4, u, "extra")
  <2>1. Sane(r1, e.id)
    BY <1>1, StepSane DEF AllFields
  <2>. HIDE DEF r1
  <2>2. Sane(r2, e.id)
    BY <2>1, StepSane DEF AllFields
  <2>. HIDE DEF r2
  <2>3. Sane(r3, e.id)
    BY <2>2, StepSane DEF AllFields
  <2>. HIDE DEF r3
  <2>4. Sane(r4, e.id)
    BY <2>3, StepSane DEF AllFields
  <2>. HIDE DEF r4
  <2>5. Sane(r5, e.id)
    BY <2>4, StepSane DEF AllFields
  <2>. HIDE DEF r5
  <2>6. Sane(Step(r5, u, "totp"), e.id)
    BY <2>5, StepSane DEF AllFields
  <2>. QED BY <2>6 DEF Replaced, r1, r2, r3, r4, r5
<1>. HIDE DEF r
<1>3. CASE r.ok
  <2>1. apply_update(e, u) = Checked(r.entry)
    BY <1>3 DEF apply_update, r
  <2>2. r.entry \in VaultEntry /\ InSync(r.entry) /\ r.entry.id = e.id
    BY <1>2, <1>3 DEF Sane
  <2>3. Sane(Checked(r.entry), e.id)
    BY <2>2, CheckedSane
  <2>4. Checked(r.entry).ok => validate_invariants(Checked(r.entry).entry)
    BY DEF Checked, Done
  <2>. QED BY <2>1, <2>3, <2>4
<1>4. CASE ~r.ok
  <2>1. apply_update(e, u) = r
    BY <1>4 DEF apply_update, r
  <2>. QED BY <1>2, <1>4, <2>1
<1>. QED BY <1>3, <1>4

----------------------------------------------------------------------------
\* An operation on a payload that does not decode.
LEMMA CrudKeeps ==
    ASSUME NEW c, Crud(c), ~Readable
    PROVE  UNCHANGED state
<1>1. ASSUME NEW e, add_entry(c, e) PROVE UNCHANGED state
  BY <1>1 DEF add_entry, Refused
<1>2. ASSUME NEW id, NEW e, update_entry(c, id, e) PROVE UNCHANGED state
  BY <1>2 DEF update_entry, Refused
<1>3. ASSUME NEW id, NEW u, update_entry_fields(c, id, u) PROVE UNCHANGED state
  BY <1>3 DEF update_entry_fields, Refused
<1>4. ASSUME NEW id, delete_entry(c, id) PROVE UNCHANGED state
  BY <1>4 DEF delete_entry, Refused
<1>. QED BY <1>1, <1>2, <1>3, <1>4 DEF Crud

LEMMA ImportKeeps ==
    ASSUME NEW c, Import(c), ~Readable
    PROVE  UNCHANGED state
  BY DEF Import, ImportToQuarantine, CommitQuarantineImport, ReportTotal, Refused

\* No operation overwrites a payload that it could not decode.
THEOREM UnreadableStays == Spec => UnreadableIsKept
<1>1. [Next]_vars => [state # Locked /\ ~Readable =>
                        UNCHANGED state \/ state' = Locked \/ result' = "none"]_vars
  <2>. SUFFICES ASSUME Next, ~Readable
                PROVE  UNCHANGED state \/ state' = Locked \/ result' = "none"
    OBVIOUS
  <2>. QED BY CrudKeeps, ImportKeeps DEF Next, Lock, Unlock
<1>. QED BY <1>1, PTL DEF Spec, UnreadableIsKept

----------------------------------------------------------------------------
\* Callers that take turns.
OneCaller == \A c, d \in Callers : c = d

\* CRUD operations leave the imports in progress alone.
LEMMA CrudLeavesImports ==
    ASSUME NEW c, Crud(c)
    PROVE  UNCHANGED call
<1>1. ASSUME NEW e, add_entry(c, e) PROVE UNCHANGED call
  BY <1>1 DEF add_entry, Refused, Store
<1>2. ASSUME NEW id, NEW e, update_entry(c, id, e) PROVE UNCHANGED call
  BY <1>2 DEF update_entry, Refused, Store
<1>3. ASSUME NEW id, NEW u, update_entry_fields(c, id, u) PROVE UNCHANGED call
  BY <1>3 DEF update_entry_fields, Refused, Store
<1>4. ASSUME NEW id, delete_entry(c, id) PROVE UNCHANGED call
  BY <1>4 DEF delete_entry, Refused, Store
<1>. QED BY <1>1, <1>2, <1>3, <1>4 DEF Crud

----------------------------------------------------------------------------
(* The invariant of the payload.                                           *)

\* Entries that operations may find: typed, with drawn identifiers, in step unless
\* they do not decode.
Sound(entries, n) ==
    /\ entries \in Seq(VaultEntry)
    /\ \A i \in DOMAIN entries :
         entries[i].id <= n /\ (validate_invariants(entries[i]) => InSync(entries[i]))

\* What the quarantine holds.
Valid(entries) ==
    \A i \in DOMAIN entries : validate_invariants(entries[i]) /\ InSync(entries[i])

EntriesInv ==
    /\ state # Locked => /\ state \in Session
                         /\ Sound(state.entries, next_id)
    /\ next_id \in 0..MaxId /\ Cardinality(Preloaded) <= next_id
    /\ result \in Results
    /\ call \in [Callers -> ImportCall]
    /\ \A c \in Callers : Sound(call[c].incoming, next_id) /\ Valid(call[c].incoming)

LEMMA EntriesInit == Init => EntriesInv
<1>. SUFFICES ASSUME Init PROVE EntriesInv
  OBVIOUS
<1>1. next_id \in 0..MaxId /\ Cardinality(Preloaded) <= next_id
  BY PayloadAssumption, EntriesAssumption DEF Init
<1>2. IdleCall \in ImportCall /\ Sound(IdleCall.incoming, next_id) /\ Valid(IdleCall.incoming)
  BY DEF IdleCall, ImportCall, Sound, Valid
<1>3. \A c \in Callers : call[c] = IdleCall
  BY DEF Init
<1>4. call \in [Callers -> ImportCall]
  BY <1>2 DEF Init
<1>. QED BY <1>1, <1>2, <1>3, <1>4 DEF Init, EntriesInv, Results

\* Identifiers stay drawn.
LEMMA SoundGrows ==
    ASSUME NEW m \in Nat, NEW n \in Nat, m <= n, NEW entries, Sound(entries, m)
    PROVE  Sound(entries, n)
<1>1. \A i \in DOMAIN entries : entries[i].id \in Nat
  <2>1. \A i \in DOMAIN entries : entries[i] \in VaultEntry
    BY DEF Sound
  <2>. QED BY <2>1, EntriesAssumption DEF VaultEntry, Id
<1>. QED BY <1>1 DEF Sound

\* The entries of a vault file.
LEMMA PayloadSound ==
    ASSUME NEW entries \in Payloads, NEW n \in Nat, Cardinality(Preloaded) <= n
    PROVE  Sound(entries, n)
<1>1. \A i \in DOMAIN entries : entries[i].id \in Preloaded
  BY DEF Preloaded
<1>2. \A i \in DOMAIN entries : entries[i].id <= n
  BY <1>1, PayloadAssumption
<1>. QED BY <1>2, PayloadAssumption DEF Sound

LEMMA ConstructedValid ==
    ASSUME NEW id \in Id, NEW e \in Constructed(id)
    PROVE  e \in VaultEntry /\ e.id = id /\ validate_invariants(e) /\ InSync(e)
<1>1. ASSUME NEW t \in Texts, NEW s \in Base32 \cup Plain, e = new_password(id, t, None, s, None)
      PROVE  e \in VaultEntry /\ e.id = id /\ validate_invariants(e) /\ InSync(e)
  BY <1>1 DEF new_password, VaultEntry, EntryType, Secret, validate_invariants, InSync
<1>2. ASSUME NEW t \in Texts, NEW n \in Texts, e = new_secure_note(id, t, n)
      PROVE  e \in VaultEntry /\ e.id = id /\ validate_invariants(e) /\ InSync(e)
  BY <1>2 DEF new_secure_note, VaultEntry, EntryType, Secret, validate_invariants, InSync
<1>3. ASSUME NEW t \in Texts, NEW s \in Totps, validate(s), e = new_totp(id, t, s, None)
      PROVE  e \in VaultEntry /\ e.id = id /\ validate_invariants(e) /\ InSync(e)
  <2>1. s \in TotpSecret /\ s # None /\ s.secret_b32 \in Secret
    BY InputAssumption DEF TotpSecret
  <2>. QED BY <1>3, <2>1 DEF new_totp, VaultEntry, EntryType, validate_invariants, InSync
<1>. QED BY <1>1, <1>2, <1>3 DEF Constructed

\* The position that find stops at.
LEMMA PositionFound ==
    ASSUME NEW entries \in Seq(VaultEntry), NEW id, HasId(entries, id)
    PROVE  Position(entries, id) \in DOMAIN entries /\ entries[Position(entries, id)].id = id
<1>. DEFINE found == {i \in DOMAIN entries : entries[i].id = id}
<1>1. found \in SUBSET Nat /\ found # {}
  BY DEF HasId
<1>2. PICK i \in found : \A j \in found : i <= j
  BY <1>1, LeastNatural
<1>3. i \in DOMAIN entries /\ i \in Nat /\ entries[i].id = id
  BY <1>1, <1>2
<1>4. \A j \in 1..(i - 1) : j \in DOMAIN entries /\ ~ (i <= j)
  BY <1>3
<1>5. \A j \in 1..(i - 1) : entries[j].id # id
  BY <1>2, <1>4
<1>. QED BY <1>3, <1>5 DEF Position

\* Entry i is replaced.
LEMMA ReplacedSound ==
    ASSUME NEW n \in Nat, NEW entries, Sound(entries, n), NEW i \in DOMAIN entries,
           NEW e \in VaultEntry, e.id <= n, validate_invariants(e) => InSync(e)
    PROVE  /\ Sound([entries EXCEPT ![i] = e], n)
           /\ decodes(entries) /\ validate_invariants(e) => decodes([entries EXCEPT ![i] = e])
<1>. DEFINE new == [entries EXCEPT ![i] = e]
<1>1. new \in Seq(VaultEntry) /\ DOMAIN new = DOMAIN entries
  BY DEF Sound
<1>2. \A j \in DOMAIN new : new[j] = IF j = i THEN e ELSE entries[j]
  BY DEF Sound
<1>. HIDE DEF new
<1>3. Sound(new, n)
  BY <1>1, <1>2 DEF Sound
<1>4. decodes(entries) /\ validate_invariants(e) => decodes(new)
  BY <1>1, <1>2 DEF decodes
<1>. QED BY <1>3, <1>4 DEF new

LEMMA AppendedSound ==
    ASSUME NEW n \in Nat, NEW entries, Sound(entries, n),
           NEW more, Sound(more, n)
    PROVE  /\ Sound(entries \o more, n)
           /\ decodes(entries) /\ decodes(more) => decodes(entries \o more)
<1>1. /\ entries \o more \in Seq(VaultEntry)
      /\ DOMAIN (entries \o more) = 1..(Len(entries) + Len(more))
      /\ Len(entries) \in Nat /\ Len(more) \in Nat
      /\ DOMAIN entries = 1..Len(entries) /\ DOMAIN more = 1..Len(more)
  BY DEF Sound
<1>2. \A j \in DOMAIN (entries \o more) :
         \/ j \in DOMAIN entries /\ (entries \o more)[j] = entries[j]
         \/ j - Len(entries) \in DOMAIN more /\ (entries \o more)[j] = more[j - Len(entries)]
  BY <1>1 DEF Sound
<1>3. Sound(entries \o more, n)
  BY <1>1, <1>2 DEF Sound
<1>4. decodes(entries) /\ decodes(more) => decodes(entries \o more)
  BY <1>2 DEF decodes
<1>. QED BY <1>3, <1>4

LEMMA RetainedSound ==
    ASSUME NEW n \in Nat, NEW entries, Sound(entries, n), NEW id
    PROVE  /\ Sound(retained(entries, id), n)
           /\ decodes(entries) => decodes(retained(entries, id))
<1>. DEFINE kept == {i \in DOMAIN entries : entries[i].id # id}
            new == retained(entries, id)
<1>1. entries \in Seq(VaultEntry) /\ kept \in SUBSET (DOMAIN entries) /\ new = Collected(entries, kept)
  BY DEF Sound, retained
<1>. HIDE DEF kept, new
<1>2. /\ new \in Seq(VaultEntry)
      /\ \A k \in DOMAIN new : \E i \in DOMAIN entries : new[k] = entries[i]
  BY <1>1, CollectedProperties
<1>3. Sound(new, n)
  BY <1>2 DEF Sound
<1>4. decodes(entries) => decodes(new)
  BY <1>2 DEF decodes
<1>. QED BY <1>3, <1>4 DEF new

LEMMA QuarantinedValid ==
    ASSUME NEW keys, NEW m \in Nat, DOMAIN keys = 1..m, next_id \in Nat, next_id + m <= MaxId
    PROVE  /\ Sound(quarantined(keys), next_id + m) /\ Valid(quarantined(keys))
           /\ DOMAIN quarantined(keys) = 1..m
           /\ \A k \in 1..m : quarantined(keys)[k].id = next_id + k
<1>. DEFINE title == CHOOSE t \in Texts : TRUE
            secret == CHOOSE s \in Base32 : TRUE
            totp == [secret_b32 |-> secret, in_range |-> TRUE]
            e(k) == new_totp(next_id + k, title, totp, None)
<1>1. title \in Texts /\ secret \in Base32
  BY InputAssumption
<1>2. quarantined(keys) = [k \in 1..m |-> e(k)]
  BY DEF quarantined
<1>. HIDE DEF title, secret
<1>3. totp \in TotpSecret /\ totp # None /\ totp.secret_b32 = secret /\ validate(totp)
  <2>1. totp.secret_b32 = secret /\ totp.in_range = TRUE
    OBVIOUS
  <2>2. totp \in TotpSecret
    BY <1>1 DEF TotpSecret, Secret
  <2>. HIDE DEF totp
  <2>. QED BY <1>1, <2>1, <2>2, InputAssumption DEF validate
<1>. HIDE DEF totp
<1>4. ASSUME NEW k \in 1..m
      PROVE  /\ e(k) \in VaultEntry
             /\ e(k).id = next_id + k /\ e(k).id <= next_id + m
             /\ validate_invariants(e(k)) /\ InSync(e(k))
  <2>1. next_id + k \in Id /\ next_id + k <= next_id + m
    BY EntriesAssumption DEF Id
  <2>2. secret \in Secret
    BY <1>1 DEF Secret
  <2>. QED BY <2>1, <2>2, <1>1, <1>3
           DEF new_totp, VaultEntry, EntryType, validate_invariants, InSync
<1>. HIDE DEF e
<1>5. quarantined(keys) \in Seq(VaultEntry)
  BY <1>2, <1>4, IsASeq
<1>6. /\ DOMAIN quarantined(keys) = 1..m
      /\ \A k \in 1..m : quarantined(keys)[k] = e(k)
  BY <1>2
<1>. QED BY <1>4, <1>5, <1>6 DEF Sound, Valid

\* The keys of an export are as many as a natural number.
LEMMA KeysCounted ==
    ASSUME NEW lines \in Exports
    PROVE  Len(parsed_keys(lines)) \in Nat /\ DOMAIN parsed_keys(lines) = 1..Len(parsed_keys(lines))
<1>. DEFINE kept == {i \in DOMAIN lines : fresh_uri(lines, i)}
            keys == parsed_keys(lines)
<1>1. PICK m \in Nat : lines \in [1..m -> Line]
  BY EntriesAssumption DEF Exports
<1>2. lines \in Seq(Line) /\ kept \in SUBSET (DOMAIN lines) /\ keys = Collected(lines, kept)
  BY <1>1 DEF parsed_keys
<1>. HIDE DEF kept, keys
<1>3. keys \in Seq(Line)
  BY <1>2, CollectedProperties
<1>4. Len(keys) \in Nat /\ DOMAIN keys = 1..Len(keys)
  BY <1>3
<1>. QED BY <1>4 DEF keys

----------------------------------------------------------------------------
(* What a step of CRUD does to the entries.                                *)

\* The entries are left alone, or become others that are sound, and decode unless the
\* operation rejects its input.
Effect ==
    /\ next_id' \in 0..MaxId /\ next_id <= next_id'
    /\ result' \in Results
    /\ \/ UNCHANGED state /\ (result' = "Ok" => Readable)
       \/ /\ Readable
          /\ \E entries : /\ state' = [state EXCEPT !.entries = entries]
                          /\ Sound(entries, next_id')
                          /\ result' # "Invalid" => decodes(entries)

LEMMA StoreEffect ==
    ASSUME EntriesInv, Readable, NEW entries, NEW res \in Results, Store(entries, res),
           next_id' \in 0..MaxId, next_id <= next_id',
           Sound(entries, next_id'), res # "Invalid" => decodes(entries)
    PROVE  Effect
  BY DEF Effect, Store

LEMMA RefusedEffect ==
    ASSUME EntriesInv, NEW res \in Results \ {"Ok"}, Refused(res),
           next_id' \in 0..MaxId, next_id <= next_id'
    PROVE  Effect
  BY DEF Effect, Refused

LEMMA ReadableSound ==
    ASSUME EntriesInv, Readable
    PROVE  /\ state \in Session
           /\ Sound(state.entries, next_id) /\ decodes(state.entries)
           /\ state.entries \in Seq(VaultEntry)
  BY DEF EntriesInv, Readable, Session

\* Drawing an identifier.
LEMMA DrawnId ==
    ASSUME EntriesInv, NEW id \in Identifiers, Drawn(id)
    PROVE  /\ id \in Id /\ next_id' \in 0..MaxId
           /\ next_id <= next_id' /\ id <= next_id' /\ next_id' \in Nat /\ next_id \in Nat
  BY EntriesAssumption DEF EntriesInv, Identifiers, Drawn, Id

LEMMA AddEffect ==
    ASSUME EntriesInv, NEW c, NEW id \in Identifiers, NEW e \in Constructed(id), add_entry(c, e)
    PROVE  Effect
<1>1. id \in Id
  BY EntriesAssumption DEF EntriesInv, Identifiers, Id
<1>2. e \in VaultEntry /\ e.id = id /\ validate_invariants(e) /\ InSync(e)
  BY <1>1, ConstructedValid
<1>3. /\ next_id' \in 0..MaxId /\ next_id <= next_id' /\ id <= next_id'
      /\ next_id' \in Nat /\ next_id \in Nat
  BY <1>2, DrawnId DEF add_entry
<1>4. CASE Refused("VaultLocked")
  BY <1>3, <1>4, RefusedEffect DEF Results
<1>5. CASE Readable /\ Store(state.entries, "DuplicateEntry")
  BY <1>3, <1>5, StoreEffect, ReadableSound, SoundGrows DEF Results
<1>6. CASE Readable /\ Store(Append(state.entries, e), "Ok")
  <2>1. state.entries \in Seq(VaultEntry) /\ Sound(state.entries, next_id') /\ decodes(state.entries)
    BY <1>3, <1>6, ReadableSound, SoundGrows
  <2>2. Append(state.entries, e) = state.entries \o <<e>>
    BY <1>2, <2>1
  <2>3. Sound(<<e>>, next_id') /\ decodes(<<e>>)
    BY <1>2, <1>3 DEF Sound, decodes
  <2>4. Sound(Append(state.entries, e), next_id') /\ decodes(Append(state.entries, e))
    BY <1>3, <2>1, <2>2, <2>3, AppendedSound
  <2>. QED BY <1>3, <1>6, <2>4, StoreEffect DEF Results
<1>. QED BY <1>4, <1>5, <1>6 DEF add_entry

LEMMA UpdateEffect ==
    ASSUME EntriesInv, NEW c, NEW id, NEW new \in Identifiers, NEW e \in Constructed(new),
           update_entry(c, id, e)
    PROVE  Effect
<1>1. new \in Id
  BY EntriesAssumption DEF EntriesInv, Identifiers, Id
<1>2. e \in VaultEntry /\ e.id = new /\ validate_invariants(e) /\ InSync(e)
  BY <1>1, ConstructedValid
<1>3. /\ next_id' \in 0..MaxId /\ next_id <= next_id' /\ new <= next_id'
      /\ next_id' \in Nat /\ next_id \in Nat
  BY <1>2, DrawnId DEF update_entry
<1>4. CASE Refused("VaultLocked")
  BY <1>3, <1>4, RefusedEffect DEF Results
<1>5. CASE Readable /\ Store(state.entries, "EntryNotFound")
  BY <1>3, <1>5, StoreEffect, ReadableSound, SoundGrows DEF Results
<1>6. CASE /\ Readable /\ HasId(state.entries, id)
           /\ Store([state.entries EXCEPT ![Position(state.entries, id)] = e], "Ok")
  <2>. DEFINE i == Position(state.entries, id)
  <2>1. state.entries \in Seq(VaultEntry) /\ Sound(state.entries, next_id') /\ decodes(state.entries)
    BY <1>3, <1>6, ReadableSound, SoundGrows
  <2>2. i \in DOMAIN state.entries
    BY <1>6, <2>1, PositionFound
  <2>. HIDE DEF i
  <2>3. Sound([state.entries EXCEPT ![i] = e], next_id') /\ decodes([state.entries EXCEPT ![i] = e])
    BY <1>2, <1>3, <2>1, <2>2, ReplacedSound
  <2>4. Store([state.entries EXCEPT ![i] = e], "Ok")
    BY <1>6 DEF i
  <2>. QED BY <1>3, <1>6, <2>3, <2>4, StoreEffect DEF Results
<1>. QED BY <1>4, <1>5, <1>6 DEF update_entry

LEMMA FieldsEffect ==
    ASSUME EntriesInv, NEW c, NEW id, NEW u \in Updates, update_entry_fields(c, id, u)
    PROVE  Effect
<1>3. next_id' \in 0..MaxId /\ next_id <= next_id' /\ next_id' = next_id /\ next_id \in Nat
  BY EntriesAssumption DEF update_entry_fields, EntriesInv
<1>4. CASE Refused("VaultLocked")
  BY <1>3, <1>4, RefusedEffect DEF Results
<1>5. CASE Readable /\ Store(state.entries, "EntryNotFound")
  BY <1>3, <1>5, StoreEffect, ReadableSound DEF Results
<1>6. CASE /\ Readable /\ HasId(state.entries, id)
           /\ LET i == Position(state.entries, id)
                  r == apply_update(state.entries[i], u)
              IN  Store([state.entries EXCEPT ![i] = r.entry], IF r.ok THEN "Ok" ELSE "Invalid")
  <2>. DEFINE i == Position(state.entries, id)
              r == apply_update(state.entries[i], u)
  <2>1. state.entries \in Seq(VaultEntry) /\ Sound(state.entries, next_id) /\ decodes(state.entries)
    BY <1>6, ReadableSound
  <2>2. i \in DOMAIN state.entries
    BY <1>6, <2>1, PositionFound
  <2>3. Store([state.entries EXCEPT ![i] = r.entry], IF r.ok THEN "Ok" ELSE "Invalid")
    BY <1>6
  <2>. HIDE DEF i
  <2>4. /\ state.entries[i] \in VaultEntry /\ InSync(state.entries[i])
        /\ state.entries[i].id <= next_id
    BY <2>1, <2>2 DEF Sound, decodes
  <2>5. /\ Sane(r, state.entries[i].id)
        /\ r.ok => validate_invariants(r.entry)
    BY <2>4, UpdateSane
  <2>. HIDE DEF r
  <2>6. /\ r.entry \in VaultEntry /\ r.entry.id <= next_id
        /\ validate_invariants(r.entry) => InSync(r.entry)
    BY <2>4, <2>5 DEF Sane
  <2>7. /\ Sound([state.entries EXCEPT ![i] = r.entry], next_id)
        /\ r.ok => decodes([state.entries EXCEPT ![i] = r.entry])
    BY <1>3, <2>1, <2>2, <2>5, <2>6, ReplacedSound
  <2>8. CASE r.ok
    BY <1>3, <1>6, <2>3, <2>7, <2>8, StoreEffect DEF Results
  <2>9. CASE ~r.ok
    BY <1>3, <1>6, <2>3, <2>7, <2>9, StoreEffect DEF Results
  <2>. QED BY <2>8, <2>9
<1>. QED BY <1>4, <1>5, <1>6 DEF update_entry_fields

LEMMA DeleteEffect ==
    ASSUME EntriesInv, NEW c, NEW id, delete_entry(c, id)
    PROVE  Effect
<1>1. next_id' \in 0..MaxId /\ next_id <= next_id' /\ next_id' = next_id /\ next_id \in Nat
  BY EntriesAssumption DEF delete_entry, EntriesInv
<1>2. CASE Refused("VaultLocked")
  BY <1>1, <1>2, RefusedEffect DEF Results
<1>3. ASSUME NEW res \in {"EntryNotFound", "Ok"}, Readable, Store(retained(state.entries, id), res)
      PROVE  Effect
  <2>1. Sound(retained(state.entries, id), next_id) /\ decodes(retained(state.entries, id))
    BY <1>1, <1>3, ReadableSound, RetainedSound
  <2>. QED BY <1>1, <1>3, <2>1, StoreEffect DEF Results
<1>. QED BY <1>2, <1>3 DEF delete_entry

LEMMA CrudEffect ==
    ASSUME EntriesInv, NEW c, Crud(c)
    PROVE  Effect
<1>1. ASSUME NEW id \in Identifiers, NEW e \in Constructed(id), add_entry(c, e) PROVE Effect
  BY <1>1, AddEffect
<1>2. ASSUME NEW id \in 1..next_id, NEW new \in IF KeepIds THEN {id} ELSE Identifiers,
             NEW e \in Constructed(new), update_entry(c, id, e)
      PROVE  Effect
  <2>1. new \in Identifiers
    BY EntriesAssumption DEF Identifiers, EntriesInv
  <2>. QED BY <1>2, <2>1, UpdateEffect
<1>3. ASSUME NEW id, NEW u \in Updates, update_entry_fields(c, id, u) PROVE Effect
  BY <1>3, FieldsEffect
<1>4. ASSUME NEW id, delete_entry(c, id) PROVE Effect
  BY <1>4, DeleteEffect
<1>. QED BY <1>1, <1>2, <1>3, <1>4 DEF Crud

\* A step with this effect that leaves the imports alone or moves one of them on.
ImportsStay == /\ call' \in [Callers -> ImportCall]
               /\ \A c \in Callers :
                    Sound(call'[c].incoming, next_id') /\ Valid(call'[c].incoming)

LEMMA EffectKeeps ==
    ASSUME EntriesInv, Effect, ImportsStay
    PROVE  EntriesInv' /\ (result' = "Ok" => Readable')
<1>1. /\ next_id \in Nat /\ next_id' \in Nat /\ next_id <= next_id' /\ next_id' \in 0..MaxId
      /\ Cardinality(Preloaded) <= next_id' /\ result' \in Results
  BY EntriesAssumption, PayloadAssumption DEF EntriesInv, Effect
<1>2. /\ call' \in [Callers -> ImportCall]
      /\ \A c \in Callers : Sound(call'[c].incoming, next_id') /\ Valid(call'[c].incoming)
  BY DEF ImportsStay
<1>3. CASE UNCHANGED state /\ (result' = "Ok" => Readable)
  <2>1. state' # Locked => /\ state' \in Session
                           /\ Sound(state'.entries, next_id')
    BY <1>1, <1>3, SoundGrows DEF EntriesInv
  <2>2. result' = "Ok" => Readable'
    BY <1>3 DEF Readable
  <2>. QED BY <1>1, <1>2, <2>1, <2>2 DEF EntriesInv
<1>4. ASSUME Readable, NEW entries, state' = [state EXCEPT !.entries = entries],
             Sound(entries, next_id'), result' # "Invalid" => decodes(entries)
      PROVE  EntriesInv' /\ (result' = "Ok" => Readable')
  <2>1. entries \in Seq(VaultEntry)
    BY <1>4 DEF Sound
  <2>2. state' \in Session /\ state'.entries = entries
    BY <1>4, <2>1, ReadableSound DEF Session
  <2>3. result' = "Ok" => Readable'
    BY <1>4, <2>2, InputAssumption DEF Readable
  <2>. QED BY <1>1, <1>2, <1>4, <2>2, <2>3 DEF EntriesInv
<1>. QED BY <1>3, <1>4 DEF Effect

\* The imports in progress, when the one of c becomes new.
LEMMA ImportsMove ==
    ASSUME EntriesInv, next_id' \in Nat, next_id <= next_id',
           NEW c, NEW new \in ImportCall, Sound(new.incoming, next_id'), Valid(new.incoming),
           call' = [call EXCEPT ![c] = new]
    PROVE  ImportsStay
<1>1. next_id \in Nat
  BY EntriesAssumption DEF EntriesInv
<1>2. \A d \in Callers : Sound(call[d].incoming, next_id') /\ Valid(call[d].incoming)
  BY <1>1, SoundGrows DEF EntriesInv
<1>3. /\ call \in [Callers -> ImportCall] /\ call' \in [Callers -> ImportCall]
      /\ \A d \in Callers : call'[d] = new \/ call'[d] = call[d]
  BY DEF EntriesInv
<1>. QED BY <1>2, <1>3 DEF ImportsStay

LEMMA ImportsSame ==
    ASSUME EntriesInv, next_id' \in Nat, next_id <= next_id', UNCHANGED call
    PROVE  ImportsStay
<1>1. next_id \in Nat
  BY EntriesAssumption DEF EntriesInv
<1>. QED BY <1>1, SoundGrows DEF EntriesInv, ImportsStay

LEMMA AllowedStep ==
    ASSUME EntriesInv, NEW c \in Callers, NEW policy \in Supplied, NEW lines \in Exports,
           ImportToQuarantine(c, policy, lines), allow_exposure(policy)
    PROVE  Effect /\ ImportsStay
<1>. DEFINE keys == parsed_keys(lines)
            new == [pc |-> "commit", policy |-> policy, incoming |-> quarantined(keys)]
<1>1. /\ next_id + Len(keys) <= MaxId /\ next_id' = next_id + Len(keys)
      /\ call' = [call EXCEPT ![c] = new]
      /\ UNCHANGED state /\ result' = "none"
  BY DEF ImportToQuarantine
<1>2. Len(keys) \in Nat /\ DOMAIN keys = 1..Len(keys)
  BY KeysCounted
<1>3. /\ next_id \in Nat /\ next_id' \in Nat /\ next_id <= next_id' /\ next_id' \in 0..MaxId
  BY <1>1, <1>2, EntriesAssumption DEF EntriesInv
<1>. HIDE DEF keys
<1>4. Sound(quarantined(keys), next_id') /\ Valid(quarantined(keys))
  BY <1>1, <1>2, <1>3, QuarantinedValid
<1>5. quarantined(keys) \in Seq(VaultEntry) /\ policy \in Policies
  BY <1>4 DEF Sound, Supplied, EntriesInv, Session
<1>6. new \in ImportCall /\ new.incoming = quarantined(keys)
  BY <1>5 DEF ImportCall
<1>. HIDE DEF new
<1>7. ImportsStay
  BY <1>1, <1>3, <1>4, <1>6, ImportsMove
<1>8. Effect
  BY <1>1, <1>3 DEF Effect, Results
<1>. QED BY <1>7, <1>8

\* The policy refuses the import.
LEMMA DeniedStep ==
    ASSUME EntriesInv, NEW c \in Callers, NEW policy, NEW lines,
           ImportToQuarantine(c, policy, lines), ~allow_exposure(policy)
    PROVE  Effect /\ ImportsStay
<1>1. UNCHANGED <<state, next_id, call>> /\ result' = "PolicyDenied"
  BY DEF ImportToQuarantine
<1>2. next_id' \in Nat /\ next_id <= next_id' /\ next_id' \in 0..MaxId
  BY <1>1, EntriesAssumption DEF EntriesInv
<1>. QED BY <1>1, <1>2, ImportsSame DEF Effect, Results

LEMMA QuarantineStep ==
    ASSUME EntriesInv, NEW c \in Callers, NEW policy \in Supplied, NEW lines \in Exports,
           ImportToQuarantine(c, policy, lines)
    PROVE  Effect /\ ImportsStay
  BY AllowedStep, DeniedStep

LEMMA IdleCallSound ==
    ASSUME NEW n
    PROVE  IdleCall \in ImportCall /\ Sound(IdleCall.incoming, n) /\ Valid(IdleCall.incoming)
  BY DEF IdleCall, ImportCall, Sound, Valid

\* An import returns.
LEMMA ReturnStep ==
    ASSUME EntriesInv, NEW c \in Callers, UNCHANGED next_id, Return(c)
    PROVE  ImportsStay
<1>1. next_id' \in Nat /\ next_id <= next_id'
  BY EntriesAssumption DEF EntriesInv
<1>. QED BY <1>1, IdleCallSound, ImportsMove DEF Return

LEMMA CommitStep ==
    ASSUME EntriesInv, NEW c \in Callers, CommitQuarantineImport(c)
    PROVE  Effect /\ ImportsStay
<1>1. /\ UNCHANGED next_id /\ next_id \in Nat
      /\ next_id' \in 0..MaxId /\ next_id <= next_id'
  BY EntriesAssumption DEF CommitQuarantineImport, EntriesInv
<1>2. CASE Refused("PolicyDenied") /\ Return(c)
  BY <1>1, <1>2, ReturnStep, RefusedEffect DEF Results
<1>3. CASE Readable /\ Store(state.entries, "PayloadTooLarge") /\ Return(c)
  BY <1>1, <1>3, ReturnStep, StoreEffect, ReadableSound DEF Results
<1>4. CASE /\ Readable
           /\ Store(state.entries \o call[c].incoming, "Ok")
           /\ call' = [call EXCEPT ![c].pc = "count"]
  <2>1. /\ call[c] \in ImportCall
        /\ Sound(call[c].incoming, next_id) /\ Valid(call[c].incoming)
    BY DEF EntriesInv
  <2>2. decodes(call[c].incoming)
    BY <2>1 DEF Valid, decodes
  <2>3. /\ Sound(state.entries \o call[c].incoming, next_id)
        /\ decodes(state.entries \o call[c].incoming)
    BY <1>1, <1>4, <2>1, <2>2, ReadableSound, AppendedSound
  <2>4. Effect
    BY <1>1, <1>4, <2>3, StoreEffect DEF Results
  <2>. DEFINE new == [call[c] EXCEPT !.pc = "count"]
  <2>5. new \in ImportCall /\ new.incoming = call[c].incoming /\ call' = [call EXCEPT ![c] = new]
    BY <1>4, <2>1 DEF ImportCall
  <2>. HIDE DEF new
  <2>6. ImportsStay
    BY <1>1, <2>1, <2>5, ImportsMove
  <2>. QED BY <2>4, <2>6
<1>. QED BY <1>2, <1>3, <1>4 DEF CommitQuarantineImport

LEMMA ReportStep ==
    ASSUME EntriesInv, NEW c \in Callers, ReportTotal(c)
    PROVE  Effect /\ ImportsStay
<1>1. /\ UNCHANGED next_id /\ next_id \in Nat
      /\ next_id' \in 0..MaxId /\ next_id <= next_id' /\ Return(c)
  BY EntriesAssumption DEF ReportTotal, EntriesInv
<1>2. Effect
  BY <1>1, RefusedEffect DEF ReportTotal, Effect, Results
<1>. QED BY <1>1, <1>2, ReturnStep

\* Every step keeps the invariant, and one that returns Ok leaves a payload that decodes.
LEMMA EntriesNext ==
    ASSUME EntriesInv, Next
    PROVE  EntriesInv' /\ (result' = "Ok" => Readable')
<1>0. next_id \in Nat /\ next_id <= next_id
  BY EntriesAssumption DEF EntriesInv
<1>1. CASE Lock
  <2>1. ImportsStay
    BY <1>0, <1>1, ImportsSame DEF Lock
  <2>. QED BY <1>1, <2>1 DEF Lock, EntriesInv, ImportsStay, Results
<1>2. ASSUME NEW c \in Callers, NEW policy \in Policies, NEW entries \in Payloads,
             Unlock(c, policy, entries)
      PROVE  EntriesInv' /\ (result' = "Ok" => Readable')
  <2>1. ImportsStay
    BY <1>0, <1>2, ImportsSame DEF Unlock
  <2>2. Sound(entries, next_id)
    BY <1>0, PayloadSound DEF EntriesInv
  <2>3. state' \in Session /\ state'.entries = entries
    BY <1>2, <2>2 DEF Unlock, Session, Sound
  <2>. QED BY <1>2, <2>1, <2>2, <2>3 DEF Unlock, EntriesInv, ImportsStay, Results
<1>3. ASSUME NEW c \in Callers, Crud(c)
      PROVE  EntriesInv' /\ (result' = "Ok" => Readable')
  <2>1. Effect /\ UNCHANGED call
    BY <1>3, CrudEffect, CrudLeavesImports
  <2>2. next_id' \in Nat /\ next_id <= next_id'
    BY <2>1, EntriesAssumption DEF Effect
  <2>. QED BY <2>1, <2>2, ImportsSame, EffectKeeps
<1>4. ASSUME NEW c \in Callers, Import(c)
      PROVE  EntriesInv' /\ (result' = "Ok" => Readable')
  <2>1. Effect /\ ImportsStay
    BY <1>4, QuarantineStep, CommitStep, ReportStep DEF Import
  <2>. QED BY <2>1, EffectKeeps
<1>. QED BY <1>1, <1>2, <1>3, <1>4 DEF Next

LEMMA EntriesStep == EntriesInv /\ [Next]_vars => EntriesInv'
<1>. SUFFICES ASSUME EntriesInv, UNCHANGED vars PROVE EntriesInv'
  BY EntriesNext
<1>. QED BY DEF EntriesInv, vars

LEMMA EntriesAlways == Spec => []EntriesInv
  BY EntriesInit, EntriesStep, PTL DEF Spec

\* Every variable keeps its type; no text that a validator rejects, and no identifier
\* that was not drawn, gets into the payload or into a quarantine.
THEOREM TypeCorrect == Spec => []TypeOK
<1>1. EntriesInv => TypeOK
  BY DEF EntriesInv, TypeOK, Sound
<1>. QED BY <1>1, EntriesAlways, PTL

\* In a payload that decodes every TOTP entry has its block's secret, whatever updates
\* failed half-way before.
THEOREM SecretsAgree == Spec => []SecretMirrorsTotp
<1>1. EntriesInv => SecretMirrorsTotp
  BY DEF EntriesInv, SecretMirrorsTotp, Sound, Readable, decodes
<1>. QED BY <1>1, EntriesAlways, PTL

\* An operation that returns Ok leaves a payload that decodes again.
THEOREM OkIsReadable == Spec => OkLeavesReadable
<1>1. EntriesInv /\ [Next]_vars => [result' = "Ok" => Readable']_vars
  BY EntriesNext
<1>. QED BY <1>1, EntriesAlways, PTL DEF Spec, OkLeavesReadable

----------------------------------------------------------------------------
(* Where unreadable payloads come from.                                    *)

\* An update that sets neither the secret nor the TOTP block leaves what the invariants
\* of an entry are about alone, even when it fails half-way.
SameKind(r, e) == r.entry.entry_type = e.entry_type /\ r.entry.totp = e.totp

LEMMA StepSameKind ==
    ASSUME NEW u \in Updates, NEW f \in AllFields, f \in {"secret", "totp"} => u[f] = {},
           NEW r, NEW id, Sane(r, id), NEW e, SameKind(r, e)
    PROVE  SameKind(Step(r, u, f), e)
<1>1. CASE ~r.ok \/ u[f] = {}
  <2>1. Step(r, u, f) = r
    BY <1>1 DEF Step
  <2>. QED BY <2>1
<1>2. CASE r.ok /\ u[f] # {}
  <2>1. r.entry \in VaultEntry
    BY DEF Sane
  <2>. DEFINE v == Value(u[f])
              new == [r.entry EXCEPT ![f] = v]
  <2>2. f \in {"title", "note", "username", "extra"}
    BY <1>2 DEF AllFields
  <2>3. new.entry_type = r.entry.entry_type /\ new.totp = r.entry.totp
    BY <2>1, <2>2 DEF VaultEntry
  <2>4. Step(r, u, f) = Done(new, TRUE) \/ Step(r, u, f) = Done(r.entry, FALSE)
    <3>1. CASE f = "extra"
      BY <1>2, <3>1 DEF Step
    <3>2. CASE f \in {"title", "note", "username"}
      <4>1. Step(r, u, f) = set_text(r.entry, f, v)
        BY <1>2, <3>2 DEF Step
      <4>. QED BY <4>1 DEF set_text
    <3>. QED BY <2>2, <3>1, <3>2
  <2>5. Step(r, u, f).entry \in {new, r.entry}
    BY <2>4 DEF Done
  <2>. HIDE DEF new
  <2>. QED BY <2>3, <2>5 DEF SameKind
<1>3. r.ok \in BOOLEAN
  BY DEF Sane
<1>. QED BY <1>1, <1>2, <1>3

LEMMA UpdateSameKind ==
    ASSUME NEW e \in VaultEntry, InSync(e), NEW u \in Updates, u.secret = {}, u.totp = {}
    PROVE  SameKind(apply_update(e, u), e)
<1>. DEFINE P(r) == Sane(r, e.id) /\ SameKind(r, e)
<1>1. P(Done(e, TRUE))
  BY DoneSane DEF Done, SameKind
<1>2. ASSUME NEW r, P(r), NEW f \in AllFields PROVE P(Step(r, u, f))
  <2>1. f \in {"secret", "totp"} => u[f] = {}
    OBVIOUS
  <2>. QED BY <1>2, <2>1, StepSane, StepSameKind
<1>. HIDE DEF P
<1>3. P(Replaced(e, u))
  BY <1>1, <1>2 DEF Replaced, AllFields
<1>. QED BY <1>3 DEF P, SameKind, apply_update, Checked, Done

\* Callers that update neither field never make a payload unreadable.
NoSecretUpdates == Fields \cap {"secret", "totp"} = {}

LEMMA FieldsReadable ==
    ASSUME NoSecretUpdates, EntriesInv, Readable, NEW c, NEW id, NEW u \in Updates,
           update_entry_fields(c, id, u)
    PROVE  Readable'
<1>. DEFINE E == state.entries
            i == Position(E, id)
            r == apply_update(E[i], u)
<1>0. state \in Session /\ Sound(E, next_id) /\ decodes(E) /\ E \in Seq(VaultEntry) /\ next_id \in Nat
  BY ReadableSound, EntriesAssumption DEF EntriesInv
<1>1. ASSUME NEW entries, NEW res, Store(entries, res), decodes(entries), entries \in Seq(VaultEntry)
      PROVE  Readable'
  <2>1. state' \in Session /\ state'.entries = entries
    BY <1>0, <1>1 DEF Store, Session
  <2>. QED BY <1>1, <2>1, InputAssumption DEF Readable
<1>2. CASE HasId(E, id) /\ Store([E EXCEPT ![i] = r.entry], IF r.ok THEN "Ok" ELSE "Invalid")
  <2>1. i \in DOMAIN E
    BY <1>0, <1>2, PositionFound
  <2>. HIDE DEF i
  <2>2. E[i] \in VaultEntry /\ InSync(E[i]) /\ validate_invariants(E[i]) /\ E[i].id <= next_id
    BY <1>0, <2>1 DEF Sound, decodes
  <2>3. u.secret = {} /\ u.totp = {}
    BY DEF Updates, Option, NoSecretUpdates
  <2>4. SameKind(r, E[i]) /\ Sane(r, E[i].id)
    BY <2>2, <2>3, UpdateSameKind, UpdateSane
  <2>5. validate_invariants(r.entry)
    BY <2>2, <2>4 DEF SameKind, validate_invariants
  <2>6. r.entry \in VaultEntry /\ r.entry.id <= next_id /\ InSync(r.entry)
    BY <2>2, <2>4, <2>5 DEF Sane
  <2>. HIDE DEF r, E
  <2>7. Sound([E EXCEPT ![i] = r.entry], next_id) /\ decodes([E EXCEPT ![i] = r.entry])
    BY <1>0, <2>1, <2>5, <2>6, ReplacedSound
  <2>. QED BY <1>1, <1>2, <2>7 DEF Sound
<1>. QED BY <1>0, <1>1, <1>2 DEF update_entry_fields, Refused

LEMMA ReadableStep ==
    ASSUME NoSecretUpdates, \A entries \in Payloads : decodes(entries)
    PROVE  EntriesInv /\ PayloadStaysReadable /\ [Next]_vars => PayloadStaysReadable'
<1>. SUFFICES ASSUME EntriesInv, PayloadStaysReadable, [Next]_vars PROVE PayloadStaysReadable'
  OBVIOUS
<1>1. CASE UNCHANGED vars
  BY <1>1 DEF vars, PayloadStaysReadable, Readable
<1>2. CASE Lock
  BY <1>2 DEF Lock, PayloadStaysReadable
<1>3. ASSUME NEW c \in Callers, NEW policy \in Policies, NEW entries \in Payloads,
             Unlock(c, policy, entries)
      PROVE  PayloadStaysReadable'
  BY <1>3 DEF Unlock, PayloadStaysReadable, Readable
<1>4. ASSUME Effect, result' # "Invalid" PROVE PayloadStaysReadable'
  <2>1. CASE UNCHANGED state
    BY <2>1 DEF PayloadStaysReadable, Readable
  <2>2. ASSUME Readable, NEW entries, state' = [state EXCEPT !.entries = entries], decodes(entries)
        PROVE  PayloadStaysReadable'
    <3>1. state'.entries = entries
      BY <2>2, ReadableSound DEF Session
    <3>. QED BY <2>2, <3>1 DEF PayloadStaysReadable, Readable
  <2>. QED BY <1>4, <2>1, <2>2 DEF Effect
<1>5. ASSUME NEW c \in Callers, Crud(c) PROVE PayloadStaysReadable'
  <2>1. CASE result' # "Invalid"
    BY <1>4, <1>5, <2>1, CrudEffect
  <2>2. CASE result' = "Invalid"
    <3>1. PICK id \in 1..next_id, u \in Updates : update_entry_fields(c, id, u)
      BY <1>5, <2>2 DEF Crud, add_entry, update_entry, delete_entry, Refused, Store
    <3>2. state # Locked
      BY <2>2, <3>1 DEF update_entry_fields, Refused, Readable
    <3>3. Readable'
      BY <3>1, <3>2, FieldsReadable DEF PayloadStaysReadable
    <3>. QED BY <3>3 DEF PayloadStaysReadable
  <2>. QED BY <2>1, <2>2
<1>6. ASSUME NEW c \in Callers, Import(c) PROVE PayloadStaysReadable'
  <2>1. Effect
    BY <1>6, QuarantineStep, CommitStep, ReportStep DEF Import
  <2>2. result' # "Invalid"
    BY <1>6 DEF Import, ImportToQuarantine, CommitQuarantineImport, ReportTotal, Refused, Store
  <2>. QED BY <1>4, <2>1, <2>2
<1>. QED BY <1>1, <1>2, <1>3, <1>5, <1>6 DEF Next

\* A payload becomes unreadable only by an update of a secret or of a TOTP block: where
\* callers of update_entry_fields set neither, the payload of an open session always
\* decodes, whatever updates were rejected half-way and however imports interleave.
THEOREM OnlySecretUpdatesCorrupt ==
    ASSUME NoSecretUpdates, \A entries \in Payloads : decodes(entries)
    PROVE  Spec => []PayloadStaysReadable
<1>1. EntriesInv /\ PayloadStaysReadable /\ [Next]_vars => PayloadStaysReadable'
  BY ReadableStep
<1>2. Init => PayloadStaysReadable
  BY DEF Init, PayloadStaysReadable
<1>. QED BY <1>1, <1>2, EntriesAlways, PTL DEF Spec

----------------------------------------------------------------------------
(* Identifiers.                                                            *)

\* No two entries of the session share an identifier, and neither do the entries that
\* an import is about to append, among themselves or with the session's.
IdsInv ==
    /\ UniqueIds
    /\ \A c \in Callers : call[c].pc = "commit" =>
         /\ DistinctIds(call[c].incoming)
         /\ state # Locked =>
              \A i \in DOMAIN state.entries, j \in DOMAIN call[c].incoming :
                 state.entries[i].id # call[c].incoming[j].id

LEMMA IdsInit == Init => IdsInv
  BY DEF Init, IdsInv, UniqueIds, IdleCall

LEMMA AppendedDistinct ==
    ASSUME NEW entries \in Seq(VaultEntry), NEW more \in Seq(VaultEntry),
           DistinctIds(entries), DistinctIds(more),
           \A i \in DOMAIN entries, j \in DOMAIN more : entries[i].id # more[j].id
    PROVE  DistinctIds(entries \o more)
<1>. DEFINE all == entries \o more
            n == Len(entries)
<1>1. /\ n \in Nat /\ Len(more) \in Nat /\ DOMAIN all = 1..(n + Len(more))
      /\ DOMAIN entries = 1..n /\ DOMAIN more = 1..Len(more)
  OBVIOUS
<1>2. \A j \in DOMAIN all :
         \/ j \in DOMAIN entries /\ all[j] = entries[j]
         \/ j - n \in DOMAIN more /\ all[j] = more[j - n]
  BY <1>1
<1>. HIDE DEF all, n
<1>3. ASSUME NEW i \in DOMAIN all, NEW j \in DOMAIN all, all[i].id = all[j].id
      PROVE  i = j
  <2>1. CASE i \in DOMAIN entries /\ all[i] = entries[i] /\ j \in DOMAIN entries /\ all[j] = entries[j]
    BY <1>3, <2>1 DEF DistinctIds
  <2>2. CASE i - n \in DOMAIN more /\ all[i] = more[i - n] /\ j - n \in DOMAIN more /\ all[j] = more[j - n]
    <3>1. i - n = j - n
      BY <1>3, <2>2 DEF DistinctIds
    <3>. QED BY <1>1, <3>1
  <2>. QED BY <1>2, <1>3, <2>1, <2>2
<1>. QED BY <1>3 DEF DistinctIds, all

\* An entry is replaced by one with its identifier.
LEMMA ReplacedDistinct ==
    ASSUME NEW entries \in Seq(VaultEntry), DistinctIds(entries), NEW i \in DOMAIN entries,
           NEW e, e.id = entries[i].id
    PROVE  DistinctIds([entries EXCEPT ![i] = e])
<1>. DEFINE new == [entries EXCEPT ![i] = e]
<1>1. DOMAIN new = DOMAIN entries /\ \A j \in DOMAIN entries : new[j] = IF j = i THEN e ELSE entries[j]
  OBVIOUS
<1>. HIDE DEF new
<1>2. \A j \in DOMAIN entries : new[j].id = entries[j].id
  BY <1>1
<1>3. DistinctIds(new)
  BY <1>1, <1>2 DEF DistinctIds
<1>. QED BY <1>3 DEF new

LEMMA RetainedDistinct ==
    ASSUME NEW entries \in Seq(VaultEntry), DistinctIds(entries), NEW id
    PROVE  DistinctIds(retained(entries, id))
<1>. DEFINE kept == {i \in DOMAIN entries : entries[i].id # id}
            new == retained(entries, id)
<1>1. kept \in SUBSET (DOMAIN entries) /\ new = Collected(entries, kept)
  BY DEF retained
<1>. HIDE DEF kept, new
<1>2. /\ DOMAIN new = 1..Cardinality(kept)
      /\ \A k \in DOMAIN new : Source(kept, k) \in DOMAIN entries /\ new[k] = entries[Source(kept, k)]
      /\ \A k, l \in DOMAIN new : Source(kept, k) = Source(kept, l) => k = l
  BY <1>1, CollectedProperties
<1>3. DistinctIds(new)
  BY <1>2 DEF DistinctIds
<1>. QED BY <1>3 DEF new

\* Every operation on the entries of a session keeps their identifiers apart: add_entry
\* refuses one that is in use, and an update keeps the one there is.
LEMMA CrudDistinct ==
    ASSUME KeepIds, EntriesInv, UniqueIds, NEW c, Crud(c)
    PROVE  UniqueIds'
<1>. DEFINE E == state.entries
<1>1. ASSUME UNCHANGED state PROVE UniqueIds'
  BY <1>1 DEF UniqueIds
<1>2. ASSUME Readable, NEW entries, NEW res, Store(entries, res), DistinctIds(entries)
      PROVE  UniqueIds'
  <2>1. state'.entries = entries
    BY <1>2, ReadableSound DEF Store, Session
  <2>. QED BY <1>2, <2>1 DEF UniqueIds
<1>3. Readable => E \in Seq(VaultEntry) /\ DistinctIds(E)
  BY ReadableSound DEF UniqueIds, Readable
<1>4. ASSUME NEW id \in Identifiers, NEW e \in Constructed(id), add_entry(c, e)
      PROVE  UniqueIds'
  <2>1. CASE /\ Readable /\ ~is_duplicate(E, e.id)
             /\ Store(Append(E, e), "Ok")
    <3>1. id \in Id
      BY EntriesAssumption DEF EntriesInv, Identifiers, Id
    <3>2. e \in VaultEntry
      BY <3>1, <1>4, ConstructedValid
    <3>3. Append(E, e) = E \o <<e>> /\ <<e>> \in Seq(VaultEntry) /\ DistinctIds(<<e>>)
      BY <1>3, <2>1, <3>2 DEF DistinctIds
    <3>4. \A i \in DOMAIN E, j \in DOMAIN <<e>> : E[i].id # <<e>>[j].id
      BY <2>1 DEF is_duplicate, HasId
    <3>. HIDE DEF E
    <3>5. DistinctIds(Append(E, e))
      BY <1>3, <2>1, <3>3, <3>4, AppendedDistinct
    <3>. QED BY <1>2, <2>1, <3>5
  <2>. QED BY <1>1, <1>2, <1>3, <1>4, <2>1 DEF add_entry, Refused
<1>5. ASSUME NEW id \in 1..next_id, NEW e \in Constructed(id), update_entry(c, id, e)
      PROVE  UniqueIds'
  <2>1. CASE /\ Readable /\ HasId(E, id)
             /\ Store([E EXCEPT ![Position(E, id)] = e], "Ok")
    <3>1. id \in Id
      BY EntriesAssumption DEF EntriesInv, Id
    <3>2. e.id = id
      BY <3>1, <1>5, ConstructedValid
    <3>3. Position(E, id) \in DOMAIN E /\ E[Position(E, id)].id = id
      BY <1>3, <2>1, PositionFound
    <3>. HIDE DEF E
    <3>4. DistinctIds([E EXCEPT ![Position(E, id)] = e])
      BY <1>3, <2>1, <3>2, <3>3, ReplacedDistinct
    <3>. QED BY <1>2, <2>1, <3>4
  <2>. QED BY <1>1, <1>2, <1>3, <1>5, <2>1 DEF update_entry, Refused
<1>6. ASSUME NEW id, NEW u \in Updates, update_entry_fields(c, id, u)
      PROVE  UniqueIds'
  <2>. DEFINE i == Position(E, id)
              r == apply_update(E[i], u)
  <2>1. CASE /\ Readable /\ HasId(E, id)
             /\ Store([E EXCEPT ![i] = r.entry], IF r.ok THEN "Ok" ELSE "Invalid")
    <3>1. i \in DOMAIN E
      BY <1>3, <2>1, PositionFound
    <3>. HIDE DEF i
    <3>2. E[i] \in VaultEntry /\ InSync(E[i])
      BY <1>3, <2>1, <3>1, ReadableSound DEF Sound, decodes
    <3>3. r.entry.id = E[i].id
      BY <3>2, UpdateSane DEF Sane
    <3>. HIDE DEF E, r
    <3>4. DistinctIds([E EXCEPT ![i] = r.entry])
      BY <1>3, <2>1, <3>1, <3>3, ReplacedDistinct
    <3>. QED BY <1>2, <2>1, <3>4
  <2>. QED BY <1>1, <1>2, <1>3, <1>6, <2>1 DEF update_entry_fields, Refused
<1>7. ASSUME NEW id, delete_entry(c, id)
      PROVE  UniqueIds'
  <2>1. ASSUME NEW res, Readable, Store(retained(E, id), res) PROVE UniqueIds'
    BY <1>2, <1>3, <2>1, RetainedDistinct
  <2>. QED BY <1>1, <1>7, <2>1 DEF delete_entry, Refused
<1>. QED BY <1>4, <1>5, <1>6, <1>7 DEF Crud

\* The identifiers of a quarantine were not drawn before.
LEMMA QuarantineDistinct ==
    ASSUME OneCaller, EntriesInv, IdsInv, NEW c \in Callers, NEW policy \in Supplied,
           NEW lines \in Exports, ImportToQuarantine(c, policy, lines)
    PROVE  IdsInv'
<1>. DEFINE keys == parsed_keys(lines)
            new == [pc |-> "commit", policy |-> policy, incoming |-> quarantined(keys)]
<1>0. CASE ~allow_exposure(policy)
  BY <1>0 DEF ImportToQuarantine, IdsInv, UniqueIds
<1>a. SUFFICES ASSUME allow_exposure(policy) PROVE IdsInv'
  BY <1>0
<1>1. /\ next_id + Len(keys) <= MaxId /\ call' = [call EXCEPT ![c] = new] /\ UNCHANGED state
  BY <1>a DEF ImportToQuarantine
<1>2. Len(keys) \in Nat /\ DOMAIN keys = 1..Len(keys) /\ next_id \in Nat
  BY KeysCounted, EntriesAssumption DEF EntriesInv
<1>. HIDE DEF keys
<1>3. /\ DOMAIN quarantined(keys) = 1..Len(keys)
      /\ \A k \in 1..Len(keys) : quarantined(keys)[k].id = next_id + k
  BY <1>1, <1>2, QuarantinedValid
<1>4. DistinctIds(quarantined(keys))
  BY <1>2, <1>3 DEF DistinctIds
<1>5. state # Locked => \A i \in DOMAIN state.entries : /\ state.entries[i].id <= next_id
                                                        /\ state.entries[i].id \in Nat
  <2>1. state # Locked => /\ \A i \in DOMAIN state.entries : state.entries[i] \in VaultEntry
                          /\ Sound(state.entries, next_id)
    BY DEF EntriesInv, Session, Sound
  <2>. QED BY <2>1, EntriesAssumption DEF VaultEntry, Id, Sound
<1>6. state # Locked =>
        \A i \in DOMAIN state.entries, j \in DOMAIN quarantined(keys) :
           state.entries[i].id # quarantined(keys)[j].id
  BY <1>2, <1>3, <1>5
<1>7. \A d \in Callers : call'[d].incoming = quarantined(keys)
  BY <1>1 DEF EntriesInv, OneCaller
<1>8. UniqueIds'
  BY <1>1 DEF IdsInv, UniqueIds
<1>. QED BY <1>1, <1>4, <1>6, <1>7, <1>8 DEF IdsInv

LEMMA CommitDistinct ==
    ASSUME OneCaller, EntriesInv, IdsInv, NEW c \in Callers, CommitQuarantineImport(c)
    PROVE  IdsInv'
<1>. DEFINE E == state.entries
            more == call[c].incoming
<1>1. \A d \in Callers : call'[d].pc # "commit"
  BY DEF CommitQuarantineImport, Return, IdleCall, EntriesInv, ImportCall, OneCaller
<1>2. UniqueIds'
  <2>1. CASE UNCHANGED state
    BY <2>1 DEF IdsInv, UniqueIds
  <2>2. ASSUME Readable, NEW entries, NEW res, Store(entries, res), DistinctIds(entries)
        PROVE  UniqueIds'
    <3>1. state'.entries = entries
      BY <2>2, ReadableSound DEF Store, Session
    <3>. QED BY <2>2, <3>1 DEF UniqueIds
  <2>3. Readable => E \in Seq(VaultEntry) /\ DistinctIds(E)
    BY ReadableSound DEF UniqueIds, IdsInv, Readable
  <2>4. /\ more \in Seq(VaultEntry) /\ DistinctIds(more)
        /\ Readable => \A i \in DOMAIN E, j \in DOMAIN more : E[i].id # more[j].id
    BY DEF EntriesInv, ImportCall, IdsInv, CommitQuarantineImport, Readable
  <2>. HIDE DEF E, more
  <2>5. Readable => DistinctIds(E \o more)
    BY <2>3, <2>4, AppendedDistinct
  <2>. QED BY <2>1, <2>2, <2>3, <2>5 DEF CommitQuarantineImport, Refused, E, more
<1>. QED BY <1>1, <1>2 DEF IdsInv

LEMMA IdsStep ==
    ASSUME OneCaller, KeepIds
    PROVE  EntriesInv /\ IdsInv /\ [Next]_vars => IdsInv'
<1>. SUFFICES ASSUME EntriesInv, IdsInv, [Next]_vars PROVE IdsInv'
  OBVIOUS
<1>1. CASE UNCHANGED vars
  BY <1>1 DEF vars, IdsInv, UniqueIds
<1>2. CASE Lock
  BY <1>2 DEF Lock, IdsInv, UniqueIds
<1>3. ASSUME NEW c \in Callers, NEW policy \in Policies, NEW entries \in Payloads,
             Unlock(c, policy, entries)
      PROVE  IdsInv'
  <2>1. \A d \in Callers : call'[d].pc = "idle"
    BY <1>3 DEF Unlock, Idle, OneCaller
  <2>2. DistinctIds(entries) /\ state'.entries = entries
    BY <1>3, PayloadAssumption DEF Unlock
  <2>. QED BY <2>1, <2>2 DEF IdsInv, UniqueIds
<1>4. ASSUME NEW c \in Callers, Crud(c) PROVE IdsInv'
  <2>1. Idle(c) /\ UNCHANGED call
    BY <1>4, CrudLeavesImports DEF Crud, add_entry, update_entry, update_entry_fields, delete_entry
  <2>2. \A d \in Callers : call'[d].pc = "idle"
    BY <2>1 DEF Idle, OneCaller
  <2>3. UniqueIds'
    BY <1>4, CrudDistinct DEF IdsInv
  <2>. QED BY <2>2, <2>3 DEF IdsInv
<1>5. ASSUME NEW c \in Callers, ReportTotal(c) PROVE IdsInv'
  <2>1. UNCHANGED state /\ \A d \in Callers : call'[d].pc # "commit"
    BY <1>5 DEF ReportTotal, Refused, Return, IdleCall, EntriesInv, OneCaller
  <2>. QED BY <2>1 DEF IdsInv, UniqueIds
<1>. QED BY <1>1, <1>2, <1>3, <1>4, <1>5, QuarantineDistinct, CommitDistinct DEF Next, Import

\* For callers that take turns and keep the identifier of an entry they replace, no two
\* entries ever share one: through CRUD, imports that a lock interrupts, and sessions.
THEOREM IdsAreUnique ==
    ASSUME OneCaller, KeepIds
    PROVE  Spec => []UniqueIds
<1>1. EntriesInv /\ IdsInv /\ [Next]_vars => IdsInv'
  BY IdsStep
<1>2. IdsInv => UniqueIds
  BY DEF IdsInv
<1>. QED BY <1>1, <1>2, EntriesAlways, IdsInit, PTL DEF Spec
=============================================================================
