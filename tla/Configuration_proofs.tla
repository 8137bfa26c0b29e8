------------------------ MODULE Configuration_proofs ------------------------
(***************************************************************************)
(* Proofs about Configuration, for any documents, zones and bounds.        *)
(***************************************************************************)
EXTENDS Configuration, WellFoundedInduction, TLAPS

-----------------------------------------------------------------------------
(* What normalizeStrings keeps of a list.                                  *)

(* Induction, for a set of numbers.                                        *)
LEMMA SetInduction ==
    ASSUME NEW S \in SUBSET Nat, 0 \in S, \A n \in S : n + 1 \in S
    PROVE  S = Nat
<1> DEFINE R == OpToRel(<, Nat)
           missing == Nat \ S
<1> SUFFICES ASSUME missing # {} PROVE FALSE
  OBVIOUS
<1>1. IsWellFoundedOn(R, Nat)
  BY NatLessThanWellFounded
<1>2. PICK x \in missing : \A y \in missing : ~ (<<y, x>> \in R)
  BY <1>1, WFMin
<1>3. \A y \in missing : ~ (y < x)
  BY <1>2 DEF OpToRel
<1> HIDE DEF R
<1>4. x - 1 \in Nat /\ x = (x - 1) + 1
  BY <1>2
<1>5. x - 1 \in S
  BY <1>3, <1>4
<1> QED
  BY <1>2, <1>4, <1>5

(* The equation of the recursion in NormalizeStrings, up to n entries.     *)
Kept(g, n, values, lower) ==
    g = [k \in 0..n |-> IF k = 0 THEN <<>>
                        ELSE KeepNew(g[k - 1], values[k], lower)]

(* It has a solution.                                                      *)
LEMMA KeptExists ==
    ASSUME NEW values, NEW lower, NEW n \in Nat
    PROVE  \E g : Kept(g, n, values, lower)
<1> DEFINE S == {m \in Nat : \E g : Kept(g, m, values, lower)}
<1>1. 0 \in S
  <2> DEFINE g == [k \in 0..0 |-> <<>>]
  <2>1. \A k \in 0..0 : k = 0
    OBVIOUS
  <2>2. g = [k \in 0..0 |-> IF k = 0 THEN <<>>
                            ELSE KeepNew(g[k - 1], values[k], lower)]
    BY <2>1
  <2> QED
    BY <2>2 DEF Kept
<1>2. ASSUME NEW m \in S PROVE m + 1 \in S
  <2>1. PICK g : Kept(g, m, values, lower)
    BY <1>2
  <2> DEFINE h == [k \in 0..(m + 1) |->
                     IF k = m + 1 THEN KeepNew(g[m], values[m + 1], lower)
                     ELSE g[k]]
             body(k) == IF k = 0 THEN <<>>
                        ELSE KeepNew(h[k - 1], values[k], lower)
  <2>2. \A k \in 0..m : g[k] = IF k = 0 THEN <<>>
                               ELSE KeepNew(g[k - 1], values[k], lower)
    BY <2>1 DEF Kept
  <2>3. \A k \in 0..(m + 1) : h[k] = body(k)
    <3> SUFFICES ASSUME NEW k \in 0..(m + 1) PROVE h[k] = body(k)
      OBVIOUS
    <3>1. m \in Nat
      OBVIOUS
    <3>2. CASE k = m + 1
      <4>1. k # 0 /\ k - 1 = m /\ m \in 0..(m + 1) /\ m # m + 1
        BY <3>1, <3>2
      <4>2. h[k - 1] = g[m]
        BY <4>1
      <4> QED
        BY <3>2, <4>1, <4>2
    <3>3. CASE k = 0
      BY <2>2, <3>1, <3>3
    <3>4. CASE k \in 1..m
      <4>1. /\ k \in 0..m /\ k # 0 /\ k # m + 1
            /\ k - 1 \in 0..(m + 1) /\ k - 1 # m + 1
        BY <3>1, <3>4
      <4>2. h[k - 1] = g[k - 1] /\ h[k] = g[k]
        BY <4>1
      <4> QED
        BY <2>2, <4>1, <4>2
    <3> QED
      BY <3>1, <3>2, <3>3, <3>4
  <2>4. h = [k \in 0..(m + 1) |-> body(k)]
    BY <2>3
  <2>5. Kept(h, m + 1, values, lower)
    BY <2>4 DEF Kept
  <2> QED
    BY <2>5
<1>3. S = Nat
  <2> HIDE DEF S
  <2>1. S \in SUBSET Nat
    BY DEF S
  <2> QED
    BY <1>1, <1>2, <2>1, SetInduction
<1> QED
  BY <1>3

(* NormalizeStrings is the last value of one.                              *)
LEMMA NormalizeIs ==
    ASSUME NEW values \in Seq(Text), NEW lower
    PROVE  \E g : /\ Kept(g, Len(values), values, lower)
                  /\ NormalizeStrings(values, lower) = g[Len(values)]
<1>1. Len(values) \in Nat
  OBVIOUS
<1>2. \E g : Kept(g, Len(values), values, lower)
  BY <1>1, KeptExists
<1> QED
  BY <1>2 DEF NormalizeStrings, Kept

(* The words that a list has.                                              *)
Words(list) == {t.word : t \in Range(list)}

(* An entry adds its word, unless it is blank.                             *)
LEMMA KeepNewFacts ==
    ASSUME NEW out \in Seq(Text), NEW t \in Text, NEW lower
    PROVE  /\ KeepNew(out, t, lower) \in Seq(Text)
           /\ Words(KeepNew(out, t, lower)) = Words(out) \cup ({t.word} \ {0})
<1> DEFINE u == Normalized(t, lower)
           n == Len(out)
<1>1. u \in Text /\ u.word = t.word
  BY DEF Normalized, ToLower, TrimSpace, Text
<1> HIDE DEF u
<1>2. n \in Nat /\ DOMAIN out = 1..n
  OBVIOUS
<1>3. CASE Blank(t)
  BY <1>3 DEF KeepNew, Blank
<1>4. CASE u \in Range(out)
  <2>1. KeepNew(out, t, lower) = out
    BY <1>4 DEF KeepNew, u
  <2>2. t.word \in Words(out)
    BY <1>1, <1>4 DEF Words
  <2>3. 0 \in Words(out) \/ t.word = 0 \/ t.word # 0
    OBVIOUS
  <2> QED
    BY <2>1, <2>2
<1>5. CASE ~Blank(t) /\ u \notin Range(out)
  <2>1. KeepNew(out, t, lower) = Append(out, u)
    BY <1>5 DEF KeepNew, u
  <2>2. Append(out, u) \in Seq(Text)
    BY <1>1
  <2>3. Range(Append(out, u)) = Range(out) \cup {u}
    <3> DEFINE q == Append(out, u)
    <3>1. /\ DOMAIN q = 1..(n + 1) /\ q[n + 1] = u
          /\ \A k \in 1..n : q[k] = out[k]
      BY <1>1
    <3>2. 1..(n + 1) = (1..n) \cup {n + 1}
      BY <1>2
    <3> HIDE DEF q, n
    <3>3. {q[k] : k \in (1..n) \cup {n + 1}} = {out[k] : k \in 1..n} \cup {u}
      BY <3>1, <3>2
    <3>4. Range(q) = {q[k] : k \in (1..n) \cup {n + 1}}
      BY <3>1, <3>2 DEF Range
    <3>5. Range(out) = {out[k] : k \in 1..n}
      BY <1>2 DEF Range
    <3> QED
      BY <3>3, <3>4, <3>5 DEF q
  <2>4. Words(Append(out, u)) = Words(out) \cup {t.word}
    BY <1>1, <2>3 DEF Words
  <2> QED
    BY <1>5, <2>1, <2>2, <2>4 DEF Blank
<1> QED
  BY <1>3, <1>4, <1>5

(* A normalised list has the words of the given one, but the empty word.   *)
LEMMA NormalizedWords ==
    ASSUME NEW values \in Seq(Text), NEW lower
    PROVE  Words(NormalizeStrings(values, lower)) = Words(values) \ {0}
<1> DEFINE N == Len(values)
           past(n) == {values[k].word : k \in 1..n}
<1>1. N \in Nat /\ DOMAIN values = 1..N
  OBVIOUS
<1>2. \A k \in 1..N : values[k] \in Text
  OBVIOUS
<1>3. PICK g : /\ Kept(g, N, values, lower)
               /\ NormalizeStrings(values, lower) = g[N]
  BY NormalizeIs
<1> HIDE DEF N
<1>4. \A k \in 0..N : g[k] = IF k = 0 THEN <<>>
                             ELSE KeepNew(g[k - 1], values[k], lower)
  BY <1>3 DEF Kept
<1> DEFINE Right(n) == g[n] \in Seq(Text) /\ Words(g[n]) = past(n) \ {0}
           S == {n \in Nat : n <= N => Right(n)}
<1>5. 0 \in S
  <2>1. g[0] = <<>>
    BY <1>1, <1>4
  <2>2. past(0) = {}
    OBVIOUS
  <2>3. Words(<<>>) = {}
    BY DEF Words, Range
  <2>4. <<>> \in Seq(Text)
    OBVIOUS
  <2>5. Right(0)
    <3> HIDE DEF past
    <3> QED
      BY Zenon, <2>1, <2>2, <2>3, <2>4
  <2> QED
    BY <2>5
<1>6. ASSUME NEW n \in S PROVE n + 1 \in S
  <2> SUFFICES ASSUME n + 1 <= N PROVE Right(n + 1)
    OBVIOUS
  <2>1. n \in Nat /\ n <= N /\ n + 1 \in 0..N /\ n + 1 \in 1..N /\ n + 1 # 0
    BY <1>1
  <2>2. Right(n)
    BY <2>1
  <2>3. g[n + 1] = KeepNew(g[n], values[n + 1], lower)
    <3>1. (n + 1) - 1 = n
      BY <2>1
    <3> QED
      BY <1>4, <2>1, <3>1
  <2>4. values[n + 1] \in Text
    BY <1>2, <2>1
  <2>5. past(n + 1) = past(n) \cup {values[n + 1].word}
    <3>1. 1..(n + 1) = (1..n) \cup {n + 1}
      BY <2>1
    <3> QED
      BY Zenon, <3>1
  <2> HIDE DEF past
  <2>6. g[n + 1] \in Seq(Text)
    BY <2>2, <2>3, <2>4, KeepNewFacts
  <2>7. Words(g[n + 1]) = Words(g[n]) \cup ({values[n + 1].word} \ {0})
    BY <2>2, <2>3, <2>4, KeepNewFacts
  <2>8. Words(g[n + 1]) = past(n + 1) \ {0}
    BY <2>2, <2>5, <2>7
  <2> QED
    BY <2>6, <2>8
<1>7. S = Nat
  <2> HIDE DEF S
  <2>1. S \in SUBSET Nat
    BY DEF S
  <2> QED
    BY <1>5, <1>6, <2>1, SetInduction
<1>8. Right(N)
  BY <1>1, <1>7
<1>9. Words(values) = past(N)
  BY <1>1 DEF Words, Range
<1> QED
  BY <1>3, <1>8, <1>9

(* A filter in force.                                                      *)
LEMMA FilterKept ==
    ASSUME NEW values \in Seq(Text), NEW lower, values # <<>>, FilterOK(values)
    PROVE  /\ NormalizeStrings(values, lower) # <<>>
           /\ Words(NormalizeStrings(values, lower)) = Words(values) \ {0}
<1>1. PICK t \in Range(values) : t.word # 0
  BY DEF FilterOK, Blank
<1>2. t.word \in Words(values) \ {0}
  BY <1>1 DEF Words
<1>3. Words(<<>>) = {}
  BY DEF Words, Range
<1> QED
  BY <1>2, <1>3, NormalizedWords

-----------------------------------------------------------------------------
(* The configuration in force.                                             *)

(* Each configuration has the same settings.                               *)
LEMMA SameSettings ==
    ASSUME NEW d
    PROVE  DOMAIN ParsedSettings(d) = DOMAIN ZeroConfig(TRUE)
BY DEF ParsedSettings, ZeroConfig

(* Which call of ParseConfig made it shows only in the location.           *)
LEMMA CallDoesNotMatter ==
    ASSUME NEW d, NEW n, NEW m, NEW f \in Settings
    PROVE  ParseConfig(d, n)[f] = ParseConfig(d, m)[f]
<1>1. f \in DOMAIN ParsedSettings(d) /\ f # "location"
  BY SameSettings DEF Settings
<1> QED
  BY <1>1 DEF ParseConfig

(* A configuration in force is that of the last document, which was valid. *)
IInv ==
    /\ applied \in Nat /\ generation \in Nat /\ document \in Documents
    /\ applied > 0 => generation > 0
    /\ InForce => Valid(document)
    /\ ReloadTakesEffect

(* No document yet.                                                        *)
LEMMA InitInv == Init => IInv
BY DEF Init, IInv, InForce, ReloadTakesEffect

(* ApplyConfig with a repetition, a change or an invalid document.         *)
LEMMA ApplyInv ==
    ASSUME IInv, NEW d \in Documents, Apply(d)
    PROVE  IInv'
<1> DEFINE cfg == ParseConfig(d, applied + 1)
<1>1. applied \in Nat /\ generation \in Nat /\ (applied > 0 => generation > 0)
  BY DEF IInv
<1>2. applied' = applied + 1 /\ document' = d
  BY DEF Apply
<1>3. \A f \in Settings : cfg[f] = ParseConfig(d, 0)[f]
  BY CallDoesNotMatter
<1> HIDE DEF cfg
<1>4. CASE /\ Valid(d) /\ generation > 0 /\ ~configError
           /\ Equivalent(config, cfg)
           /\ UNCHANGED <<config, configError, generation>>
  <2>1. ReloadTakesEffect'
    BY <1>2, <1>3, <1>4 DEF Equivalent, ReloadTakesEffect
  <2> QED
    BY <1>1, <1>2, <1>4, <2>1 DEF IInv, InForce
<1>5. CASE /\ Valid(d) /\ config' = cfg /\ configError' = FALSE
           /\ generation' = generation + 1
  <2>1. ReloadTakesEffect'
    BY <1>2, <1>3, <1>5 DEF ReloadTakesEffect
  <2> QED
    BY <1>1, <1>2, <1>5, <2>1 DEF IInv, InForce
<1>6. CASE configError' = TRUE /\ generation' = generation + 1
  BY <1>1, <1>2, <1>6 DEF IInv, InForce, ReloadTakesEffect
<1> QED
  BY <1>4, <1>5, <1>6 DEF Apply, cfg

(* The invariant holds throughout.                                         *)
LEMMA Inductive == Spec => []IInv
<1>1. IInv /\ [Next]_vars => IInv'
  <2> SUFFICES ASSUME IInv, [Next]_vars PROVE IInv'
    OBVIOUS
  <2>1. CASE UNCHANGED vars
    BY <2>1 DEF vars, IInv, InForce, ReloadTakesEffect
  <2> QED
    BY <2>1, ApplyInv DEF Next
<1> QED
  BY <1>1, InitInv, PTL DEF Spec

(* After a document was accepted each of its settings is in force:         *)
(* Equivalent compares all of them, so ApplyConfig never takes a change    *)
(* for a repetition.                                                       *)
THEOREM TakesEffect == Spec => []ReloadTakesEffect
<1>1. IInv => ReloadTakesEffect
  BY DEF IInv
<1> QED
  BY <1>1, Inductive, PTL

(* ApplyConfig with the document in force changes nothing, however many    *)
(* were applied before: the run that caused the repetition goes on.        *)
THEOREM RepetitionIgnored == Spec => RepetitionChangesNothing
<1>1. ASSUME IInv, NEW d \in Documents, Apply(d), InForce, document' = document
      PROVE  UNCHANGED <<config, configError, generation>>
  <2>1. d = document /\ Valid(d) /\ generation > 0 /\ ~configError
    BY <1>1 DEF Apply, IInv, InForce
  <2>2. \A f \in Settings : config[f] = ParseConfig(d, applied + 1)[f]
    BY <1>1, <2>1, CallDoesNotMatter DEF IInv, ReloadTakesEffect
  <2>3. Equivalent(config, ParseConfig(d, applied + 1))
    BY <2>2 DEF Equivalent
  <2> QED
    BY <1>1, <2>1, <2>3 DEF Apply
<1>2. IInv /\ [Next]_vars =>
        [InForce /\ document' = document =>
            UNCHANGED <<config, configError, generation>>]_vars
  BY <1>1 DEF Next
<1> QED
  BY <1>2, Inductive, PTL DEF Spec, RepetitionChangesNothing

(* A valid document of an enabled plugin has valid filters.                *)
LEMMA ValidFilters ==
    ASSUME NEW d, Valid(d), HostEnabled(d)
    PROVE  /\ FilterOK(StringList(d.providers))
           /\ FilterOK(StringList(d.include))
           /\ FilterOK(StringList(d.exclude))
BY DEF Valid

(* Each filter is a normalised list.                                       *)
LEMMA ParsedFilters ==
    ASSUME NEW d
    PROVE  /\ ParsedSettings(d).providers =
                 NormalizeStrings(StringList(d.providers), TRUE)
           /\ ParsedSettings(d).include =
                 NormalizeStrings(StringList(d.include), FALSE)
           /\ ParsedSettings(d).exclude =
                 NormalizeStrings(StringList(d.exclude), FALSE)
BY SMT DEF ParsedSettings

(* A filter that an accepted document gives is in force with exactly the   *)
(* words it names, for any list: what normalizeStrings drops is blank or   *)
(* there already, and normalizeFilterStrings refuses a list of blanks.     *)
THEOREM FiltersKept == Spec => []FiltersNeverWiden
<1>1. IInv => FiltersNeverWiden
  <2> DEFINE d == document
             filters == {"providers", "include", "exclude"}
  <2> SUFFICES ASSUME IInv, InForce, config.hostEnabled, NEW f \in filters,
                      d[f].kind # "null", d[f].items # <<>>
               PROVE  /\ config[f] # <<>>
                      /\ Words(config[f]) = Words(d[f].items) \ {0}
    BY DEF FiltersNeverWiden, Words
  <2>1. d \in Documents /\ Valid(d)
    BY DEF IInv
  <2>2. \A g \in Settings : config[g] = ParseConfig(d, 0)[g]
    BY DEF IInv, ReloadTakesEffect
  <2>3. HostEnabled(d)
    <3> SUFFICES ASSUME ~HostEnabled(d) PROVE FALSE
      OBVIOUS
    <3>1. ParseConfig(d, 0)["hostEnabled"] = FALSE
      BY DEF ParseConfig, ZeroConfig
    <3>2. "hostEnabled" \in Settings
      BY DEF Settings, ZeroConfig
    <3> QED
      BY <2>2, <3>1, <3>2
  <2>4. d[f].items \in Seq(Text) /\ StringList(d[f]) = d[f].items
    BY <2>1, DocumentAssumption DEF StringList
  <2>5. FilterOK(d[f].items)
    <3>1. FilterOK(StringList(d[f]))
      BY <2>1, <2>3, ValidFilters
    <3> QED
      BY <2>4, <3>1
  <2>6. \E lower : config[f] = NormalizeStrings(d[f].items, lower)
    <3>1. f \in Settings
      BY DEF Settings, ZeroConfig
    <3>2. ParseConfig(d, 0)[f] = ParsedSettings(d)[f]
      <4>1. f \in DOMAIN ParsedSettings(d) /\ f # "location"
        BY <3>1, SameSettings DEF Settings
      <4> QED
        BY <2>3, <4>1 DEF ParseConfig
    <3>3. \E lower :
             ParsedSettings(d)[f] = NormalizeStrings(StringList(d[f]), lower)
      BY ParsedFilters
    <3> QED
      BY <2>2, <2>4, <3>1, <3>2, <3>3
  <2> QED
    BY <2>4, <2>5, <2>6, FilterKept
<1> QED
  BY <1>1, Inductive, PTL
=============================================================================
