--------------------------- MODULE Configuration ---------------------------
(***************************************************************************)
(* From the document the host sends to the configuration in force:         *)
(* ParseConfig with its defaults, bounds and normalisations, and           *)
(* Equivalent, by which ApplyConfig tells a change from a repetition       *)
(* (internal/refreshquota/config.go and service.go).                       *)
(*                                                                         *)
(* A text is a word with or without blanks around it and capitals in it;   *)
(* word 0 is empty. An optional value is a sequence of at most one.        *)
(* Durations are in milliseconds; one that cannot be parsed is beyond all  *)
(* bounds.                                                                 *)
(***************************************************************************)
EXTENDS Integers, Sequences, SequencesExt

CONSTANTS
    Documents,     \* what the host may send
    KnownZones,    \* words that LoadLocation knows
    Local,         \* the word "local"
    OpenAI,        \* the word "openai"
    ExitProtocols, \* words of supportedExitProtocol
    MaxTimes,      \* maxTimePoints (64)
    MaxApplied     \* documents applied

ASSUME ConfigurationAssumption ==
    /\ OpenAI \in ExitProtocols /\ Local # 0
    /\ MaxTimes \in Nat /\ MaxApplied \in Nat

VARIABLES
    document,   \* observer: the last one applied
    applied,    \* how many were
    config, configError, generation

vars == <<document, applied, config, configError, generation>>

-----------------------------------------------------------------------------
Text == [word : Nat, padded : BOOLEAN, upper : BOOLEAN]

Word(n) == [word |-> n, padded |-> FALSE, upper |-> FALSE]

Empty == Word(0)

TrimSpace(t) == [t EXCEPT !.padded = FALSE]

ToLower(t) == [t EXCEPT !.upper = FALSE]

Blank(t) == t.word = 0

Given(opt, default) == IF opt = <<>> THEN default ELSE opt[1]

(* yaml.v3 decodes the filters as lists of texts.                          *)
ASSUME DocumentAssumption ==
    \A d \in Documents : \A f \in {"providers", "include", "exclude"} :
        d[f].items \in Seq(Text)

-----------------------------------------------------------------------------
(* UnmarshalYAML: a sequence, or a scalar that is split at its commas. A   *)
(* scalar has at least one item, which may be blank.                       *)
StringList(node) == IF node.kind = "null" THEN <<>> ELSE node.items

(* parseDailyTime: hours, minutes and perhaps seconds, in their range.     *)
DailyTimeOK(s) ==
    /\ Len(s) \in {2, 3}
    /\ s[1] \in 0..23 /\ \A k \in 2..Len(s) : s[k] \in 0..59

Seconds(s) == s[1] * 3600 + s[2] * 60 + (IF Len(s) = 3 THEN s[3] ELSE 0)

(* The first of the entries that mean the same time stays.                 *)
DistinctTimes(values) ==
    FoldLeft(LAMBDA out, s :
                 IF \E k \in DOMAIN out : Seconds(out[k]) = Seconds(s)
                 THEN out ELSE Append(out, s),
             <<>>, values)

NormalizeTimes(values) ==
    LET kept == DistinctTimes(values)
        seconds == [k \in DOMAIN kept |-> Seconds(kept[k])]
    IN SortSeq(seconds, <)

Normalized(t, lower) == IF lower THEN ToLower(TrimSpace(t)) ELSE TrimSpace(t)

(* One round of the loop: blank entries and repetitions are left out.      *)
KeepNew(out, t, lower) ==
    IF Blank(t) \/ Normalized(t, lower) \in Range(out) THEN out
    ELSE Append(out, Normalized(t, lower))

NormalizeStrings(values, lower) ==
    LET kept[n \in 0..Len(values)] ==
            IF n = 0 THEN <<>> ELSE KeepNew(kept[n - 1], values[n], lower)
    IN kept[Len(values)]

(* Mutant: a list without a word in it is a list without entries.          *)
FilterAlwaysOK(values) == TRUE

(* normalizeFilterStrings refuses a list that has entries, all blank.      *)
FilterOK(values) == values # <<>> => \E t \in Range(values) : ~Blank(t)

-----------------------------------------------------------------------------
ZoneOK(t) == Blank(t) \/ t.word = Local \/ (t.word \in KnownZones /\ ~t.upper)

TimeZone(t) == IF Blank(t) THEN [Word(Local) EXCEPT !.upper = TRUE]
               ELSE TrimSpace(t)

(* time.Local is one object, LoadLocation makes a new one each time.       *)
Location(t, n) == IF t.word \in {0, Local} THEN 0 ELSE n

Protocol(t) == IF Blank(t) THEN OpenAI ELSE t.word

Schedulable(d) ==
    d.schedule => /\ StringList(d.times) # <<>> /\ ~Blank(d.model)
                  /\ ~Blank(d.message)

HostEnabled(d) == Given(d.enabled, TRUE)

(* Each setting, or its default, is within its bounds.                     *)
WithinBounds(d) ==
    /\ Given(d.maxTokens, 16) \in 1..4096
    /\ Given(d.delay, 1000) \in 0..3600000
    /\ Given(d.sync, 5000) \in 100..60000
    /\ Given(d.timeout, 120000) \in 1000..1800000

Valid(d) ==
    /\ d.well
    /\ HostEnabled(d) =>
        /\ ZoneOK(d.timezone)
        /\ WithinBounds(d)
        /\ Len(StringList(d.times)) <= MaxTimes
        /\ \A s \in Range(StringList(d.times)) : DailyTimeOK(s)
        /\ ~d.long
        /\ Schedulable(d)
        /\ Protocol(d.entry) = OpenAI
        /\ Protocol(d.exit) \in ExitProtocols
        /\ FilterOK(StringList(d.providers))
        /\ FilterOK(StringList(d.include))
        /\ FilterOK(StringList(d.exclude))

(* Config{HostEnabled: e}.                                                 *)
ZeroConfig(e) ==
    [hostEnabled |-> e, schedule |-> FALSE, timezone |-> Empty,
     location |-> 0, times |-> <<>>, model |-> Empty, message |-> Empty,
     exit |-> 0, maxTokens |-> 0, providers |-> <<>>, include |-> <<>>,
     exclude |-> <<>>, physicalFilesOnly |-> FALSE, skipUnavailable |-> FALSE,
     temporaryPriority |-> FALSE, delay |-> 0, sync |-> 0, timeout |-> 0]

(* The settings of a valid document; the location is still to be loaded.   *)
ParsedSettings(d) ==
    [hostEnabled |-> TRUE, schedule |-> d.schedule,
     timezone |-> TimeZone(d.timezone), location |-> 0,
     times |-> NormalizeTimes(StringList(d.times)),
     model |-> TrimSpace(d.model), message |-> d.message,
     exit |-> Protocol(d.exit), maxTokens |-> Given(d.maxTokens, 16),
     providers |-> NormalizeStrings(StringList(d.providers), TRUE),
     include |-> NormalizeStrings(StringList(d.include), FALSE),
     exclude |-> NormalizeStrings(StringList(d.exclude), FALSE),
     physicalFilesOnly |-> Given(d.physicalFilesOnly, TRUE),
     skipUnavailable |-> Given(d.skipUnavailable, TRUE),
     temporaryPriority |-> Given(d.temporaryPriority, FALSE),
     delay |-> Given(d.delay, 1000), sync |-> Given(d.sync, 5000),
     timeout |-> Given(d.timeout, 120000)]

(* n tells the n-th call from the others.                                  *)
ParseConfig(d, n) ==
    IF ~HostEnabled(d) THEN ZeroConfig(FALSE)
    ELSE [ParsedSettings(d) EXCEPT !.location = Location(d.timezone, n)]

Settings == DOMAIN ZeroConfig(TRUE) \ {"location"}

(* Mutant: one setting was forgotten.                                      *)
EquivalentButTimeout(c, o) == \A f \in Settings \ {"timeout"} : c[f] = o[f]

(* Mutant: the locations are compared as objects.                          *)
EquivalentObjects(c, o) == c = o

(* The locations are compared by the name of their zone.                   *)
Equivalent(c, o) == \A f \in Settings : c[f] = o[f]

-----------------------------------------------------------------------------
Init ==
    /\ document \in Documents /\ applied = 0
    /\ config = ZeroConfig(FALSE) /\ configError = FALSE /\ generation = 0

Apply(d) ==
    LET cfg == ParseConfig(d, applied + 1)
    IN /\ applied < MaxApplied /\ applied' = applied + 1
       /\ document' = d
       /\ \/ /\ Valid(d) /\ generation > 0 /\ ~configError
             /\ Equivalent(config, cfg)
             /\ UNCHANGED <<config, configError, generation>>
          \/ /\ Valid(d)
             /\ ~(generation > 0 /\ ~configError /\ Equivalent(config, cfg))
             /\ config' = cfg /\ configError' = FALSE
             /\ generation' = generation + 1
          \/ /\ ~Valid(d)
             /\ config' = ZeroConfig(TRUE) /\ configError' = TRUE
             /\ generation' = generation + 1

Next == \E d \in Documents : Apply(d)

Spec == Init /\ [][Next]_vars

-----------------------------------------------------------------------------
InForce == applied > 0 /\ ~configError

(* Whatever the service did before, once a document is accepted all of its *)
(* settings are in force: a change is never taken for a repetition.        *)
ReloadTakesEffect ==
    InForce => \A f \in Settings : config[f] = ParseConfig(document, 0)[f]

(* The host sends the same document again with every change of a           *)
(* credential file: a repetition must not disturb the run that caused it.  *)
RepetitionChangesNothing ==
    [][InForce /\ document' = document =>
           UNCHANGED <<config, configError, generation>>]_vars

(* A filter that the document gives restricts to what it names: it never   *)
(* turns into no restriction.                                              *)
FiltersNeverWiden ==
    InForce /\ config.hostEnabled =>
        \A f \in {"providers", "include", "exclude"} :
            LET node == document[f]
            IN node.kind # "null" /\ node.items # <<>> =>
                 /\ config[f] # <<>>
                 /\ {t.word : t \in Range(config[f])} =
                       {t.word : t \in Range(node.items)} \ {0}
=============================================================================
