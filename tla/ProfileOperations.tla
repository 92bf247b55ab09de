-------------------------- MODULE ProfileOperations ----------------------------
(* A caller of internal/pprof/profile: it parses a profile and applies the     *)
(* package's operations to it in any order. Names, regular expressions and     *)
(* messages are small sets; each operation is one action, since the package    *)
(* keeps no state but the profile it is given.                                 *)
EXTENDS ProfileMerge, ProfileFilter, JavaFormats

CONSTANTS
    Wires,          \* name -> a message that may be parsed
    Texts,          \* name -> a profile in one of the formats before
    Regexps,        \* sets of names
    Filters,        \* combinations of focus, ignore, hide and show
    Ratios,         \* fractions to scale by
    LabelKeys,
    MaxOperations,  \* bound: operations applied to one profile
    NoProfile

ASSUME OperationsAssumption ==
    /\ MaxOperations \in Nat
    /\ \A w \in DOMAIN Wires : IsMessage(Wires[w])
    /\ \A t \in DOMAIN Texts : IsText(Texts[t])
    /\ \A t \in DOMAIN Texts :
        LET result == ParseLegacy(Texts[t]) IN result.error = "" => IsProfile(result.profile)
    /\ DOMAIN Wires \cap DOMAIN Texts = {}
    /\ \A ratio \in Ratios : ratio.num \in Int /\ ratio.den \in Nat \ {0}

VARIABLES
    status,     \* "unread", "open", "rejected", or "panicked"
    profile,
    last,       \* the last operation and its arguments
    operations  \* operations left

operationVars == <<status, profile, last, operations>>

OptionalRegexps == Regexps \cup {NoRegexp}
OptionalKeys == LabelKeys \cup {NoRegexp}
Attributes == {"inlines", "functions", "filenames", "lines", "addresses"}

OperationsInit ==
    /\ status = "unread" /\ profile = NoProfile /\ last = <<"none">>
    /\ operations \in {0, MaxOperations}

Ready == status = "open" /\ operations > 0

(* An operation that has given this profile. *)
Becomes(p, operation) ==
    /\ profile' = p
    /\ last' = operation
    /\ operations' = operations - 1
    /\ UNCHANGED status

(* Parse of a message or a text; a parser may divide by zero. *)
ParseResult(error, p) ==
    [status  |-> IF error = "panic" THEN "panicked" ELSE IF error = "" /\ CheckValid(p) THEN "open" ELSE "rejected",
     profile |-> p]
LegacyResult(result) ==
    ParseResult(result.error, IF result.error = "" THEN result.profile ELSE NoProfile)
Sources == DOMAIN Wires \cup DOMAIN Texts
Results ==
    [w \in Sources |->
        IF w \in DOMAIN Wires
        THEN ParseResult(IF Wires[w].malformed THEN "unrecognized" ELSE "", Parse(Wires[w]))
        ELSE LegacyResult(ParseLegacy(Texts[w]))]

(* Mutant: the profile is returned together with the error. *)
ReadAnyway(w, result) ==
    /\ status' = result.status
    /\ profile' = result.profile
    /\ last' = <<"parse", w>>
    /\ UNCHANGED operations

(* Parse. *)
Read(w, result) ==
    /\ status' = result.status
    /\ profile' = IF result.status = "open" THEN result.profile ELSE NoProfile
    /\ last' = <<"parse", w>>
    /\ UNCHANGED operations
ParseProfile(w) == status = "unread" /\ operations > 0 /\ Read(w, Results[w])

(* Merge of the profile and one just parsed. An error leaves the two as they   *)
(* are.                                                                        *)
MergeWith(w, other) ==
    /\ Compatible(profile, other) /\ ~MergePanics(<<profile, other>>)
    /\ Becomes(Merge(<<profile, other>>), <<"merge", w>>)
MergeFails(w, other) ==
    /\ ~Compatible(profile, other)
    /\ Becomes(profile, <<"failed merge", w>>)
MergePanicking(w, other) ==
    /\ Compatible(profile, other) /\ MergePanics(<<profile, other>>)
    /\ status' = "panicked"
    /\ last' = <<"merge", w>>
    /\ UNCHANGED <<profile, operations>>
MergeParsed(w, result) ==
    /\ result.status = "open"
    /\ \/ MergeWith(w, result.profile)
       \/ MergeFails(w, result.profile)
       \/ MergePanicking(w, result.profile)

CompactProfile == Becomes(Compact(profile), <<"compact">>)
CopyProfile == Becomes(Copy(profile), <<"copy">>)
PruneProfile(drop, keep) == Becomes(Prune(profile, drop, keep), <<"prune", drop, keep>>)
PruneProfileFrom(drop) == Becomes(PruneFrom(profile, drop), <<"prune from", drop>>)
RemoveUninterestingFrames == Becomes(RemoveUninteresting(profile), <<"remove uninteresting">>)
FilterByName(f) ==
    Becomes(FilterSamplesByName(profile, f.focus, f.ignore, f.hide, f.show), <<"filter", f>>)
FilterTags(show, hide) == Becomes(FilterTagsByName(profile, show, hide), <<"filter tags">>)
FilterByTag(focus, ignore) == Becomes(FilterSamplesByTag(profile, focus, ignore), <<"filter by tag">>)
AggregateProfile(keep) == Becomes(Aggregate(profile, keep), <<"aggregate">>)
Massage == Becomes(MassageMappings(profile), <<"massage">>)

(* Scale, and ScaleN with one ratio for all types. *)
Scale(ratio) == Becomes(ScaleN(profile, [i \in DOMAIN profile.types |-> ratio]), <<"scale">>)

Operation ==
    \/ \E w \in Sources : MergeParsed(w, Results[w])
    \/ CompactProfile \/ CopyProfile \/ RemoveUninterestingFrames \/ Massage
    \/ \E drop \in Regexps : PruneProfileFrom(drop) \/ \E keep \in OptionalRegexps : PruneProfile(drop, keep)
    \/ \E f \in Filters : FilterByName(f)
    \/ \E show, hide \in {NoRegexp} \cup {{k} : k \in LabelKeys} : FilterTags(show, hide)
    \/ \E focus, ignore \in OptionalKeys : FilterByTag(focus, ignore)
    \/ \E missing \in Attributes : AggregateProfile(Attributes \ {missing})
    \/ \E ratio \in Ratios : Scale(ratio)

OperationsNext ==
    \/ \E w \in Sources : ParseProfile(w)
    \/ Ready /\ Operation

OperationsSpec == OperationsInit /\ [][OperationsNext]_operationVars

--------------------------------------------------------------------------------

(* What one frame of a location says, what a location says wherever its        *)
(* mapping was loaded, and what identifies a sample in any profile.            *)
SaidByLine(p, ln) ==
    IF ln.function = Nil THEN [name |-> "", file |-> "", line |-> ln.line]
    ELSE [name |-> p.functions[ln.function].name, file |-> p.functions[ln.function].file, line |-> ln.line]
SaidByLocation(p, l) ==
    [address |-> IF l.mapping = Nil THEN l.address ELSE l.address - p.mappings[l.mapping].start,
     mapped  |-> l.mapping # Nil,
     lines   |-> [i \in DOMAIN l.lines |-> SaidByLine(p, l.lines[i])]]
SaidBySample(p, s) ==
    [stack     |-> [i \in DOMAIN s.locations |-> SaidByLocation(p, p.locations[s.locations[i]])],
     labels    |-> s.labels,
     numLabels |-> s.numLabels]
Sayings(p) == {SaidBySample(p, s) : s \in ToSet(p.samples)}
Total(p, said) ==
    FoldLeft(LAMBDA sum, s : IF SaidBySample(p, s) = said THEN [i \in DOMAIN sum |-> sum[i] + s.values[i]] ELSE sum,
             [i \in DOMAIN p.types |-> 0], p.samples)

(* The first mapping, the main binary, has a file or a build ID. *)
MainBinaryNamed(p) == p.mappings = <<>> \/ ~NoNames(<<p.mappings[1]>>)

ProfileTypeOK ==
    /\ status \in {"unread", "open", "rejected", "panicked"}
    /\ operations \in 0..MaxOperations
    /\ status = "open" => IsProfile(profile)
    /\ status \in {"unread", "rejected"} => profile = NoProfile

(* A profile that was parsed stays valid under every operation, in any order   *)
(* (CheckValid, profile.go:321): no nil location in a sample, unique positive  *)
(* IDs, no reference out of the tables.                                        *)
StaysValid == status = "open" => CheckValid(profile)

(* Merge only regroups (merge.go:38): for each stack with its labels, wherever *)
(* the two programs were loaded, the merged values are the sums of the two.    *)
(* It holds only if the main binary of the first profile has a name: without   *)
(* one, line 67 lets the first profile's mapping stand for one of the second.  *)
Regrouped(p, q, merged) ==
    \A said \in Sayings(p) \cup Sayings(q) \cup Sayings(merged) :
        \A i \in DOMAIN p.types : Total(merged, said)[i] = Total(p, said)[i] + Total(q, said)[i]
MergeKeepsStacks ==
    [][last'[1] = "merge" /\ status' = "open" /\ MainBinaryNamed(profile) =>
        Regrouped(profile, Results[last'[2]].profile, profile')]_operationVars

(* A merged profile is compact (merge.go:31): no zero samples, no two samples, *)
(* locations or functions that could be one, none that is unused, and but for  *)
(* the main binary no unused mapping.                                          *)
IsCompact(p) ==
    LET lines == UNION {ToSet(l.lines) : l \in ToSet(p.locations)}
        Distinct(table, Alike(_, _)) ==
            \A i, j \in DOMAIN table : Alike(table[i], table[j]) => i = j
    IN /\ \A s \in ToSet(p.samples) : ~IsZeroSample(s)
       /\ Distinct(p.samples, SameKey)
       /\ Distinct(p.locations, LAMBDA l, m : LocationKey(p, l) = LocationKey(p, m))
       /\ Distinct(p.functions, LAMBDA f, g : f.name = g.name /\ f.file = g.file)
       /\ UNION {ToSet(s.locations) : s \in ToSet(p.samples)} = DOMAIN p.locations
       /\ {ln.function : ln \in lines} \ {Nil} = DOMAIN p.functions
       /\ DOMAIN p.mappings \subseteq {1} \cup {l.mapping : l \in ToSet(p.locations)}
MergedIsCompact ==
    [][last'[1] \in {"merge", "compact"} /\ status' = "open" /\ MainBinaryNamed(profile) =>
        IsCompact(profile')]_operationVars

(* Writing a profile and parsing it gives the same profile, whatever the IDs   *)
(* of its entries and their order (encode.go), but for numeric labels that are *)
(* 0, which are not told from none.                                            *)
WithoutZeros(labels) ==
    LET NotZero(n) == n # 0
    IN [k \in {k \in DOMAIN labels : SelectSeq(labels[k], NotZero) # <<>>} |-> SelectSeq(labels[k], NotZero)]
CopyKeepsProfile ==
    [][last'[1] = "copy" =>
        profile' = [profile EXCEPT !.samples = [i \in DOMAIN @ |->
                        [@[i] EXCEPT !.numLabels = WithoutZeros(@)]]]]_operationVars

(* The samples of a text are its lines up to a place that depends on the format *)
(* (legacy_profile.go:103, 516, 755, 862, 930 and legacy_java_profile.go:173).   *)
JustRead == status = "open" /\ last[1] = "parse" /\ last[2] \in DOMAIN Texts
InJava(p) == \E kind \in DOMAIN JavaTypes : p.types = JavaTypes[kind]
EndsSamples(text, i) ==
    LET kind == text[i].kind
        Before(k) == \E j \in 1..i-1 : text[j].kind = k
    IN CASE InJava(profile) -> kind \notin {"blank", "pair"} /\ (kind = "attribute" => Before("pair"))
         [] profile.periodType = "space"  -> IsMemoryMapSentinel(text[i])
         [] profile.periodType = "thread" ->
                kind # "thread" /\ (Dashed(text[i]) \/ (IsMemoryMapSentinel(text[i]) /\ ~Before("thread")))
         [] OTHER -> Dashed(text[i])
EndOfSamples(text) ==
    LET header == FirstPlace(text, LAMBDA l : ~IsSpaceOrComment(l))
    IN header + FirstPlace([k \in 1..Len(text) - header |-> EndsSamples(text, header + k)], LAMBDA ends : ends)

(* A thread has a stack of its own if it is not the same as the one before and  *)
(* its lines, up to the next with dashes, hold an address.                      *)
OwnStack(text, i) ==
    LET lines == SubSeq(text, i + 1, i - 1 + FirstPlace(From(text, i + 1), Dashed))
    IN /\ ~\E l \in ToSet(lines) : l.kind = "same as previous"
       /\ \E l \in ToSet(lines) : Addresses(l) # <<>>

(* Where a line stands among the samples: a count its number; a heap row what   *)
(* is in use, but nothing in a sampled profile if it has no size; a thread one, *)
(* but for those before the first with a stack; a contention its number for     *)
(* each that was sampled; a CPU profile its records up to the end of its data.  *)
(* Where samples are scaled a row only says whether its sample is above zero.   *)
SumOf(numbers) == FoldLeft(LAMBDA sum, n : sum + n, 0, numbers)
AsOne(n) == IF n = 0 THEN 0 ELSE 1
Sampled(text) == text[1].kind = "heap profile" /\ text[1].format \in {"heap", "heap_v2", "heapz_v2"}
Scaled(p) == p.types = JavaTypes.heapz \/ (p.periodType = "space" /\ p.period > 1)
CountedBy(text, i) ==
    LET l == text[i]
    IN CASE l.kind = "count" -> l.count
         [] l.kind = "heap"  ->
                IF Sampled(text) /\ l.inuse[2] = 0 THEN 0
                ELSE IF Scaled(profile) THEN AsOne(l.inuse[1]) ELSE l.inuse[1]
         [] l.kind = "thread" ->
                AsOne(Cardinality({k \in 1..i : text[k].kind = "thread" /\ OwnStack(text, k)}))
         [] l.kind = "pair"  ->
                IF Scaled(profile) THEN AsOne(l.first)
                ELSE IF profile.period > 0 THEN l.second * profile.period ELSE l.second
         [] l.kind = "words" -> SumOf([k \in 1..FirstPlace(l.records, EndOfData) - 1 |-> l.records[k].count])
         [] OTHER            -> 0

(* What a text counts, line by line, is what the samples count that were read   *)
(* from it (parseLegacy, profile.go:186): no parser loses a line among the      *)
(* samples, counts one twice, or reads on behind them.                          *)
CountsText ==
    JustRead =>
        LET text  == Texts[last[2]]
            count == IF Len(profile.types) = 4 THEN 3 ELSE 1
            Of(s) == IF Scaled(profile) THEN AsOne(s.values[count]) ELSE s.values[count]
        IN SumOf([i \in DOMAIN profile.samples |-> Of(profile.samples[i])])
           = SumOf([i \in 1..EndOfSamples(text) - 1 |-> CountedBy(text, i)])

(* Whatever the memory map says, every address is in a mapping that contains it *)
(* (remapMappingIDs, legacy_profile.go:190), also when the mapping had to begin *)
(* before what the map says; the one made up is for what no other contains.     *)
IsFake(m) == m.file = "" /\ m.limit = MaxAddress
AddressesMapped ==
    JustRead =>
        \A l \in ToSet(profile.locations) :
            l.address # 0 =>
                /\ l.mapping # Nil
                /\ LET m == profile.mappings[l.mapping]
                   IN IF IsFake(m)
                      THEN \A other \in ToSet(profile.mappings) : InMapping(other, l.address) => IsFake(other)
                      ELSE InMapping(m, l.address)

(* Prune drops what matches from its outermost frame on, but "Do not prune      *)
(* frames before the first user frame" (prune.go:66): nothing above the first   *)
(* location without a match, so that the root stays even if it matches; nothing *)
(* that is cut leaves a match below a frame to keep, and a stack without any    *)
(* match is left alone.                                                         *)
PruneCuts ==
    [][last'[1] = "prune" =>
        LET Dropped(p, l) == \E ln \in ToSet(p.locations[l].lines) : Drops(p, ln, last'[2], last'[3])
        IN \A i \in DOMAIN profile.samples :
            LET old == profile.samples[i].locations
                new == profile'.samples[i].locations
            IN /\ IsSuffix(new, old)
               /\ old # <<>> => new # <<>>
               /\ \A j \in DOMAIN new :
                    (\E k \in j+1..Len(new) : ~Dropped(profile, new[k])) => ~Dropped(profile', new[j])
               /\ (\A j \in DOMAIN old : ~Dropped(profile, old[j])) => new = old]_operationVars

(* prune.go:26 says of Prune that "If the root node of a Sample matches, the     *)
(* sample will have an empty stack".                                            *)
MatchingRootEmptiesStack ==
    [][last'[1] = "prune" =>
        LET RootMatches(stack) ==
                LET lines == profile.locations[Last(stack)].lines
                IN lines # <<>> /\ Drops(profile, Last(lines), last'[2], last'[3])
        IN \A i \in DOMAIN profile.samples :
            LET old == profile.samples[i].locations
            IN old # <<>> /\ RootMatches(old) => profile'.samples[i].locations = <<>>]_operationVars

(* FilterSamplesByName (filter.go:21): no sample that is left shows a frame or *)
(* a file that hide matches, or has a location that was emptied.               *)
HiddenIsGone ==
    [][last'[1] = "filter" /\ last'[2].hide # NoRegexp =>
        \A s \in ToSet(profile'.samples) : \A l \in ToSet(s.locations) :
            /\ ~MatchesName(profile', profile'.locations[l], last'[2].hide)
            /\ profile'.locations[l].lines = <<>> => profile.locations[l].lines = <<>>]_operationVars
================================================================================
